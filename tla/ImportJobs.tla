----------------------------- MODULE ImportJobs -----------------------------
(***************************************************************************)
(* The background writers of the dashboard's API and the one slot for a     *)
(* database import: uploads, inspections, merges, deletions and the sweeper *)
(* of the import manager, the one-click Codex migration and the cost        *)
(* recompute, with every check another of them takes before it begins.      *)
(*                                                                          *)
(* m.mu guards the slot; writerBusMu is held over a check and the start it  *)
(* decides, so such a pair is one step here.  Between the migration check   *)
(* of an upload and its reservation, between a deletion's two halves and    *)
(* between a sweep's two halves no lock is held, so these are steps apart.  *)
(***************************************************************************)
EXTENDS Naturals, FiniteSets

CONSTANTS
    Jobs,          \* the random ids of uploads, each used once
    None,          \* no job in the slot
    MaxRestarts    \* restarts of the daemon (bound)

ASSUME JobAssumption == None \notin Jobs
ASSUME BoundAssumption == MaxRestarts \in Nat

VARIABLES
    slot,          \* the id of m.job, or None
    state,         \* m.job.State, with the uploading phase of "inspecting" apart
    retryable,     \* m.job.Retryable
    lapsed,        \* the slot's job is past its deadline: 30 min, 1 h or 24 h
    upload,        \* where the HTTP handler of each upload stands
    worker,        \* the goroutine of each job
    removing,      \* deletions under way
    files,         \* uploads on disk
    old,           \* of these, last written more than 24 h ago
    sweep,         \* the sweeper
    migrating,     \* codexMigrate.running
    recomputing,   \* recompute.running
    restarts,
    previewed      \* history: jobs whose own inspection succeeded

slotVars == <<slot, state, retryable, lapsed>>
writerVars == <<migrating, recomputing>>
vars == <<slotVars, upload, worker, removing, files, old, sweep, writerVars,
          restarts, previewed>>

States == {"empty", "uploading", "inspecting", "ready", "importing", "failed", "succeeded"}
Idle == [on |-> FALSE, keep |-> None, expired |-> None, old |-> {}]

Init ==
    /\ slot = None
    /\ state = "empty"
    /\ retryable = FALSE
    /\ lapsed = FALSE
    /\ upload = [j \in Jobs |-> "unsent"]
    /\ worker = [j \in Jobs |-> "none"]
    /\ removing = [j \in Jobs |-> "no"]
    /\ files = {}
    /\ old = {}
    /\ sweep = Idle
    /\ migrating = FALSE
    /\ recomputing = FALSE
    /\ restarts = 0
    /\ previewed = {}

-----------------------------------------------------------------------------
(* The slot                                                                 *)

HasActiveJob == state \in {"uploading", "inspecting", "ready", "importing"}

\* job.active: a goroutine works for the job in the slot.
SlotActive == slot # None /\ worker[slot] # "none"

\* wg's counter is zero.
NobodyWorks == \A j \in Jobs : worker[j] = "none"

SetSlot(j, s, r) ==
    /\ slot' = j
    /\ state' = s
    /\ retryable' = r
    /\ lapsed' = FALSE

EmptySlot == SetSlot(None, "empty", FALSE)

-----------------------------------------------------------------------------
(* Uploading                                                                *)

\* ImportInspect asks whether a migration runs, and lets go of the lock.
Admit(j) ==
    /\ upload[j] = "unsent"
    /\ upload' = [upload EXCEPT ![j] = IF migrating THEN "over" ELSE "admitted"]
    /\ UNCHANGED <<slotVars, worker, removing, files, old, sweep, writerVars, restarts,
                   previewed>>

\* reserveUpload: a slot that holds an ended job is taken over.
Reserve(j) ==
    /\ upload[j] = "admitted"
    /\ IF HasActiveJob
       THEN /\ upload' = [upload EXCEPT ![j] = "over"]
            /\ UNCHANGED <<slotVars, files, old>>
       ELSE /\ SetSlot(j, "uploading", FALSE)
            /\ upload' = [upload EXCEPT ![j] = "reserved"]
            /\ files' = files \ {slot}
            /\ old' = old \ {slot}
    /\ UNCHANGED <<worker, removing, sweep, writerVars, restarts, previewed>>

CreateFile(j) ==
    /\ upload[j] = "reserved"
    /\ upload' = [upload EXCEPT ![j] = "copying"]
    /\ files' = files \cup {j}
    /\ UNCHANGED <<slotVars, worker, removing, old, sweep, writerVars, restarts, previewed>>

\* completeUpload: the inspection begins if the slot is still this upload's.
\* If a deletion or the sweeper took it away, abort finds nothing to do.
CompleteUpload(j) ==
    /\ upload[j] = "copying"
    /\ upload' = [upload EXCEPT ![j] = "over"]
    /\ IF slot = j
       THEN /\ SetSlot(j, "inspecting", FALSE)
            /\ worker' = [worker EXCEPT ![j] = "inspect"]
       ELSE UNCHANGED <<slotVars, worker>>
    /\ UNCHANGED <<removing, files, old, sweep, writerVars, restarts, previewed>>

-----------------------------------------------------------------------------
(* Deleting                                                                 *)

\* abortUpload, under m.mu: the slot is emptied and the worker cancelled.
\* What remains has to wait for the workers only if the job had one.
Abort(j) ==
    /\ slot = j
    /\ state # "importing"
    /\ EmptySlot
    /\ removing' = [removing EXCEPT ![j] = IF SlotActive THEN "waiting" ELSE "due"]

\* Mutation: abortUpload removing the files without waiting.
RemoveAtOnce(j) ==
    /\ removing[j] # "no"
    /\ removing' = [removing EXCEPT ![j] = "no"]
    /\ files' = files \ {j}
    /\ old' = old \ {j}
    /\ UNCHANGED <<slotVars, upload, worker, sweep, writerVars, restarts, previewed>>

\* ... and after it.  wg counts the workers of every job.
RemoveFiles(j) ==
    /\ removing[j] # "no"
    /\ removing[j] = "waiting" => NobodyWorks
    /\ removing' = [removing EXCEPT ![j] = "no"]
    /\ files' = files \ {j}
    /\ old' = old \ {j}
    /\ UNCHANGED <<slotVars, upload, worker, sweep, writerVars, restarts, previewed>>

\* The handler's own abort, when the body or the disk fails it.
UploadFails(j) ==
    /\ upload[j] \in {"reserved", "copying"}
    /\ upload' = [upload EXCEPT ![j] = "over"]
    /\ IF slot = j THEN Abort(j) ELSE UNCHANGED <<slotVars, removing>>
    /\ UNCHANGED <<worker, files, old, sweep, writerVars, restarts, previewed>>

Delete(j) ==
    /\ Abort(j)
    /\ UNCHANGED <<upload, worker, files, old, sweep, writerVars, restarts, previewed>>

-----------------------------------------------------------------------------
(* Inspecting and merging                                                   *)

\* Mutation: a result attached to whichever job holds the slot.
AttachToSlot(j, ok) ==
    /\ worker[j] = "inspect"
    /\ worker' = [worker EXCEPT ![j] = "none"]
    /\ previewed' = IF ok THEN previewed \cup {j} ELSE previewed
    /\ IF slot # None
       THEN SetSlot(slot, IF ok THEN "ready" ELSE "failed", FALSE)
       ELSE UNCHANGED slotVars
    /\ UNCHANGED <<upload, removing, files, old, sweep, writerVars, restarts>>

\* runInspection's end.  What a deleted job's inspection found is dropped.
InspectionEnds(j, ok) ==
    /\ worker[j] = "inspect"
    /\ worker' = [worker EXCEPT ![j] = "none"]
    /\ previewed' = IF ok THEN previewed \cup {j} ELSE previewed
    /\ IF slot = j
       THEN SetSlot(j, IF ok THEN "ready" ELSE "failed", FALSE)
       ELSE UNCHANGED slotVars
    /\ UNCHANGED <<upload, removing, files, old, sweep, writerVars, restarts>>

\* Mutation: the check of the migration left out of ImportStart.
NoMigrationCheck == FALSE

MigrationInTheWay == migrating

\* ImportStart and start: a first attempt or one after a failed merge.
StartImport(j) ==
    /\ slot = j
    /\ state = "ready" \/ (state = "failed" /\ retryable)
    /\ ~MigrationInTheWay
    /\ SetSlot(j, "importing", FALSE)
    /\ worker' = [worker EXCEPT ![j] = "merge"]
    /\ UNCHANGED <<upload, removing, files, old, sweep, writerVars, restarts, previewed>>

\* runMerge's end.
MergeEnds(j, ok) ==
    /\ worker[j] = "merge"
    /\ worker' = [worker EXCEPT ![j] = "none"]
    /\ IF slot # j THEN UNCHANGED <<slotVars, files, old>>
       ELSE IF ok
            THEN /\ SetSlot(j, "succeeded", FALSE)
                 /\ files' = files \ {j}
                 /\ old' = old \ {j}
            ELSE /\ SetSlot(j, "failed", TRUE)
                 /\ UNCHANGED <<files, old>>
    /\ UNCHANGED <<upload, removing, sweep, writerVars, restarts, previewed>>

-----------------------------------------------------------------------------
(* Time and the sweeper                                                     *)

\* Mutation: the stuck upload forgotten.
ExpirableEnded == state \in {"ready", "failed"}

Expirable == state \in {"uploading", "ready", "failed"}

\* The slot's job reaches its deadline.  Progress moves the deadline of a job
\* somebody works for, and no deadline of such a job counts.
Lapse ==
    /\ Expirable
    /\ ~lapsed
    /\ lapsed' = TRUE
    /\ UNCHANGED <<slot, state, retryable, upload, worker, removing, files, old, sweep,
                   writerVars, restarts, previewed>>

\* A file is written for as long as its upload lasts and inspected right
\* after: neither lasts 24 h past the last write.
Age(j) ==
    /\ j \in files \ old
    /\ upload[j] = "over"
    /\ worker[j] # "inspect"
    /\ old' = old \cup {j}
    /\ UNCHANGED <<slotVars, upload, worker, removing, files, sweep, writerVars, restarts,
                   previewed>>

Expired == ~SlotActive /\ Expirable /\ lapsed

\* sweep, under m.mu.  The cutoff for old files is taken with the time.
SweepSlot ==
    /\ ~sweep.on
    /\ IF Expired
       THEN /\ sweep' = [on |-> TRUE, keep |-> None, expired |-> slot, old |-> old]
            /\ EmptySlot
       ELSE /\ sweep' = [on |-> TRUE, keep |-> slot, expired |-> None, old |-> old]
            /\ UNCHANGED slotVars
    /\ UNCHANGED <<upload, worker, removing, files, old, writerVars, restarts, previewed>>

\* Mutation: the sweeper that only cleans up after jobs it knows.
NoOrphans == {}

\* Old files whose job was not the slot's when the lock was held.
Orphans == sweep.old \ {sweep.keep}

\* ... and the files removed after it.
SweepFiles ==
    /\ sweep.on
    /\ sweep' = Idle
    /\ files' = files \ (Orphans \cup {sweep.expired})
    /\ old' = old \ (Orphans \cup {sweep.expired})
    /\ UNCHANGED <<slotVars, upload, worker, removing, writerVars, restarts, previewed>>

-----------------------------------------------------------------------------
(* The other writers                                                        *)

\* POST codex/migrate; and the end of runCodexMigration, its 30-minute
\* deadline included.
StartMigration ==
    /\ ~HasActiveJob
    /\ ~migrating
    /\ migrating' = TRUE
    /\ UNCHANGED <<slotVars, upload, worker, removing, files, old, sweep, recomputing,
                   restarts, previewed>>

MigrationEnds ==
    /\ migrating
    /\ migrating' = FALSE
    /\ UNCHANGED <<slotVars, upload, worker, removing, files, old, sweep, recomputing,
                   restarts, previewed>>

\* POST pricing/recompute, and the end of runRecompute.
StartRecompute ==
    /\ ~recomputing
    /\ ~HasActiveJob
    /\ ~migrating
    /\ recomputing' = TRUE
    /\ UNCHANGED <<slotVars, upload, worker, removing, files, old, sweep, migrating,
                   restarts, previewed>>

RecomputeEnds ==
    /\ recomputing
    /\ recomputing' = FALSE
    /\ UNCHANGED <<slotVars, upload, worker, removing, files, old, sweep, migrating,
                   restarts, previewed>>

\* The daemon stops, in order or not, and starts again: only the files stay.
Restart ==
    /\ restarts < MaxRestarts
    /\ restarts' = restarts + 1
    /\ EmptySlot
    /\ upload' = [j \in Jobs |-> IF upload[j] = "unsent" THEN "unsent" ELSE "over"]
    /\ worker' = [j \in Jobs |-> "none"]
    /\ removing' = [j \in Jobs |-> "no"]
    /\ sweep' = Idle
    /\ migrating' = FALSE
    /\ recomputing' = FALSE
    /\ UNCHANGED <<files, old, previewed>>

-----------------------------------------------------------------------------
Work(j) == \E ok \in BOOLEAN : InspectionEnds(j, ok) \/ MergeEnds(j, ok)

JobStep(j) ==
    \/ Admit(j) \/ Reserve(j) \/ CreateFile(j) \/ CompleteUpload(j) \/ UploadFails(j)
    \/ Delete(j) \/ RemoveFiles(j) \/ StartImport(j) \/ Age(j) \/ Work(j)

Next ==
    \/ \E j \in Jobs : JobStep(j)
    \/ Lapse \/ SweepSlot \/ SweepFiles
    \/ StartMigration \/ MigrationEnds \/ StartRecompute \/ RecomputeEnds
    \/ Restart

Spec == Init /\ [][Next]_vars

\* Workers return, time passes and the ticker ticks.  Nothing is asked of the
\* clients: an upload may stall, a ready job may never be started or deleted.
Fairness ==
    /\ WF_vars(Lapse) /\ WF_vars(SweepSlot) /\ WF_vars(SweepFiles)
    /\ \A j \in Jobs : WF_vars(Work(j)) /\ WF_vars(Age(j))

FairSpec == Spec /\ Fairness

-----------------------------------------------------------------------------
\* The types; m.job is nil exactly when there is no state to speak of.
TypeOK ==
    /\ slot \in Jobs \cup {None}
    /\ state \in States
    /\ slot = None <=> state = "empty"
    /\ retryable \in BOOLEAN
    /\ lapsed \in BOOLEAN
    /\ upload \in [Jobs -> {"unsent", "admitted", "reserved", "copying", "over"}]
    /\ worker \in [Jobs -> {"none", "inspect", "merge"}]
    /\ removing \in [Jobs -> {"no", "due", "waiting"}]
    /\ files \in SUBSET Jobs
    /\ old \in SUBSET files
    /\ sweep \in [on : BOOLEAN, keep : Jobs \cup {None}, expired : Jobs \cup {None},
                  old : SUBSET Jobs]
    /\ migrating \in BOOLEAN
    /\ recomputing \in BOOLEAN
    /\ restarts \in 0..MaxRestarts
    /\ previewed \in SUBSET Jobs

\* "Waits for file users to exit" (handler.go, Close; abortUpload): whoever
\* inspects or merges an upload has it on disk, whatever is deleted, swept,
\* taken over or retried meanwhile.
UsersHaveTheirFile == \A j \in Jobs : worker[j] # "none" => j \in files

\* The migration and the merge of an import never write together, although a
\* failed import lets a migration begin and can then be retried.
ImportExcludesMigration == migrating => \A j \in Jobs : worker[j] # "merge"

\* A job offered or started for import has been inspected itself: the late
\* result of a deleted job's inspection is never taken for another's.
ImportedWasInspected ==
    state \in {"ready", "importing", "succeeded"} => slot \in previewed

\* No upload holds the only slot for ever: not one whose client stalls, nor
\* one nobody starts.
SlotIsFreed ==
    \A j \in Jobs : (slot = j /\ HasActiveJob) ~> ~(slot = j /\ HasActiveJob)

\* A file no job owns does not stay on disk: a deletion that raced the
\* creation of the file and a daemon that stopped leave it to the sweeper.
OrphansAreRemoved ==
    \A j \in Jobs : (j \in files /\ slot # j /\ upload[j] = "over") ~> (j \notin files)

=============================================================================
