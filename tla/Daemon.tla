------------------------------- MODULE Daemon -------------------------------
(***************************************************************************)
(* The daemon's life: the commands that start and stop it by way of a PID   *)
(* file, a start by hand that knows no PID file, the start-up of each       *)
(* process on the shared database (SchemaMigrations), the port that only    *)
(* one can bind, and what the one that serves does: it counts requests and  *)
(* lets prices be edited (PriceRegistry).                                   *)
(*                                                                          *)
(* The registry is loaded in one step with the binding of the port.         *)
(***************************************************************************)
EXTENDS SchemaMigrations, PriceRegistry

CONSTANTS
    Nobody,        \* no process
    Shells,        \* command lines in which commands run
    Budgets        \* how much of everything a behaviour has (bounds)

ASSUME BudgetAssumption ==
    /\ Nobody \notin Procs
    /\ \A b \in Budgets : b \in [starts: Nat, restarts: Nat, hands: Nat, stops: Nat, crashes: Nat,
                              errors: Nat, edits: Nat, lookups: Nat, rows: SUBSET Stored]

VARIABLES
    pidFile,   \* the PID in the file, or Nobody
    shell,     \* the command each shell runs
    used,      \* processes that were started; by the commands; by hand
    met,       \* history: two commands ran at once
    budget

vars == <<migrationVars, registryVars, pidFile, shell, used, met, budget>>
cliVars == <<pidFile, shell, used, met>>

Idle == [step |-> "idle", pid |-> Nobody, again |-> FALSE]
Alive(p) == p # Nobody /\ pc[p] # "off"

TypeOK ==
    /\ MigrationsTypeOK /\ RegistryTypeOK
    /\ pidFile \in Procs \cup {Nobody}
    /\ \A s \in Shells : /\ shell[s].pid \in Procs \cup {Nobody}
                         /\ shell[s].step \in {"idle", "kill", "remove", "check", "spawn", "write", "watch"}
                         /\ shell[s].again \in BOOLEAN
    /\ used \in [start: SUBSET Procs, hand: SUBSET Procs]
    /\ \A p \in Procs : pc[p] # "off" => p \in used.start \cup used.hand
    /\ Cardinality({p \in Procs : pc[p] = "serve"}) <= 1
    /\ ((\A p \in Procs : pc[p] # "serve") => cached = <<>>)
    /\ met \in BOOLEAN

Init ==
    /\ MigrationsInit /\ RegistryInit
    /\ pidFile = Nobody
    /\ shell = [s \in Shells |-> Idle]
    /\ used = [start |-> {}, hand |-> {}]
    /\ met = FALSE
    /\ budget \in Budgets
    /\ DOMAIN svc \subseteq budget.rows

Spend(what) == budget[what] > 0 /\ budget' = [budget EXCEPT ![what] = @ - 1]
Keep == UNCHANGED budget

-----------------------------------------------------------------------------
(* Processes.                                                               *)

Fresh(p) == p \notin used.start \cup used.hand

\* `serve` typed by hand or run by a service manager.
ServeByHand(p) ==
    /\ Fresh(p) /\ Spend("hands")
    /\ pc' = [pc EXCEPT ![p] = "tables"]
    /\ used' = [used EXCEPT !.hand = @ \cup {p}]
    /\ UNCHANGED <<svc, form, count, gaps, registryVars, pidFile, shell, met>>

\* NewRegistry and Listen: a port that is taken ends the process, which by then
\* has seeded a table that the one that serves may have emptied.
Bind(p) ==
    /\ pc[p] = "bind"
    /\ IF \E q \in Procs : pc[q] = "serve"
       THEN /\ pc' = [pc EXCEPT ![p] = "off"]
            /\ stored' = IF DOMAIN stored = {} THEN Seed ELSE stored
            /\ unsure' = (unsure \/ stored' # stored)
            /\ UNCHANGED <<cached, alias, editor, misses>>
       ELSE pc' = [pc EXCEPT ![p] = "serve"] /\ NewRegistry
    /\ UNCHANGED <<svc, form, count, gaps>>

\* A process ends at any point: killed, crashed, or shut down (a shutdown that
\* takes more than half a second is cut short by cmdStop).
End(p) ==
    /\ pc[p] # "off"
    /\ pc' = [pc EXCEPT ![p] = "off"]
    /\ IF pc[p] = "serve" THEN Unload ELSE UNCHANGED registryVars
    /\ UNCHANGED <<svc, form, count, gaps>>

Crash(p) == Spend("crashes") /\ End(p) /\ UNCHANGED cliVars

-----------------------------------------------------------------------------
(* Commands.                                                                *)

Run(s, step, pid) ==
    /\ shell' = [shell EXCEPT ![s] =
                    IF step = "idle" THEN Idle ELSE [@ EXCEPT !.step = step, !.pid = pid]]
    /\ met' = (met \/ (step # "idle" /\ \E t \in Shells \ {s} : shell[t].step # "idle"))

\* cmdStart: a PID of a living process ends the command, a stale file goes.
StartCommand(s) ==
    /\ shell[s].step = "idle" /\ Spend("starts")
    /\ ~Alive(pidFile)
    /\ pidFile' = Nobody
    /\ Run(s, "spawn", Nobody)
    /\ UNCHANGED <<migrationVars, registryVars, used>>

\* startDaemon: the process is started, its PID written, and after half a
\* second looked at.
Spawn(s) ==
    /\ shell[s].step = "spawn"
    /\ \E p \in Procs :
          /\ Fresh(p)
          /\ pc' = [pc EXCEPT ![p] = "tables"]
          /\ used' = [used EXCEPT !.start = @ \cup {p}]
          /\ Run(s, "write", p)
    /\ UNCHANGED <<svc, form, count, gaps, registryVars, pidFile>>

WritePID(s) ==
    /\ shell[s].step = "write"
    /\ pidFile' = shell[s].pid
    /\ Run(s, "watch", shell[s].pid)
    /\ UNCHANGED <<migrationVars, registryVars, used>>

Watch(s) ==
    /\ shell[s].step = "watch"
    /\ pidFile' = IF Alive(shell[s].pid) THEN pidFile ELSE Nobody
    /\ Run(s, "idle", Nobody)
    /\ UNCHANGED <<migrationVars, registryVars, used>>

\* Mutation: stop takes any PID file it finds for stale.
ForgetCommand(s) ==
    /\ shell[s].step = "idle" /\ Spend("stops")
    /\ pidFile # Nobody
    /\ pidFile' = Nobody
    /\ Run(s, "idle", Nobody)
    /\ UNCHANGED <<migrationVars, registryVars, used>>
\* cmdStop: a stale file goes, a living process is killed and then the file
\* removed, whatever it says by then.
StopCommand(s) ==
    /\ shell[s].step = "idle" /\ Spend("stops")
    /\ pidFile # Nobody
    /\ IF Alive(pidFile)
       THEN Run(s, "kill", pidFile) /\ UNCHANGED pidFile
       ELSE Run(s, "idle", Nobody) /\ pidFile' = Nobody
    /\ UNCHANGED <<migrationVars, registryVars, used>>

Kill(s) ==
    /\ shell[s].step = "kill"
    /\ IF Alive(shell[s].pid) THEN End(shell[s].pid) ELSE UNCHANGED <<migrationVars, registryVars>>
    /\ Run(s, "remove", Nobody)
    /\ UNCHANGED <<pidFile, used>>

RemovePID(s) ==
    /\ shell[s].step = "remove"
    /\ pidFile' = Nobody
    /\ Run(s, IF shell[s].again THEN "check" ELSE "idle", Nobody)
    /\ UNCHANGED <<migrationVars, registryVars, used>>

\* cmdRestart: stopDaemonIfAny (again marks that a start follows) ...
RestartCommand(s) ==
    /\ shell[s].step = "idle" /\ Spend("restarts")
    /\ pidFile' = IF Alive(pidFile) THEN pidFile ELSE Nobody
    /\ shell' = [shell EXCEPT ![s] = [step |-> IF Alive(pidFile) THEN "kill" ELSE "check",
                                     pid |-> pidFile', again |-> TRUE]]
    /\ met' = (met \/ \E t \in Shells \ {s} : shell[t].step # "idle")
    /\ UNCHANGED <<migrationVars, registryVars, used>>

\* ... and the start, unless the file names a living process again.
CheckStopped(s) ==
    /\ shell[s].step = "check"
    /\ IF Alive(pidFile)
       THEN Run(s, "idle", Nobody) /\ UNCHANGED pidFile
       ELSE Run(s, "spawn", Nobody) /\ pidFile' = Nobody
    /\ UNCHANGED <<migrationVars, registryVars, used>>

Command(s) ==
    \/ StartCommand(s) \/ StopCommand(s) \/ RestartCommand(s)
    \/ /\ Kill(s) \/ RemovePID(s) \/ CheckStopped(s) \/ Spawn(s) \/ WritePID(s) \/ Watch(s)
       /\ Keep

-----------------------------------------------------------------------------
Serving == \E p \in Procs : pc[p] = "serve"

Boot(p) ==
    /\ \/ Migrate(p) /\ UNCHANGED registryVars /\ Keep
       \/ CheckFails(p) /\ UNCHANGED registryVars
          /\ IF form = "current" THEN Spend("errors") ELSE Keep
       \/ Bind(p) /\ Keep
    /\ UNCHANGED cliVars

Use(p) ==
    /\ \/ \E r \in New \cap budget.rows : InsertRequest(p, r)
       \/ RecomputeRebuilds(p)
    /\ UNCHANGED <<registryVars, cliVars, budget>>

Pricing ==
    /\ Serving
    /\ \/ \E w \in Editors : Submit(w) /\ Spend("edits")
       \/ \E w \in Editors : EditStep(w) /\ Keep
       \/ \E n \in Names : RecordMiss(n) /\ Spend("lookups")
    /\ UNCHANGED <<migrationVars, cliVars>>

Next ==
    \/ \E p \in Procs : ServeByHand(p) \/ Crash(p) \/ Boot(p) \/ Use(p)
    \/ \E s \in Shells : Command(s)
    \/ Pricing

Spec == Init /\ [][Next]_vars

-----------------------------------------------------------------------------
(* A daemon that `start` or `restart` started and that serves is the one    *)
(* the PID file names, so that `stop` finds it, as long as no two commands  *)
(* ran at once: whatever was started by hand beside it, whichever process   *)
(* won the port, whatever crashes left behind (startDaemon, cmdStop).       *)
StopFindsIt ==
    \A p \in used.start :
        pc[p] = "serve" /\ ~met /\ (\A s \in Shells : shell[s].step = "idle") => pidFile = p
=============================================================================
