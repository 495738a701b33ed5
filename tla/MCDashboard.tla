----------------------------- MODULE MCDashboard -----------------------------
(* Two days, the first of 25 hours; a request in the last hour of each and  *)
(* one in the first hour of the second, hours being the unit of time.       *)
(* claude on a model of its own, a proxied model, codex.                    *)
EXTENDS Dashboard, TLC

CONSTANTS claude, codex, opus, glm, r1, r2, r3

MCMidnight == <<0, 25, 49>>
MCTrace ==
    r1 :> [at |-> 24, client |-> claude, model |-> glm, tokens |-> 1, reported |-> 4,
           timed |-> TRUE, session |-> TRUE]
    @@ r2 :> [at |-> 48, client |-> claude, model |-> opus, tokens |-> 2, reported |-> 5,
           timed |-> TRUE, session |-> TRUE]
    @@ r3 :> [at |-> 25, client |-> codex, model |-> glm, tokens |-> 3, reported |-> 0,
           timed |-> FALSE, session |-> TRUE]
MCRate0 == opus :> 1 @@ glm :> 1
\* The hour from one to two comes twice on the first day.
MCHourOf == [t \in 0 .. 49 |-> IF t < 2 THEN t ELSE IF t < 25 THEN t - 1 ELSE (t - 25) % 24]
MCMonthOf == <<1, 2>>
=============================================================================
