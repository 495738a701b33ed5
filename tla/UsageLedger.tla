----------------------------- MODULE UsageLedger -----------------------------
(***************************************************************************)
(* What the usage ledger promises its readers: daily totals move only when  *)
(* a logical request is counted for the first time, or charged with its     *)
(* tokens for the first time.  How often its records are delivered, in      *)
(* which handler, and around which restart, is invisible.                   *)
(***************************************************************************)
EXTENDS Naturals

CONSTANTS Requests, Keys, Vectors, VecOf

VARIABLES
    counted, \* requests that are in the request totals
    charged, \* requests that are in the token totals
    totals   \* per day and model: number of requests, and token vectors

vars == <<counted, charged, totals>>

Init ==
    /\ counted = {} /\ charged = {}
    /\ totals = [k \in Keys |-> [requests |-> 0, tokens |-> [v \in Vectors |-> 0]]]

Count(r, k) ==
    /\ r \notin counted
    /\ counted' = counted \cup {r}
    /\ totals' = [totals EXCEPT ![k].requests = @ + 1]
    /\ UNCHANGED charged

Charge(r, k) ==
    /\ r \in counted \ charged
    /\ charged' = charged \cup {r}
    /\ totals' = [totals EXCEPT ![k].tokens[VecOf[r]] = @ + 1]
    /\ UNCHANGED counted

Next == \E r \in Requests, k \in Keys : Count(r, k) \/ Charge(r, k)

Spec == Init /\ [][Next]_vars
=============================================================================
