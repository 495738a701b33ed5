---------------------------- MODULE MCAutoImport ----------------------------
(* Two of the five tables, one archive row in each, and room for two rows   *)
(* of other origin; the purge is due after one day.                         *)
EXTENDS AutoImport, TLC

CONSTANTS api, events, a1, e1, live

MCBefore(t, u) == t = api /\ u = events
MCArchive == [t \in {api, events} |-> IF t = api THEN {a1} ELSE {e1}]
=============================================================================
