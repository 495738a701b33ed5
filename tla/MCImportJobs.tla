---------------------------- MODULE MCImportJobs ----------------------------
(* Two uploads: one to hold the slot, one to come before or after it.        *)
EXTENDS ImportJobs
=============================================================================
