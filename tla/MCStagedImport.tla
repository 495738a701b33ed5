--------------------------- MODULE MCStagedImport ---------------------------
(* A source of seven rows: a request_id that comes twice, an identity with  *)
(* three copies, one of them beyond a cut, and an old row of a pruned       *)
(* table.  The batches are k x x (three rows), x (the next row is too       *)
(* large), k and y r.                                                       *)
EXTENDS StagedImport

CONSTANTS k, x, y, r

MCSource == <<k, x, x, x, k, y, r>>
MCBytes == [n \in 0 .. 7 |-> IF n < 5 THEN n ELSE n + 3]
=============================================================================
