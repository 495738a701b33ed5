---------------------------- MODULE MCCodexOnce ----------------------------
(* Clients whose conversations have one request under way at a time, answer *)
(* within the windows, and send the completion after the anchor's answer;   *)
(* duplicates, concurrent handlers and a restart anywhere.                  *)
EXTENDS CodexLedger

CONSTANTS r1, r2, c1, c2, m1, v1, v2, h1, h2

MCModelOf == [c \in {c1, c2} |-> m1]
MCDayOf(t) == IF t < 3 THEN 1 ELSE 2

\* r1 answers at the edge of the tracker's reach, across midnight; r2 at the
\* edge of the pending window, out of the tracker's reach.
MCTrace ==
    [r \in {r1, r2} |->
        IF r = r1
        THEN [conv |-> c1, at |-> 2, done |-> 3, vec |-> v1,
              span |-> TRUE, rid |-> TRUE, ok |-> TRUE]
        ELSE [conv |-> c2, at |-> 2, done |-> 5, vec |-> v2,
              span |-> FALSE, rid |-> TRUE, ok |-> TRUE]]
=============================================================================
