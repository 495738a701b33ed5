--------------------------- MODULE MCCodexReplay ---------------------------
(* One conversation, two requests one after the other, one handler, no      *)
(* fault: only the delivery of one record is repeated.                      *)
EXTENDS CodexLedger

CONSTANTS r1, r2, c1, m1, v1, v2, h1

MCModelOf == [c \in {c1} |-> m1]
MCDayOf(t) == 1

MCTrace ==
    [r \in {r1, r2} |->
        IF r = r1
        THEN [conv |-> c1, at |-> 1, done |-> 2, vec |-> v1,
              span |-> TRUE, rid |-> TRUE, ok |-> TRUE]
        ELSE [conv |-> c1, at |-> 3, done |-> 4, vec |-> v2,
              span |-> TRUE, rid |-> TRUE, ok |-> TRUE]]
=============================================================================
