--------------------------- MODULE MCCodexLedger ---------------------------
(* Two requests of one conversation, around midnight, in ticks of ten       *)
(* minutes: any delivery order, one duplicate of each record, one fault.    *)
EXTENDS CodexLedger, TLC

CONSTANTS r1, r2, r3, c1, m1, v1, v2, v3, h1, h2

MCModelOf == [c \in {c1} |-> m1]
MCDayOf(t) == IF t < 3 THEN 1 ELSE 2

\* r1 is sent before midnight and completes after it; r2 follows within reach.
MCTrace ==
    [r \in {r1, r2} |->
        IF r = r1
        THEN [conv |-> c1, at |-> 2, done |-> 3, vec |-> v1,
              span |-> TRUE, rid |-> TRUE, ok |-> TRUE]
        ELSE [conv |-> c1, at |-> 3, done |-> 4, vec |-> v2,
              span |-> FALSE, rid |-> FALSE, ok |-> TRUE]]

MCSymmetry == Permutations({h1, h2})
=============================================================================
