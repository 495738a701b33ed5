--------------------------- MODULE MCPendingTTFT ---------------------------
(* Four requests of one conversation, three of them with a span each, close  *)
(* enough to be taken for one another; r4 brings its own ttft_ms.            *)
EXTENDS PendingTTFT, TLC

CONSTANTS r1, r2, r3, r4, s1, s2, s3, h1, h2

MCLog == [r \in Requests |->
    CASE r = r1 -> [conv |-> "c", prompt |-> 1, at |-> 1, rid |-> TRUE, own |-> FALSE]
      [] r = r2 -> [conv |-> "c", prompt |-> 1, at |-> 2, rid |-> FALSE, own |-> FALSE]
      [] r = r3 -> [conv |-> "c", prompt |-> 2, at |-> 3, rid |-> TRUE, own |-> FALSE]
      [] r = r4 -> [conv |-> "c", prompt |-> 2, at |-> 3, rid |-> TRUE, own |-> TRUE]]
MCTrace == [s \in Spans |->
    CASE s = s1 -> [of |-> r1, end |-> 1, rid |-> TRUE, prompt |-> TRUE]
      [] s = s2 -> [of |-> r2, end |-> 3, rid |-> FALSE, prompt |-> TRUE]
      [] s = s3 -> [of |-> r3, end |-> 4, rid |-> TRUE, prompt |-> FALSE]]
MCSymmetry == Permutations({h1, h2})
=============================================================================
