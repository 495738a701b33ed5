---------------------------- MODULE MCLogIngest ----------------------------
(* Small instances of LogIngest: a batch of Claude Code and one of an AI-SDK *)
(* client; a DSH session of two steps that is resumed in a new format; two   *)
(* turns of a Codex conversation; a request of it over a websocket.          *)
EXTENDS LogIngest, TLC

Symmetry == Permutations(Handlers)

Claude(kind, id) == [kind |-> kind, at |-> 0, id |-> id, conv |-> ""]
Dsh(kind, version, turn, step, seq, at) ==
    [kind |-> kind, at |-> at, id |-> "", conv |-> "", session |-> "s", version |-> version,
     turn |-> turn, step |-> step, seq |-> seq, usage |-> TRUE]
OfCodex(kind, id, span, at, error) ==
    [kind |-> kind, at |-> at, id |-> id, conv |-> "c", span |-> span, error |-> error,
     websocket |-> span # ""]

MCTrace ==
    [q1 |-> Claude("api_request", "q1"), e1 |-> Claude("event", ""),
     o1 |-> Claude("other", ""), u1 |-> Claude("usage span", "u1"),
     c1 |-> Claude("codex event", ""), c2 |-> Claude("codex raw", ""),
     d1 |-> Dsh("step/start", "v0", 1, 1, 1, 1), d2 |-> Dsh("assistant/chunk", "v0", 1, 1, 2, 2),
     d3 |-> Dsh("assistant/message", "v0", 1, 1, 3, 3), d4 |-> Dsh("step/start", "v0", 1, 2, 4, 4),
     d5 |-> Dsh("assistant/message", "v0", 1, 2, 5, 5), d6 |-> Dsh("step/end", "v0", 1, 2, 6, 6),
     d7 |-> Dsh("assistant/message", "v3", 2, 1, 3, 7),
     a0 |-> OfCodex("codex.api_request", "", "", 0, TRUE),
     a1 |-> OfCodex("codex.api_request", "ra", "", 1, FALSE),
     t1 |-> OfCodex("codex.turn_ttft", "", "", 3, FALSE),
     k1 |-> OfCodex("response.created", "", "", 2, FALSE),
     a2 |-> OfCodex("codex.api_request", "rb", "", 30, FALSE),
     t2 |-> OfCodex("codex.turn_ttft", "", "", 31, FALSE),
     w1 |-> OfCodex("codex.websocket_request", "", "w", 2, FALSE),
     w2 |-> OfCodex("response.created", "", "w", 3, FALSE),
     w3 |-> OfCodex("codex.websocket_event", "", "w", 4, FALSE)]
MCRecords == DOMAIN MCTrace

MCExports ==
    [claude |-> <<"q1", "e1">>, events |-> <<"c1", "c2">>, opencode |-> <<"o1", "u1">>,
     begun |-> <<"d1", "d2">>, first |-> <<"d3", "d4">>, second |-> <<"d5", "d6">>, resumed |-> <<"d7">>,
     failed |-> <<"a0">>, anchor1 |-> <<"a1">>, turn1 |-> <<"t1">>, created |-> <<"k1">>,
     later |-> <<"a2", "t2">>,
     socket |-> <<"w1", "w2">>, ended |-> <<"w3">>]
MCScenarios ==
    {{"claude", "opencode", "anchor1"}, {"claude", "events"}, {"begun", "first", "second"}, {"first", "resumed"},
     {"anchor1", "turn1", "later"}, {"failed", "anchor1", "turn1"},
     {"anchor1", "created", "turn1"}, {"anchor1", "socket", "ended"}}
=============================================================================
