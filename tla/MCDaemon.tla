------------------------------ MODULE MCDaemon ------------------------------
(* Three kinds of behaviour, each with a budget of its own: three processes *)
(* starting on an old database; commands and a start by hand; price edits.  *)
EXTENDS Daemon, TLC

CONSTANTS claude, codex, o1, o2, a1, n1, n2, p1, p2, p3, w1, w2, s1, s2

MCDayOf == o1 :> 1 @@ o2 :> 2 @@ a1 :> 1 @@ n1 :> 2 @@ n2 :> 2
MCClientOf == o1 :> claude @@ o2 :> "" @@ a1 :> codex @@ n1 :> "" @@ n2 :> codex

glm == [path |-> <<>>, words |-> <<"glm", "5">>]
glmDated == [path |-> <<>>, words |-> <<"glm", "5", "20250805">>]
zaiGlm == [path |-> <<"zai">>, words |-> <<"glm", "5">>]
hubGlm == [path |-> <<"hub">>, words |-> <<"glm", "5">>]
hubZaiGlm == [path |-> <<"hub", "zai">>, words |-> <<"glm", "5">>]
kimi == [path |-> <<>>, words |-> <<"kimi">>]
kimiMini == [path |-> <<>>, words |-> <<"kimi", "mini", "beta">>]
moon == [path |-> <<>>, words |-> <<"moon">>]
opus == [path |-> <<>>, words |-> <<"claude", "opus">>]

MCAlphabet == <<opus, glm, glmDated, hubGlm, hubZaiGlm, kimi, kimiMini, moon, zaiGlm>>
MCNames == ToSet(MCAlphabet)
MCOverrides == kimi :> [price |-> 7, aliases |-> {moon}, source |-> "user"]
MCSeed == zaiGlm :> [price |-> 1, aliases |-> {moon}, source |-> "seed"]
Edit(key, price, source) == [key |-> key, price |-> price, aliases |-> {}, source |-> source]
MCEdits == {Edit(glm, 2, "manual"), Edit(hubGlm, 3, "manual"), Edit(hubZaiGlm, 4, "openrouter"),
            [Edit(glmDated, 5, "manual") EXCEPT !.aliases = {opus}],
            Edit(glm, 0, "delete"), Edit(zaiGlm, 0, "delete"), Edit(hubGlm, 0, "manual")}

NoBudget == [starts |-> 0, restarts |-> 0, hands |-> 0, stops |-> 0, crashes |-> 0, errors |-> 0,
             edits |-> 0, lookups |-> 0, rows |-> {}]
MCBudgets ==
    {[NoBudget EXCEPT !.hands = 3, !.crashes = 2, !.errors = 1, !.rows = Stored],
     [NoBudget EXCEPT !.starts = 1, !.restarts = 1, !.hands = 1, !.stops = 1, !.crashes = 1],
     [NoBudget EXCEPT !.hands = 2, !.crashes = 1, !.edits = 2, !.lookups = 2]}

Symmetry == Permutations(Procs) \cup Permutations(Editors) \cup Permutations(Shells)
=============================================================================
