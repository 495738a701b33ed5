---------------------------- MODULE PriceRegistry ----------------------------
(***************************************************************************)
(* The price registry of the daemon: the model_pricing table, the copy of   *)
(* it in memory with its index of aliases, the user's overrides from the    *)
(* configuration, how a reported name finds its price, the list the pricing *)
(* dialog shows, and the edits, each a write followed by a reload.          *)
(*                                                                          *)
(* A model name is its provider path and its words: z-ai/glm-4.6 has the    *)
(* path <<"z-ai">> and the words <<"glm", "4", "6">>.  A price is one       *)
(* number.                                                                  *)
(***************************************************************************)
EXTENDS Integers, Sequences, FiniteSets, SequencesExt

CONSTANTS
    Dates, Tags,   \* words that are a date stamp, a version tag
    ClaudeWord,    \* the first word of Anthropic's models
    Names,         \* the model names that occur
    Alphabet,      \* names in lexicographic order (a sequence)
    Overrides,     \* the configuration's pricing block
    Seed,          \* the embedded price table
    Edits,         \* entries a user may save
    Editors,       \* concurrent requests that edit
    MissLimit      \* missLimit

Name == [path: Seq(STRING), words: Seq(STRING)]
NoEntry == [price |-> 0, aliases |-> {}, source |-> ""]
IsEntry(e) == e.price \in Nat \ {0} /\ e.aliases \subseteq Names

ASSUME NameAssumption ==
    /\ \A n \in Names : n \in Name /\ n.words # <<>>
    /\ Alphabet \in Seq(Names) /\ ToSet(Alphabet) = Names /\ Len(Alphabet) = Cardinality(Names)
    /\ \A t \in {Overrides, Seed} : DOMAIN t \subseteq Names /\ \A k \in DOMAIN t : IsEntry(t[k])
    /\ \A e \in Edits : e.key \in Names /\ e.aliases \subseteq Names /\ e.price \in Nat
    /\ MissLimit \in Nat \ {0}

VARIABLES
    stored,    \* model_pricing
    cached,    \* tableByKey
    alias,     \* aliasIndex
    editor,    \* each edit in flight
    misses,    \* missOrder
    unsure     \* history: memory may differ: nothing loaded, a reload failed or met
               \* another edit, another process seeded the table

registryVars == <<stored, cached, alias, editor, misses, unsure>>

-----------------------------------------------------------------------------
(* Matching a name.                                                         *)

Order(n) == CHOOSE i \in DOMAIN Alphabet : Alphabet[i] = n
Shorter(n) == [n EXCEPT !.words = Front(@)]
Ends(n, words) == Len(n.words) > 1 /\ Last(n.words) \in words

\* The name, without its date, without its tag, without both.
stripVariants(n) ==
    <<n>> \o (IF Ends(n, Dates) THEN <<Shorter(n)>> ELSE <<>>)
          \o (IF Ends(n, Tags)
              THEN <<Shorter(n)>>
                   \o (IF Ends(Shorter(n), Dates) THEN <<Shorter(Shorter(n))>> ELSE <<>>)
              ELSE <<>>)

keys == DOMAIN cached \cup DOMAIN Overrides
resolveLocked(k) == IF k \in DOMAIN Overrides THEN Overrides[k] ELSE cached[k]

SourceRank(s) == CASE s = "user" -> 40 [] s = "litellm" -> 30 [] s = "openrouter" -> 20
                   [] s = "seed" -> 10 [] OTHER -> 0
DisplayRank(s) == CASE s \in {"manual", "user"} -> 100 [] s = "openrouter" -> 80
                    [] s = "litellm" -> 60 [] s = "seed" -> 40 [] OTHER -> 0

\* A key of the same provider that the name continues at a word boundary.
Continued(n) == {k \in keys : k.path = n.path /\ IsStrictPrefix(k.words, n.words)}

\* For a bare name, the keys of any provider with its words.
basenameCandidates(n) ==
    IF n.path = <<>> THEN {k \in keys : k.path # <<>> /\ k.words = n.words} ELSE {}

\* Mutation: the rank counts before the length of the path.
RankFirst(a, b) ==
    LET ra == SourceRank(resolveLocked(a).source)
        rb == SourceRank(resolveLocked(b).source)
    IN ra > rb \/ (ra = rb /\ (Len(a.path) < Len(b.path)
                               \/ (Len(a.path) = Len(b.path) /\ Order(a) < Order(b))))
basenameCandidateLess(a, b) ==
    LET ra == SourceRank(resolveLocked(a).source)
        rb == SourceRank(resolveLocked(b).source)
    IN \/ Len(a.path) < Len(b.path)
       \/ Len(a.path) = Len(b.path) /\ (ra > rb \/ (ra = rb /\ Order(a) < Order(b)))

Miss == [kind |-> "miss", key |-> [path |-> <<>>, words |-> <<>>]]

\* Lookup: exact, alias, longest prefix, basename.
Lookup(n) ==
    LET forms == stripVariants(n)
        exact == SelectInSeq(forms, LAMBDA v : v \in keys)
        known == SelectInSeq(forms, LAMBDA v : v \in DOMAIN alias)
    IN IF exact # 0 THEN [kind |-> "exact", key |-> forms[exact]]
       ELSE IF known # 0 THEN [kind |-> "alias", key |-> alias[forms[known]]]
       ELSE IF Continued(n) # {}
            THEN [kind |-> "prefix",
                  key |-> CHOOSE k \in Continued(n) :
                            \A j \in Continued(n) : Len(j.words) <= Len(k.words)]
       ELSE IF basenameCandidates(n) # {}
            THEN [kind |-> "basename",
                  key |-> CHOOSE k \in basenameCandidates(n) :
                            \A j \in basenameCandidates(n) \ {k} : basenameCandidateLess(k, j)]
       ELSE Miss

-----------------------------------------------------------------------------
(* The list of the pricing dialog: one line for each model, standing for    *)
(* the entries of all its providers.                                        *)

Family(n) == {k \in keys : k.words = n.words}

repBetter(a, b) ==
    \/ Len(a.path) < Len(b.path)
    \/ /\ Len(a.path) = Len(b.path)
       /\ DisplayRank(resolveLocked(a).source) > DisplayRank(resolveLocked(b).source)

\* The entries that may head the line (sort.Slice leaves equals in any order).
Heads(n) == {k \in Family(n) : \A j \in Family(n) : ~repBetter(j, k)}

\* A Claude model the user has run, without an entry, gets a line of its own.
Injected(n) == n.path = <<>> /\ Head(n.words) = ClaudeWord /\ n \notin keys

-----------------------------------------------------------------------------
(* Loading and editing.                                                     *)

Owners(table, a) ==
    {k \in DOMAIN table : k # a /\ a \in table[k].aliases}

\* Mutation: the overrides are indexed before the table.
TableShadowsUser(table, index) ==
    \A a \in DOMAIN index :
        index[a] \in IF Owners(table, a) # {} THEN Owners(table, a) ELSE Owners(Overrides, a)

\* rebuildIndexLocked: of several keys with one alias any may get it (a Go map
\* is read in any order), but a user's entry comes last.
rebuildIndexLocked(table, index) ==
    \A a \in DOMAIN index :
        index[a] \in IF Owners(Overrides, a) # {} THEN Owners(Overrides, a) ELSE Owners(table, a)

Aliases(table) == {a \in Names : Owners(table, a) \cup Owners(Overrides, a) # {}}
\* Mutation: the table is read into the map that is there.
InstallOver(table) ==
    /\ cached' = [k \in DOMAIN table \cup DOMAIN cached |->
                    IF k \in DOMAIN table THEN table[k] ELSE cached[k]]
    /\ alias' \in [Aliases(table) -> DOMAIN cached' \cup DOMAIN Overrides]
    /\ rebuildIndexLocked(table, alias')
Install(table) ==
    /\ cached' = table
    /\ alias' \in [Aliases(table) -> DOMAIN table \cup DOMAIN Overrides]
    /\ rebuildIndexLocked(table, alias')

NoEdit == [step |-> "idle", key |-> Miss.key, entry |-> NoEntry, snap |-> <<>>]

RegistryTypeOK ==
    /\ \A t \in {stored, cached} : DOMAIN t \subseteq Names /\ \A k \in DOMAIN t : IsEntry(t[k])
    /\ DOMAIN alias \subseteq Names /\ \A a \in DOMAIN alias : alias[a] \in keys
    /\ \A w \in Editors : editor[w].step \in {"idle", "write", "query", "install"}
    /\ Len(misses) <= MissLimit /\ Cardinality(ToSet(misses)) = Len(misses)
    /\ ToSet(misses) \subseteq Names
    /\ unsure \in BOOLEAN

\* Before a daemon serves: memory holds nothing.
Unloaded ==
    /\ cached = <<>> /\ alias = <<>> /\ misses = <<>> /\ unsure = TRUE
    /\ editor = [w \in Editors |-> NoEdit]
RegistryInit == stored \in {<<>>, Seed} /\ Unloaded

\* The daemon's end.
Unload ==
    /\ cached' = <<>> /\ alias' = <<>> /\ misses' = <<>> /\ unsure' = TRUE
    /\ editor' = [w \in Editors |-> NoEdit]
    /\ UNCHANGED stored

\* NewRegistry: an empty table gets the seed again.
NewRegistry ==
    LET table == IF DOMAIN stored = {} THEN Seed ELSE stored IN
    /\ stored' = table
    /\ Install(table)
    /\ misses' = <<>> /\ unsure' = FALSE
    /\ UNCHANGED editor

\* Mutation: the oldest name stays.
RecordMissForever(n) ==
    /\ Lookup(n) = Miss
    /\ misses' = IF n \in ToSet(misses) THEN misses ELSE Append(misses, n)
    /\ UNCHANGED <<stored, cached, alias, editor, unsure>>
\* recordMiss: a name not missed before displaces the oldest.
RecordMiss(n) ==
    /\ Lookup(n) = Miss
    /\ misses' = IF n \in ToSet(misses) THEN misses
                 ELSE Append(IF Len(misses) >= MissLimit THEN Tail(misses) ELSE misses, n)
    /\ UNCHANGED <<stored, cached, alias, editor, unsure>>

\* POST and DELETE of PricingCollection; a price that is not positive is refused.
Submit(w) ==
    /\ editor[w].step = "idle"
    /\ \E e \in Edits :
          /\ e.price > 0 \/ e.source = "delete"
          /\ editor' = [editor EXCEPT ![w] =
                [NoEdit EXCEPT !.step = "write", !.key = e.key,
                   !.entry = IF e.source = "delete" THEN NoEntry
                             ELSE [price |-> e.price, aliases |-> e.aliases \ {e.key},
                                   source |-> IF e.source = "openrouter" THEN e.source
                                              ELSE "manual"]]]
    /\ UNCHANGED <<stored, cached, alias, misses, unsure>>

WriteEntry(w) ==
    /\ editor[w].step = "write"
    /\ stored' = IF editor[w].entry = NoEntry
                 THEN [k \in DOMAIN stored \ {editor[w].key} |-> stored[k]]
                 ELSE [k \in DOMAIN stored \cup {editor[w].key} |->
                         IF k = editor[w].key THEN editor[w].entry ELSE stored[k]]
    /\ editor' = [editor EXCEPT ![w].step = "query"]
    /\ UNCHANGED <<cached, alias, misses, unsure>>

\* Reload reads the table without the lock ...
ReadTable(w) ==
    /\ editor[w].step = "query"
    /\ editor' = [editor EXCEPT ![w].step = "install", ![w].snap = stored]
    /\ UNCHANGED <<stored, cached, alias, misses, unsure>>

\* ... and then installs what it read.
InstallTable(w) ==
    /\ editor[w].step = "install"
    /\ Install(editor[w].snap)
    /\ editor' = [editor EXCEPT ![w] = NoEdit]
    /\ unsure' = (unsure \/ \E v \in Editors \ {w} : editor[v].step # "idle")
    /\ UNCHANGED <<stored, misses>>

\* An error of the write leaves nothing, one of the reload the old copy.
EditFails(w) ==
    /\ editor[w].step \in {"write", "query"}
    /\ editor' = [editor EXCEPT ![w] = NoEdit]
    /\ unsure' = (unsure \/ editor[w].step = "query")
    /\ UNCHANGED <<stored, cached, alias, misses>>

EditStep(w) == WriteEntry(w) \/ ReadTable(w) \/ InstallTable(w) \/ EditFails(w)

-----------------------------------------------------------------------------
(* With no edit under way the prices in memory, with which costs are        *)
(* computed, are those of the table, unless two edits overlapped (the       *)
(* later reload may install the older table), a reload failed, or another   *)
(* process wrote the table (Upsert, Delete, Reload, seedIfEmpty).           *)
PricesAreCurrent ==
    (\A w \in Editors : editor[w].step = "idle") /\ ~unsure => cached = stored

(* "The price shown is the price actually applied" (registry.go List), as   *)
(* far as that holds: for a bare name that no alias, shortened form or      *)
(* prefix of a name answers first, if the nearest of its providers is one.  *)
ShownIsApplied ==
    \A n \in Names :
        LET nearest == {k \in Family(n) : \A j \in Family(n) : Len(k.path) <= Len(j.path)} IN
        /\ n.path = <<>> /\ ~Injected(n) /\ Cardinality(nearest) = 1
        /\ Lookup(n).kind = "basename" \/ n \in keys
        => Heads(n) = {Lookup(n).key}

(* A price of the configuration outranks the table: its key and, unless a   *)
(* key is spelled like it, its aliases find it, whatever the user edits and *)
(* in whatever order the index is built (rebuildIndexLocked, resolveLocked). *)
OverridesWin ==
    \A k \in DOMAIN Overrides :
        /\ resolveLocked(Lookup(k).key) = Overrides[k]
        /\ \A a \in Overrides[k].aliases :
              Lookup(a).kind = "alias" => Lookup(a).key \in Owners(Overrides, a)
=============================================================================
