--------------------------- MODULE DashboardProofs ---------------------------
(***************************************************************************)
(* Proofs about CostLedger and Dashboard, for any requests, calendar,       *)
(* prices and chunks: what SUM and GROUP BY make of rows and of totals, the  *)
(* recompute beside live traffic, the paged list, and the types.            *)
(***************************************************************************)
EXTENDS Dashboard, FiniteSetTheorems, WellFoundedInduction, TLAPS

-----------------------------------------------------------------------------
(* Sums over finite sets.                                                   *)

LEMMA CountingUp ==
    ASSUME NEW N, 0 \in N, \A n \in Nat : n \in N => n + 1 \in N
    PROVE  Nat \subseteq N
<1> SUFFICES ASSUME Nat \ N # {}
             PROVE  FALSE
  OBVIOUS
<1>1. PICK R, T : /\ R = {ss \in Nat \X Nat : ss[1] < ss[2]}
                  /\ T = Nat \ N
  OBVIOUS
<1>2. IsWellFoundedOn(R, Nat)
  <2>1. R = OpToRel(<, Nat)
    BY <1>1 DEF OpToRel
  <2>2. QED
    BY <2>1, NatLessThanWellFounded, Zenon
<1>3. PICK m \in T : \A y \in T : ~ (<<y, m>> \in R)
  BY <1>1, <1>2, WFMin, Zenon
<1>4. m \in Nat /\ m \notin N /\ \A y \in T : ~(y < m)
  BY <1>1, <1>3
<1>5. m # 0 /\ m - 1 \in Nat
  BY <1>4
<1>6. m - 1 \in N
  BY <1>1, <1>4, <1>5
<1>7. m - 1 + 1 \in N
  BY <1>5, <1>6
<1>8. QED
  BY <1>4, <1>7

\* Every set of subsets of a finite set that has the empty one and gains an
\* element at a time has them all.
LEMMA SetsGrow ==
    ASSUME NEW S, IsFiniteSet(S), NEW C, {} \in C,
           \A s \in SUBSET S, x \in S : s \in C /\ x \notin s => s \cup {x} \in C
    PROVE  S \in C
<1>1. PICK N : N = {n \in Nat : \A s \in SUBSET S : Cardinality(s) = n => s \in C}
  OBVIOUS
<1>2. \A s \in SUBSET S : IsFiniteSet(s) /\ Cardinality(s) \in Nat
  BY FS_Subset, FS_CardinalityType
<1>3. 0 \in N
  BY <1>1, <1>2, FS_EmptySet
<1>4. ASSUME NEW n \in Nat, n \in N
      PROVE  n + 1 \in N
  <2> SUFFICES ASSUME NEW s \in SUBSET S, Cardinality(s) = n + 1
               PROVE  s \in C
    BY <1>1
  <2>1. s # {}
    <3>1. SUFFICES ASSUME s = {}
                   PROVE  FALSE
      OBVIOUS
    <3>2. Cardinality(s) = 0
      BY <3>1, FS_EmptySet
    <3>3. QED
      BY <3>2
  <2>2. PICK x \in s : TRUE
    BY <2>1
  <2>3. Cardinality(s \ {x}) = n
    <3>1. x \in s /\ IsFiniteSet(s)
      BY <1>2, <2>2
    <3>2. Cardinality(s \ {x}) = Cardinality(s) - 1
      BY <3>1, FS_RemoveElement
    <3>3. QED
      BY <3>2
  <2>4. s \ {x} \in C
    BY <1>1, <1>4, <2>3
  <2>5. (s \ {x}) \cup {x} \in C
    BY <2>4
  <2>6. QED
    BY <2>5
<1>5. Nat \subseteq N
  BY <1>3, <1>4, CountingUp
<1>6. QED
  BY <1>1, <1>2, <1>5

Chosen(s) == CHOOSE x \in s : TRUE
Adds(f, D, g) == g = [s \in D |-> IF s = {} THEN 0 ELSE f[Chosen(s)] + g[s \ {Chosen(s)}]]

LEMMA OneLess ==
    ASSUME NEW S, IsFiniteSet(S), NEW n \in Nat, Cardinality(S) = n + 1
    PROVE  S # {} /\ Chosen(S) \in S /\ \A y \in S : Cardinality(S \ {y}) = n
<1>1. S # {}
  <2>1. SUFFICES ASSUME S = {}
                 PROVE  FALSE
    OBVIOUS
  <2>2. Cardinality(S) = 0
    BY <2>1, FS_EmptySet
  <2>3. QED
    BY <2>2
<1>2. ASSUME NEW y \in S
      PROVE  Cardinality(S \ {y}) = n
  <2>1. Cardinality(S \ {y}) = Cardinality(S) - 1
    BY FS_RemoveElement
  <2>2. QED
    BY <2>1
<1>3. QED
  BY <1>1, <1>2 DEF Chosen

LEMMA SumExists ==
    ASSUME NEW f, NEW S, IsFiniteSet(S)
    PROVE  \E g : Adds(f, SUBSET S, g)
<1> DEFINE Small(n) == {s \in SUBSET S : Cardinality(s) <= n}
<1>1. PICK N : N = {n \in Nat : \E g : Adds(f, Small(n), g)}
  OBVIOUS
<1>2. \A s \in SUBSET S : IsFiniteSet(s) /\ Cardinality(s) \in Nat
  BY FS_Subset, FS_CardinalityType
<1>3. \A s \in SUBSET S : s # {} => /\ Chosen(s) \in s
                                    /\ Cardinality(s \ {Chosen(s)}) = Cardinality(s) - 1
  BY <1>2, FS_RemoveElement DEF Chosen
<1>4. 0 \in N
  <2>1. Small(0) = {{}}
    BY <1>2, FS_EmptySet
  <2>2. PICK g : g = [s \in Small(0) |-> 0]
    OBVIOUS
  <2>3. Adds(f, Small(0), g)
    BY <2>1, <2>2 DEF Adds
  <2>4. QED
    BY <1>1, <2>3
<1>5. ASSUME NEW n \in Nat, n \in N
      PROVE  n + 1 \in N
  <2>1. PICK D, E : D = Small(n) /\ E = Small(n + 1)
    OBVIOUS
  <2>2. PICK g : Adds(f, D, g)
    BY <1>1, <1>5, <2>1
  <2>3. PICK h : h = [s \in E |-> IF s = {} THEN 0 ELSE f[Chosen(s)] + g[s \ {Chosen(s)}]]
    OBVIOUS
  <2>4. D \subseteq E /\ \A s \in E : s # {} => s \ {Chosen(s)} \in D
    BY <1>2, <1>3, <2>1
  <2>5. \A s \in D : h[s] = g[s]
    BY <2>2, <2>3, <2>4 DEF Adds
  <2>6. Adds(f, E, h)
    <3> HIDE DEF Small
    <3>1. \A s \in E : s # {} => f[Chosen(s)] + h[s \ {Chosen(s)}] = f[Chosen(s)] + g[s \ {Chosen(s)}]
      BY <2>4, <2>5
    <3>2. QED
      BY <2>3, <3>1, Zenon DEF Adds
  <2>7. \E k : Adds(f, Small(n + 1), k)
    BY <2>1, <2>6, Zenon
  <2>8. QED
    <3> HIDE DEF Small
    <3>1. QED
      BY <1>1, <2>7
<1>6. Cardinality(S) \in N
  BY <1>2, <1>4, <1>5, CountingUp
<1>7. Small(Cardinality(S)) = SUBSET S
  BY <1>2, FS_Subset
<1>8. QED
  BY <1>1, <1>6, <1>7

LEMMA SumIs ==
    ASSUME NEW f, NEW S, IsFiniteSet(S)
    PROVE  \E g : Adds(f, SUBSET S, g) /\ SumFunctionOnSet(f, S) = g[S]
<1>1. PICK it : /\ it = CHOOSE g : Adds(f, SUBSET S, g)
                /\ SumFunctionOnSet(f, S) = it[S]
  BY Zenon DEF SumFunctionOnSet, FoldFunctionOnSet, MapThenFoldSet, Chosen, Adds
<1>2. Adds(f, SUBSET S, it)
  BY <1>1, SumExists, Zenon
<1>3. QED
  BY <1>1, <1>2

\* The sums over a set and over a larger one agree on what both add.
LEMMA SumsAgree ==
    ASSUME NEW f, NEW S, IsFiniteSet(S), NEW T \in SUBSET S, NEW g, NEW h,
           Adds(f, SUBSET S, g), Adds(f, SUBSET T, h)
    PROVE  g[T] = h[T]
<1>1. PICK N : N = {n \in Nat : \A s \in SUBSET T : Cardinality(s) = n => g[s] = h[s]}
  OBVIOUS
<1>2. \A s \in SUBSET S : IsFiniteSet(s) /\ Cardinality(s) \in Nat
  BY FS_Subset, FS_CardinalityType
<1>3. g[{}] = 0 /\ h[{}] = 0
  BY DEF Adds
<1>4. \A s \in SUBSET T : s # {} => /\ g[s] = f[Chosen(s)] + g[s \ {Chosen(s)}]
                                    /\ h[s] = f[Chosen(s)] + h[s \ {Chosen(s)}]
  BY DEF Adds
<1>5. 0 \in N
  BY <1>1, <1>2, <1>3, FS_EmptySet
<1>6. ASSUME NEW n \in Nat, n \in N
      PROVE  n + 1 \in N
  <2> SUFFICES ASSUME NEW s \in SUBSET T, Cardinality(s) = n + 1
               PROVE  g[s] = h[s]
    BY <1>1
  <2>1. s # {} /\ Chosen(s) \in s
    BY <1>2, OneLess
  <2>2. Cardinality(s \ {Chosen(s)}) = n
    BY <1>2, <2>1, OneLess
  <2>3. g[s \ {Chosen(s)}] = h[s \ {Chosen(s)}]
    BY <1>1, <1>6, <2>2
  <2>4. QED
    BY <1>4, <2>1, <2>3
<1>7. Nat \subseteq N
  BY <1>5, <1>6, CountingUp
<1>8. QED
  BY <1>1, <1>2, <1>7

LEMMA SumsCount ==
    ASSUME NEW f, NEW S, IsFiniteSet(S), NEW W, W = Int \/ W = Nat, \A y \in S : f[y] \in W,
           NEW g, Adds(f, SUBSET S, g)
    PROVE  \A s \in SUBSET S : g[s] \in W
<1>1. PICK N : N = {n \in Nat : \A s \in SUBSET S : Cardinality(s) = n => g[s] \in W}
  OBVIOUS
<1>2. \A s \in SUBSET S : IsFiniteSet(s) /\ Cardinality(s) \in Nat
  BY FS_Subset, FS_CardinalityType
<1>3. g[{}] = 0 /\ \A s \in SUBSET S : s # {} => g[s] = f[Chosen(s)] + g[s \ {Chosen(s)}]
  BY DEF Adds
<1>4. 0 \in N
  <2>1. \A s \in SUBSET S : Cardinality(s) = 0 => s = {}
    BY <1>2, FS_EmptySet
  <2>2. QED
    <3>1. 0 \in W
      OBVIOUS
    <3>2. \A s \in SUBSET S : Cardinality(s) = 0 => g[s] \in W
      BY <1>3, <2>1, <3>1, Zenon
    <3>3. QED
      BY <1>1, <3>2
<1>5. ASSUME NEW n \in Nat, n \in N
      PROVE  n + 1 \in N
  <2> SUFFICES ASSUME NEW s \in SUBSET S, Cardinality(s) = n + 1
               PROVE  g[s] \in W
    BY <1>1
  <2>1. PICK c : c = Chosen(s) /\ c \in s /\ s # {} /\ Cardinality(s \ {c}) = n
    BY <1>2, OneLess
  <2>2. g[s] = f[c] + g[s \ {c}]
    BY <1>3, <2>1
  <2>3. f[c] \in W /\ g[s \ {c}] \in W
    BY <1>1, <1>5, <2>1
  <2>4. QED
    BY <2>2, <2>3
<1>6. \A n \in Nat : n \in N
  BY <1>4, <1>5, CountingUp
<1>7. QED
  BY <1>1, <1>2, <1>6

\* A sum is one summand and the sum of the others, whichever that one is.
LEMMA SumTakes ==
    ASSUME NEW f, NEW S, IsFiniteSet(S), NEW x \in S, \A y \in S : f[y] \in Int
    PROVE  /\ SumFunctionOnSet(f, S) \in Int
           /\ SumFunctionOnSet(f, S \ {x}) \in Int
           /\ SumFunctionOnSet(f, S) = f[x] + SumFunctionOnSet(f, S \ {x})
<1>1. PICK g : Adds(f, SUBSET S, g)
  BY SumExists
<1>2. \A s \in SUBSET S : IsFiniteSet(s) /\ Cardinality(s) \in Nat
  BY FS_Subset, FS_CardinalityType
<1>3. ASSUME NEW s \in SUBSET S
      PROVE  SumFunctionOnSet(f, s) = g[s]
  <2>1. PICK h : Adds(f, SUBSET s, h) /\ SumFunctionOnSet(f, s) = h[s]
    BY <1>2, SumIs
  <2>2. g[s] = h[s]
    BY <1>1, <2>1, SumsAgree
  <2>3. QED
    BY <2>1, <2>2
<1>4. g[{}] = 0 /\ \A s \in SUBSET S : s # {} => g[s] = f[Chosen(s)] + g[s \ {Chosen(s)}]
  BY <1>1 DEF Adds
<1>11. \A s \in SUBSET S : g[s] \in Int
  BY <1>1, SumsCount
<1>5. PICK N : N = {n \in Nat : \A s \in SUBSET S : Cardinality(s) = n =>
                        g[s] \in Int /\ \A y \in s : g[s] = f[y] + g[s \ {y}]}
  OBVIOUS
<1>6. 0 \in N
  <2>1. \A s \in SUBSET S : Cardinality(s) = 0 => s = {}
    BY <1>2, FS_EmptySet
  <2>2. QED
    <3>1. \A s \in SUBSET S : Cardinality(s) = 0 =>
              g[s] \in Int /\ \A y \in s : g[s] = f[y] + g[s \ {y}]
      BY <1>4, <2>1
    <3>2. QED
      BY <1>5, <3>1
<1>7. ASSUME NEW n \in Nat, n \in N
      PROVE  n + 1 \in N
  <2> SUFFICES ASSUME NEW s \in SUBSET S, Cardinality(s) = n + 1
               PROVE  g[s] \in Int /\ \A y \in s : g[s] = f[y] + g[s \ {y}]
    BY <1>5
  <2>1. PICK c : c = Chosen(s) /\ c \in s /\ f[c] \in Int
    BY <1>2, OneLess
  <2>2. \A y \in s : Cardinality(s \ {y}) = n
    BY <1>2, OneLess
  <2>3. \A y \in s : g[s \ {y}] \in Int /\ \A z \in s \ {y} : g[s \ {y}] = f[z] + g[(s \ {y}) \ {z}]
    BY <1>5, <1>7, <2>2
  <2>4. g[s] = f[c] + g[s \ {c}] /\ g[s] \in Int
    <3>1. s # {} /\ g[s \ {c}] \in Int
      BY <2>1, <2>3
    <3>2. g[s] = f[c] + g[s \ {c}]
      BY <1>4, <2>1, <3>1
    <3>3. QED
      BY <2>1, <3>1, <3>2
  <2>5. ASSUME NEW y \in s, y # c
        PROVE  g[s] = f[y] + g[s \ {y}]
    <3>1. (s \ {y}) \ {c} = (s \ {c}) \ {y}
      OBVIOUS
    <3>2. PICK r : r = g[(s \ {y}) \ {c}] /\ r = g[(s \ {c}) \ {y}]
      BY <3>1
    <3>3. g[s \ {c}] = f[y] + r /\ g[s \ {y}] = f[c] + r
      BY <2>1, <2>3, <2>5, <3>2
    <3>4. r \in Int
      <4>1. PICK u : u = (s \ {c}) \ {y} /\ u \in SUBSET S
        OBVIOUS
      <4>2. QED
        BY <1>11, <3>2, <4>1
    <3>5. f[y] \in Int
      OBVIOUS
    <3>6. QED
      BY <2>1, <2>4, <3>3, <3>4, <3>5
  <2>6. QED
    BY <2>4, <2>5
<1>8. \A n \in Nat : n \in N
  BY <1>6, <1>7, CountingUp
<1>9. g[S] \in Int /\ g[S] = f[x] + g[S \ {x}] /\ g[S \ {x}] \in Int
  BY <1>2, <1>5, <1>8
<1>10. QED
  BY <1>3, <1>9

LEMMA SumOfNone ==
    ASSUME NEW f
    PROVE  SumFunctionOnSet(f, {}) = 0
<1>1. PICK g : Adds(f, SUBSET {}, g) /\ SumFunctionOnSet(f, {}) = g[{}]
  BY FS_EmptySet, SumIs
<1>2. QED
  BY <1>1 DEF Adds

LEMMA SumCounts ==
    ASSUME NEW f, NEW S, IsFiniteSet(S), NEW W, W = Int \/ W = Nat, \A y \in S : f[y] \in W
    PROVE  SumFunctionOnSet(f, S) \in W
<1>1. PICK g : Adds(f, SUBSET S, g) /\ SumFunctionOnSet(f, S) = g[S]
  BY SumIs
<1>2. \A s \in SUBSET S : g[s] \in W
  BY <1>1, SumsCount
<1>3. QED
  BY <1>1, <1>2

\* A sum with one summand more.
LEMMA SumGains ==
    ASSUME NEW f, NEW S, IsFiniteSet(S), NEW x, x \notin S, f[x] \in Int, \A y \in S : f[y] \in Int
    PROVE  SumFunctionOnSet(f, S \cup {x}) = SumFunctionOnSet(f, S) + f[x]
<1>1. PICK T : T = S \cup {x}
  OBVIOUS
<1>4. T \ {x} = S /\ x \in T /\ \A y \in T : f[y] \in Int
  BY <1>1
<1>5. IsFiniteSet(T)
  BY <1>1, FS_AddElement
<1>2. /\ SumFunctionOnSet(f, T) \in Int /\ SumFunctionOnSet(f, S) \in Int
      /\ SumFunctionOnSet(f, T) = f[x] + SumFunctionOnSet(f, S)
  BY <1>4, <1>5, SumTakes
<1>3. QED
  BY <1>1, <1>2

\* Only the summands count.
LEMMA SameSummands ==
    ASSUME NEW S, IsFiniteSet(S), NEW f, NEW g, \A y \in S : f[y] = g[y] /\ f[y] \in Int
    PROVE  SumFunctionOnSet(f, S) = SumFunctionOnSet(g, S)
<1>1. PICK C : C = {s \in SUBSET S : SumFunctionOnSet(f, s) = SumFunctionOnSet(g, s)}
  OBVIOUS
<1>2. {} \in C
  BY <1>1, SumOfNone
<1>3. ASSUME NEW s \in SUBSET S, NEW x \in S, s \in C, x \notin s
      PROVE  s \cup {x} \in C
  <2>1. IsFiniteSet(s)
    BY FS_Subset
  <2>2. SumFunctionOnSet(f, s \cup {x}) = SumFunctionOnSet(f, s) + f[x]
    BY <1>3, <2>1, SumGains
  <2>3. SumFunctionOnSet(g, s \cup {x}) = SumFunctionOnSet(g, s) + g[x]
    BY <1>3, <2>1, SumGains
  <2>4. QED
    BY <1>1, <1>3, <2>2, <2>3
<1>4. S \in C
  BY <1>2, <1>3, SetsGrow
<1>5. QED
  BY <1>1, <1>4

\* Two disjoint sets.
LEMMA SumOfBoth ==
    ASSUME NEW S, NEW T, IsFiniteSet(S), IsFiniteSet(T), S \cap T = {}, NEW f,
           \A y \in S \cup T : f[y] \in Int
    PROVE  SumFunctionOnSet(f, S \cup T) = SumFunctionOnSet(f, S) + SumFunctionOnSet(f, T)
<1>1. PICK C : C = {t \in SUBSET T : /\ IsFiniteSet(S \cup t)
                                     /\ SumFunctionOnSet(f, S \cup t)
                                        = SumFunctionOnSet(f, S) + SumFunctionOnSet(f, t)}
  OBVIOUS
<1>2. SumFunctionOnSet(f, S) \in Int
  BY SumCounts
<1>3. {} \in C
  <2>1. S \cup {} = S
    OBVIOUS
  <2>2. SumFunctionOnSet(f, {}) = 0
    BY SumOfNone
  <2>3. QED
    BY <1>1, <1>2, <2>1, <2>2
<1>4. ASSUME NEW t \in SUBSET T, NEW x \in T, t \in C, x \notin t
      PROVE  t \cup {x} \in C
  <2>1. PICK u : u = S \cup t /\ S \cup (t \cup {x}) = u \cup {x} /\ x \notin u /\ IsFiniteSet(u)
    BY <1>1, <1>4
  <2>2. IsFiniteSet(t) /\ IsFiniteSet(u \cup {x})
    BY <2>1, FS_Subset, FS_AddElement
  <2>3. SumFunctionOnSet(f, u \cup {x}) = SumFunctionOnSet(f, u) + f[x]
    BY <1>4, <2>1, SumGains
  <2>4. SumFunctionOnSet(f, t \cup {x}) = SumFunctionOnSet(f, t) + f[x]
    BY <1>4, <2>2, SumGains
  <2>5. SumFunctionOnSet(f, t) \in Int
    BY <2>2, SumCounts
  <2>6. SumFunctionOnSet(f, u) = SumFunctionOnSet(f, S) + SumFunctionOnSet(f, t) /\ f[x] \in Int
    BY <1>1, <1>4, <2>1
  <2>7. SumFunctionOnSet(f, u \cup {x}) = SumFunctionOnSet(f, S) + SumFunctionOnSet(f, t \cup {x})
    BY <1>2, <2>3, <2>4, <2>5, <2>6
  <2>8. QED
    BY <1>1, <2>1, <2>2, <2>7
<1>5. T \in C
  BY <1>3, <1>4, SetsGrow
<1>6. QED
  BY <1>1, <1>5

\* One summand of a larger set.
LEMMA SumBounds ==
    ASSUME NEW f, NEW S, IsFiniteSet(S), \A y \in S : f[y] \in Nat, NEW x \in S
    PROVE  f[x] <= SumFunctionOnSet(f, S)
<1>1. SumFunctionOnSet(f, S) = f[x] + SumFunctionOnSet(f, S \ {x})
  BY SumTakes
<1>2. SumFunctionOnSet(f, S \ {x}) \in Nat
  BY FS_Subset, SumCounts
<1>3. QED
  BY <1>1, <1>2

\* The sums of the groups add up to the sum of all.
LEMMA SumOfGroups ==
    ASSUME NEW f, NEW S, IsFiniteSet(S), \A y \in S : f[y] \in Int,
           NEW group, NEW K, IsFiniteSet(K), \A y \in S : group[y] \in K
    PROVE  SumFunctionOnSet([k \in K |-> SumFunctionOnSet(f, {y \in S : group[y] = k})], K)
           = SumFunctionOnSet(f, S)
<1>1. PICK h : h = [k \in K |-> SumFunctionOnSet(f, {y \in S : group[y] = k})]
  OBVIOUS
<1>2. PICK C : C = {L \in SUBSET K : SumFunctionOnSet(h, L)
                                     = SumFunctionOnSet(f, {y \in S : group[y] \in L})}
  OBVIOUS
<1>3. \A k \in K : h[k] \in Int
  <2> SUFFICES ASSUME NEW k \in K
               PROVE  h[k] \in Int
    OBVIOUS
  <2>1. IsFiniteSet({y \in S : group[y] = k})
    BY FS_Subset
  <2>2. SumFunctionOnSet(f, {y \in S : group[y] = k}) \in Int
    BY <2>1, SumCounts
  <2>3. QED
    BY <1>1, <2>2
<1>4. {} \in C
  <2>1. {y \in S : group[y] \in {}} = {}
    OBVIOUS
  <2>2. QED
    BY <1>2, <2>1, SumOfNone
<1>5. ASSUME NEW L \in SUBSET K, NEW k \in K, L \in C, k \notin L
      PROVE  L \cup {k} \in C
  <2>1. PICK A, B : A = {y \in S : group[y] \in L} /\ B = {y \in S : group[y] = k}
    OBVIOUS
  <2>2. IsFiniteSet(L) /\ IsFiniteSet(A) /\ IsFiniteSet(B)
    BY <2>1, FS_Subset
  <2>3. A \cap B = {} /\ {y \in S : group[y] \in L \cup {k}} = A \cup B
    BY <1>5, <2>1
  <2>4. SumFunctionOnSet(f, A \cup B) = SumFunctionOnSet(f, A) + SumFunctionOnSet(f, B)
    <3>1. \A y \in A \cup B : f[y] \in Int
      BY <2>1
    <3>2. QED
      BY <2>2, <2>3, <3>1, SumOfBoth
  <2>5. SumFunctionOnSet(h, L \cup {k}) = SumFunctionOnSet(h, L) + h[k]
    BY <1>3, <1>5, <2>2, SumGains
  <2>6. h[k] = SumFunctionOnSet(f, B) /\ SumFunctionOnSet(h, L) = SumFunctionOnSet(f, A)
    BY <1>1, <1>2, <1>5, <2>1
  <2>7. SumFunctionOnSet(h, L \cup {k}) = SumFunctionOnSet(f, {y \in S : group[y] \in L \cup {k}})
    BY <2>3, <2>4, <2>5, <2>6
  <2>8. QED
    BY <1>2, <2>7
<1>6. K \in C
  BY <1>4, <1>5, SetsGrow
<1>7. {y \in S : group[y] \in K} = S
  OBVIOUS
<1>8. QED
  BY <1>1, <1>2, <1>6, <1>7

-----------------------------------------------------------------------------
(* Sums of figures.                                                         *)

Amount == [requests: Int, tokens: Int, cost: Int]

\* The figures of all members of a set.
Tally(F, S) == [requests |-> SumFunctionOnSet([x \in S |-> F[x].requests], S),
                tokens |-> SumFunctionOnSet([x \in S |-> F[x].tokens], S),
                cost |-> SumFunctionOnSet([x \in S |-> F[x].cost], S)]

LEMMA AmountFacts ==
    /\ \A t \in Amount : /\ t.requests \in Int /\ t.tokens \in Int /\ t.cost \in Int
                         /\ t = [requests |-> t.requests, tokens |-> t.tokens, cost |-> t.cost]
    /\ NoUse \in Amount /\ \A t, u \in Amount : Plus(t, u) \in Amount
    /\ \A t \in Total : t \in Amount
BY DEF Amount, NoUse, Plus, Total

\* A function restricted to the set adds up to the same.
LEMMA SumWithin ==
    ASSUME NEW f, NEW S, IsFiniteSet(S), NEW T \in SUBSET S, \A y \in S : f[y] \in Int
    PROVE  SumFunctionOnSet([x \in T |-> f[x]], T) = SumFunctionOnSet(f, T)
<1>1. PICK g : g = [x \in T |-> f[x]]
  OBVIOUS
<1>2. IsFiniteSet(T) /\ \A y \in T : g[y] = f[y] /\ g[y] \in Int
  BY <1>1, FS_Subset
<1>3. SumFunctionOnSet(g, T) = SumFunctionOnSet(f, T)
  BY <1>2, SameSummands
<1>4. QED
  BY <1>1, <1>3

LEMMA TallyCounts ==
    ASSUME NEW F, NEW S, IsFiniteSet(S), \A y \in S : F[y] \in Amount
    PROVE  Tally(F, S) \in Amount
<1>1. PICK r, t, c : /\ r = [x \in S |-> F[x].requests] /\ t = [x \in S |-> F[x].tokens]
                     /\ c = [x \in S |-> F[x].cost]
  OBVIOUS
<1>2. \A y \in S : r[y] \in Int /\ t[y] \in Int /\ c[y] \in Int
  BY <1>1, AmountFacts
<1>3. SumFunctionOnSet(r, S) \in Int /\ SumFunctionOnSet(t, S) \in Int /\ SumFunctionOnSet(c, S) \in Int
  BY <1>2, SumCounts
<1>4. QED
  BY <1>1, <1>3 DEF Tally, Amount

LEMMA TallyIsTotal ==
    ASSUME NEW F, NEW S, IsFiniteSet(S), \A y \in S : F[y] \in Total
    PROVE  Tally(F, S) \in Total
<1>1. PICK r, t, c : /\ r = [x \in S |-> F[x].requests] /\ t = [x \in S |-> F[x].tokens]
                     /\ c = [x \in S |-> F[x].cost]
  OBVIOUS
<1>2. \A y \in S : r[y] \in Nat /\ t[y] \in Nat /\ c[y] \in Nat
  BY <1>1 DEF Total
<1>3. SumFunctionOnSet(r, S) \in Nat /\ SumFunctionOnSet(t, S) \in Nat /\ SumFunctionOnSet(c, S) \in Nat
  BY <1>2, SumCounts
<1>4. QED
  BY <1>1, <1>3 DEF Tally, Total

LEMMA TallyOfNone ==
    ASSUME NEW F
    PROVE  Tally(F, {}) = NoUse
BY SumOfNone DEF Tally, NoUse

LEMMA SameTally ==
    ASSUME NEW S, NEW F, NEW H, \A y \in S : F[y] = H[y]
    PROVE  Tally(F, S) = Tally(H, S)
BY DEF Tally

\* One field of a tally with a member more.
LEMMA FieldGains ==
    ASSUME NEW S, IsFiniteSet(S), NEW x, x \notin S, NEW f, NEW T, T = S \cup {x},
           \A y \in T : f[y] \in Int
    PROVE  SumFunctionOnSet([y \in T |-> f[y]], T) = SumFunctionOnSet([y \in S |-> f[y]], S) + f[x]
<1>1. IsFiniteSet(T)
  BY FS_AddElement
<1>2. SumFunctionOnSet([y \in T |-> f[y]], T) = SumFunctionOnSet(f, T)
  BY <1>1, SumWithin
<1>3. SumFunctionOnSet([y \in S |-> f[y]], S) = SumFunctionOnSet(f, S)
  BY SumWithin
<1>4. SumFunctionOnSet(f, T) = SumFunctionOnSet(f, S) + f[x]
  BY SumGains
<1>5. QED
  BY <1>2, <1>3, <1>4

LEMMA TallyGains ==
    ASSUME NEW F, NEW S, IsFiniteSet(S), NEW x, x \notin S, \A y \in S \cup {x} : F[y] \in Amount
    PROVE  Tally(F, S \cup {x}) = Plus(Tally(F, S), F[x])
<1>1. PICK T : T = S \cup {x}
  OBVIOUS
<1>2. PICK r, t, c : /\ r = [y \in T |-> F[y].requests] /\ t = [y \in T |-> F[y].tokens]
                     /\ c = [y \in T |-> F[y].cost]
  OBVIOUS
<1>3. \A y \in T : r[y] \in Int /\ t[y] \in Int /\ c[y] \in Int
  BY <1>1, <1>2, AmountFacts
<1>4. /\ SumFunctionOnSet([y \in T |-> r[y]], T) = SumFunctionOnSet([y \in S |-> r[y]], S) + r[x]
      /\ SumFunctionOnSet([y \in T |-> t[y]], T) = SumFunctionOnSet([y \in S |-> t[y]], S) + t[x]
      /\ SumFunctionOnSet([y \in T |-> c[y]], T) = SumFunctionOnSet([y \in S |-> c[y]], S) + c[x]
  BY <1>1, <1>3, FieldGains
<1>5. /\ [y \in T |-> r[y]] = [y \in T |-> F[y].requests]
      /\ [y \in T |-> t[y]] = [y \in T |-> F[y].tokens]
      /\ [y \in T |-> c[y]] = [y \in T |-> F[y].cost]
      /\ [y \in S |-> r[y]] = [y \in S |-> F[y].requests]
      /\ [y \in S |-> t[y]] = [y \in S |-> F[y].tokens]
      /\ [y \in S |-> c[y]] = [y \in S |-> F[y].cost]
      /\ r[x] = F[x].requests /\ t[x] = F[x].tokens /\ c[x] = F[x].cost
  BY <1>1, <1>2
<1>6. QED
  BY <1>1, <1>4, <1>5 DEF Tally, Plus

\* One field of the groups' tallies.
LEMMA FieldOfGroups ==
    ASSUME NEW S, IsFiniteSet(S), NEW f, \A y \in S : f[y] \in Int,
           NEW group, NEW K, IsFiniteSet(K), \A y \in S : group[y] \in K,
           NEW part, part = [k \in K |-> {x \in S : group[x] = k}],
           NEW h, h = [k \in K |-> SumFunctionOnSet(f, part[k])]
    PROVE  SumFunctionOnSet(h, K) = SumFunctionOnSet(f, S)
<1>1. h = [k \in K |-> SumFunctionOnSet(f, {y \in S : group[y] = k})]
  OBVIOUS
<1>2. SumFunctionOnSet([k \in K |-> SumFunctionOnSet(f, {y \in S : group[y] = k})], K)
      = SumFunctionOnSet(f, S)
  BY SumOfGroups
<1>3. QED
  BY <1>1, <1>2, Zenon

Grouped(F, S, group, K, H) == \A k \in K : H[k] = Tally(F, {x \in S : group[x] = k})

\* The tallies of the groups add up to the tally of all.
LEMMA TallyOfGroups ==
    ASSUME NEW F, NEW S, IsFiniteSet(S), \A y \in S : F[y] \in Amount,
           NEW group, NEW K, IsFiniteSet(K), \A y \in S : group[y] \in K, NEW H, Grouped(F, S, group, K, H)
    PROVE  Tally(H, K) = Tally(F, S)
<1>1. PICK r, t, c : /\ r = [y \in S |-> F[y].requests] /\ t = [y \in S |-> F[y].tokens]
                     /\ c = [y \in S |-> F[y].cost]
  OBVIOUS
<1>2. \A y \in S : r[y] \in Int /\ t[y] \in Int /\ c[y] \in Int
  BY <1>1, AmountFacts
<1>3. PICK hr, ht, hc : /\ hr = [k \in K |-> H[k].requests] /\ ht = [k \in K |-> H[k].tokens]
                        /\ hc = [k \in K |-> H[k].cost]
  OBVIOUS
<1>7. PICK part : part = [k \in K |-> {x \in S : group[x] = k}]
  OBVIOUS
<1>4. ASSUME NEW k \in K
      PROVE  /\ hr[k] = SumFunctionOnSet(r, part[k])
             /\ ht[k] = SumFunctionOnSet(t, part[k])
             /\ hc[k] = SumFunctionOnSet(c, part[k])
  <2>1. PICK T : T = part[k] /\ T = {x \in S : group[x] = k}
    BY <1>7
  <2>2. /\ [y \in T |-> r[y]] = [y \in T |-> F[y].requests]
        /\ [y \in T |-> t[y]] = [y \in T |-> F[y].tokens]
        /\ [y \in T |-> c[y]] = [y \in T |-> F[y].cost]
    BY <1>1, <2>1
  <2>3. H[k] = Tally(F, T)
    BY <2>1 DEF Grouped
  <2>4. /\ SumFunctionOnSet([y \in T |-> r[y]], T) = SumFunctionOnSet(r, T)
        /\ SumFunctionOnSet([y \in T |-> t[y]], T) = SumFunctionOnSet(t, T)
        /\ SumFunctionOnSet([y \in T |-> c[y]], T) = SumFunctionOnSet(c, T)
    BY <1>2, <2>1, SumWithin
  <2>5. PICK w : /\ w = Tally(F, T)
                 /\ w.requests = SumFunctionOnSet([y \in T |-> F[y].requests], T)
                 /\ w.tokens = SumFunctionOnSet([y \in T |-> F[y].tokens], T)
                 /\ w.cost = SumFunctionOnSet([y \in T |-> F[y].cost], T)
    <3>1. PICK a, b, d : /\ a = SumFunctionOnSet([y \in T |-> F[y].requests], T)
                         /\ b = SumFunctionOnSet([y \in T |-> F[y].tokens], T)
                         /\ d = SumFunctionOnSet([y \in T |-> F[y].cost], T)
      OBVIOUS
    <3>2. PICK w : w = [requests |-> a, tokens |-> b, cost |-> d]
      OBVIOUS
    <3>3. w = Tally(F, T)
      BY <3>1, <3>2, Zenon DEF Tally
    <3>4. w.requests = a /\ w.tokens = b /\ w.cost = d
      BY <3>2
    <3>5. QED
      BY <3>1, <3>3, <3>4, Zenon
  <2>6. hr[k] = w.requests /\ ht[k] = w.tokens /\ hc[k] = w.cost
    BY <1>3, <2>3, <2>5
  <2>7. QED
    BY <2>1, <2>2, <2>4, <2>5, <2>6, Zenon
<1>5. /\ SumFunctionOnSet(hr, K) = SumFunctionOnSet(r, S)
      /\ SumFunctionOnSet(ht, K) = SumFunctionOnSet(t, S)
      /\ SumFunctionOnSet(hc, K) = SumFunctionOnSet(c, S)
  <2>1. /\ hr = [k \in K |-> SumFunctionOnSet(r, part[k])]
        /\ ht = [k \in K |-> SumFunctionOnSet(t, part[k])]
        /\ hc = [k \in K |-> SumFunctionOnSet(c, part[k])]
    BY <1>3, <1>4
  <2>2. SumFunctionOnSet(hr, K) = SumFunctionOnSet(r, S)
    BY <1>2, <1>7, <2>1, FieldOfGroups
  <2>3. SumFunctionOnSet(ht, K) = SumFunctionOnSet(t, S)
    BY <1>2, <1>7, <2>1, FieldOfGroups
  <2>4. SumFunctionOnSet(hc, K) = SumFunctionOnSet(c, S)
    BY <1>2, <1>7, <2>1, FieldOfGroups
  <2>5. QED
    BY <2>2, <2>3, <2>4
<1>8. QED
  BY <1>1, <1>3, <1>5, Zenon DEF Tally

-----------------------------------------------------------------------------
(* Rows, handlers and the recompute.                                        *)

Done == {"stored", "told"}
JobSet(ids) == [step: {"idle", "scan", "apply", "rebuild"}, snap: [ids -> Row],
                left: SUBSET ids, changes: Seq([id: ids, cost: Nat]),
                write: BOOLEAN, tool: BOOLEAN, prices: [Models -> Rates], edited: BOOLEAN]

\* What a handler that is not done has written has neither tokens nor cost, and
\* a Codex request that is to be finalized has its row.
RowsFit ==
    /\ rows \in Seq(Row)
    /\ rate \in [Models -> Rates]
    /\ stage \in [Requests -> {"new", "anchored", "priced", "stored", "told"}]
    /\ bill \in [Requests -> Nat]
    /\ stale \in BOOLEAN
    /\ edits \in 0 .. MaxEdits /\ recomputes \in 0 .. MaxRecomputes
    /\ \A i \in DOMAIN rows : stage[rows[i].req] \notin Done => rows[i].tokens = 0 /\ rows[i].cost = 0
    /\ \A r \in Requests : Trace[r].client = Codex /\ stage[r] \in {"anchored", "priced"}
                           => \E i \in DOMAIN rows : rows[i].req = r

\* The job's copy of a row is the row, but for what tells its cost; a row the
\* scan has yet to reach still has the cost of its copy.
CopyFits ==
    \A i \in DOMAIN job.snap :
        /\ i \in DOMAIN rows /\ rows[i].req = job.snap[i].req
        /\ job.snap[i].tokens > 0 => /\ stage[job.snap[i].req] \in Done
                                     /\ i \in job.left => rows[i].cost = job.snap[i].cost

\* Every row the scan has passed has its price or is among the changes.
ChangesFit ==
    /\ job.step \in {"apply", "rebuild"} => job.left = {}
    /\ job.step = "rebuild" => job.changes = <<>>
    /\ \A n \in DOMAIN job.changes :
          /\ job.changes[n].id \in DOMAIN job.snap \ job.left
          /\ job.snap[job.changes[n].id].tokens > 0
          /\ ~job.edited => job.changes[n].cost = JobCalc(job.snap[job.changes[n].id])
    /\ \A n, m \in DOMAIN job.changes : job.changes[n].id = job.changes[m].id => n = m
    /\ \A i \in DOMAIN job.snap \ job.left :
          ~job.edited /\ Repriced(job.snap[i])
          => rows[i].cost = JobCalc(job.snap[i]) \/ \E n \in DOMAIN job.changes : job.changes[n].id = i

JobFits == job \in JobSet(DOMAIN job.snap) /\ CopyFits /\ ChangesFit

LEMMA TraceFacts ==
    /\ \A r \in Requests : /\ Trace[r].at \in Nat /\ Trace[r].client \in Clients
                           /\ Trace[r].model \in Models
                           /\ Trace[r].tokens \in Nat /\ Trace[r].reported \in Nat
                           /\ Midnight[1] <= Trace[r].at /\ Trace[r].at < Midnight[LastDay + 1]
    /\ Rates \subseteq Nat /\ Rate0 \in [Models -> Rates]
    /\ Chunk \in Nat \ {0} /\ MaxEdits \in Nat /\ MaxRecomputes \in Nat
    /\ LastDay \in Nat \ {0} /\ Days = 1 .. LastDay
    /\ \A d \in 1 .. LastDay + 1 : Midnight[d] \in Nat
    /\ \A d \in Days : Midnight[d] < Midnight[d + 1]
<1>1. \A r \in Requests : Trace[r] \in Report
  BY TraceShape
<1>2. QED
  BY <1>1, TraceShape, PriceAssumption, CostBounds, CalendarAssumption DEF Report, Days

LEMMA RowFacts ==
    \A w \in Row : w.req \in Requests /\ w.tokens \in Nat /\ w.cost \in Nat
BY DEF Row

LEMMA RowsHold ==
    ASSUME rows \in Seq(Row)
    PROVE  /\ Len(rows) \in Nat /\ DOMAIN rows = 1 .. Len(rows)
           /\ \A i \in DOMAIN rows : /\ rows[i] \in Row /\ rows[i].req \in Requests
                                     /\ rows[i].tokens \in Nat /\ rows[i].cost \in Nat
<1>1. \A i \in DOMAIN rows : rows[i] \in Row
  OBVIOUS
<1>2. Len(rows) \in Nat /\ DOMAIN rows = 1 .. Len(rows)
  OBVIOUS
<1>3. QED
  BY <1>1, <1>2, RowFacts

\* A step that leaves the job and the prices alone, loses no row, leaves the cost
\* of what is done alone, and takes nothing back.
LEMMA JobStands ==
    ASSUME JobFits, UNCHANGED <<job, rate>>, DOMAIN rows \subseteq DOMAIN rows',
           \A i \in DOMAIN rows : rows'[i].req = rows[i].req,
           \A i \in DOMAIN rows : stage[rows[i].req] \in Done => rows'[i].cost = rows[i].cost,
           \A i \in DOMAIN rows : stage[rows[i].req] \in Done => stage'[rows[i].req] \in Done
    PROVE  JobFits'
<1>1. PICK J : J = job /\ J = job'
  OBVIOUS
<1>2. CopyFits'
  BY DEF JobFits, CopyFits
<1>3. \A w : JobCalc(w)' = JobCalc(w) /\ Repriced(w)' = Repriced(w)
  BY DEF JobCalc, Repriced
<1>4. \A i \in DOMAIN job.snap : Repriced(job.snap[i]) => rows'[i].cost = rows[i].cost
  BY DEF JobFits, CopyFits, Repriced
<1>5. ChangesFit'
  <2>1. \A i \in DOMAIN job.snap \ job.left :
          ~job.edited /\ Repriced(job.snap[i])
          => rows'[i].cost = JobCalc(job.snap[i]) \/ \E n \in DOMAIN job.changes : job.changes[n].id = i
    BY <1>4 DEF JobFits, ChangesFit
  <2>2. QED
    BY <1>3, <2>1 DEF JobFits, ChangesFit
<1>6. QED
  BY <1>2, <1>5 DEF JobFits

LEMMA RowsBegin == CostInit => RowsFit /\ JobFits
<1> SUFFICES ASSUME CostInit
             PROVE  RowsFit /\ JobFits
  OBVIOUS
<1>1. RowsFit
  <2>1. rows = <<>> /\ DOMAIN rows = {} /\ rows \in Seq(Row)
    BY DEF CostInit
  <2>2. /\ rate \in [Models -> Rates]
        /\ stage \in [Requests -> {"new", "anchored", "priced", "stored", "told"}]
        /\ bill \in [Requests -> Nat] /\ \A r \in Requests : stage[r] = "new"
    BY TraceFacts DEF CostInit
  <2>3. stale \in BOOLEAN /\ edits \in 0 .. MaxEdits /\ recomputes \in 0 .. MaxRecomputes
    <3>1. stale = FALSE /\ edits = 0 /\ recomputes = 0
      BY Zenon DEF CostInit
    <3>2. stale \in BOOLEAN
      BY <3>1, Zenon
    <3>3. edits \in 0 .. MaxEdits /\ recomputes \in 0 .. MaxRecomputes
      BY <3>1, CostBounds
    <3>4. QED
      BY <3>2, <3>3
  <2>4. QED
    BY <2>1, <2>2, <2>3 DEF RowsFit
<1>2. /\ job.step = "idle" /\ job.snap = <<>> /\ job.left = {} /\ job.changes = <<>>
      /\ job \in JobSet({})
  BY TraceFacts DEF CostInit, IdleJob, JobSet
<1>3. DOMAIN job.snap = {}
  BY <1>2
<1>4. QED
  BY <1>1, <1>2, <1>3 DEF JobFits, CopyFits, ChangesFit

LEMMA IdleFits ==
    ASSUME job' = IdleJob
    PROVE  JobFits'
<1>1. PICK J : J = job' /\ J = IdleJob
  OBVIOUS
<1>2. /\ J.step = "idle" /\ J.snap = <<>> /\ J.left = {} /\ J.changes = <<>>
      /\ J \in JobSet({})
  BY <1>1, TraceFacts DEF IdleJob, JobSet
<1>3. DOMAIN J.snap = {}
  BY <1>2
<1>4. QED
  BY <1>1, <1>2, <1>3 DEF JobFits, CopyFits, ChangesFit

-----------------------------------------------------------------------------
(* The handlers.                                                            *)

LEMMA InsertFits ==
    ASSUME RowsFit, JobFits, NEW r \in Requests, NEW t \in Nat, NEW c \in Nat, InsertRow(r, t, c),
           NEW to \in {"anchored", "stored"}, stage' = [stage EXCEPT ![r] = to],
           to = "anchored" => t = 0 /\ c = 0,
           to = "stored" => Trace[r].client # Codex,
           stage[r] \notin Done,
           UNCHANGED <<rate, bill, job, stale, edits, recomputes>>
    PROVE  RowsFit' /\ JobFits'
<1>12. PICK w : w = [req |-> r, tokens |-> t, cost |-> c]
  OBVIOUS
<1>1. w = [req |-> r, tokens |-> t, cost |-> c] /\ w \in Row /\ w.req = r /\ w.tokens = t /\ w.cost = c
  BY <1>12 DEF Row
<1>2. rows' = Append(rows, w)
  BY <1>1 DEF InsertRow
<1>3. rows \in Seq(Row)
  BY DEF RowsFit
<1>4. /\ rows' \in Seq(Row) /\ DOMAIN rows = 1 .. Len(rows) /\ DOMAIN rows' = 1 .. Len(rows) + 1
      /\ Len(rows) \in Nat
      /\ \A i \in DOMAIN rows : rows'[i] = rows[i]
      /\ rows'[Len(rows) + 1] = w
  BY <1>1, <1>2, <1>3
<1>5. \A i \in DOMAIN rows : rows[i] \in Row /\ rows[i].req \in Requests
  BY <1>3, RowsHold
<1>6. \A q \in Requests : stage'[q] = IF q = r THEN to ELSE stage[q]
  BY DEF RowsFit
<1>7. \A i \in DOMAIN rows' : stage'[rows'[i].req] \notin Done => rows'[i].tokens = 0 /\ rows'[i].cost = 0
  <2> SUFFICES ASSUME NEW i \in DOMAIN rows', stage'[rows'[i].req] \notin Done
               PROVE  rows'[i].tokens = 0 /\ rows'[i].cost = 0
    OBVIOUS
  <2>1. CASE i \in DOMAIN rows
    BY <1>4, <1>5, <1>6, <2>1 DEF RowsFit
  <2>2. CASE i = Len(rows) + 1
    BY <1>1, <1>4, <1>6, <2>2 DEF Done
  <2>3. QED
    BY <1>4, <2>1, <2>2
<1>8. \A q \in Requests : Trace[q].client = Codex /\ stage'[q] \in {"anchored", "priced"}
                          => \E i \in DOMAIN rows' : rows'[i].req = q
  <2> SUFFICES ASSUME NEW q \in Requests, Trace[q].client = Codex, stage'[q] \in {"anchored", "priced"}
               PROVE  \E i \in DOMAIN rows' : rows'[i].req = q
    OBVIOUS
  <2>1. CASE q = r
    BY <1>1, <1>4, <2>1
  <2>2. CASE q # r
    BY <1>4, <1>6, <2>2 DEF RowsFit
  <2>3. QED
    BY <2>1, <2>2
<1>9. RowsFit'
  <2>1. stage' \in [Requests -> {"new", "anchored", "priced", "stored", "told"}]
    BY DEF RowsFit
  <2>2. QED
    BY <1>4, <1>7, <1>8, <2>1 DEF RowsFit
<1>10. JobFits'
  <2>1. \A i \in DOMAIN rows : /\ rows'[i].req = rows[i].req
                               /\ stage[rows[i].req] \in Done => rows'[i].cost = rows[i].cost
                               /\ stage[rows[i].req] \in Done => stage'[rows[i].req] \in Done
    BY <1>4, <1>5, <1>6
  <2>2. DOMAIN rows \subseteq DOMAIN rows'
    BY <1>4
  <2>3. QED
    BY <2>1, <2>2, JobStands
<1>11. QED
  BY <1>9, <1>10

\* What is added when a completion finds its row.
LEMMA FinalFound ==
    ASSUME RowsFit, NEW r \in Requests, stage[r] = "priced", Trace[r].client = Codex,
           NEW i, i = CHOOSE n \in DOMAIN rows : rows[n].req = r
    PROVE  i \in DOMAIN rows /\ rows[i].req = r /\ rows[i].tokens = 0 /\ rows[i].cost = 0
<1>1. i \in DOMAIN rows /\ rows[i].req = r
  BY DEF RowsFit
<1>2. QED
  BY <1>1 DEF RowsFit, Done

LEMMA FinalFits ==
    ASSUME RowsFit, JobFits, NEW r \in Requests, stage[r] = "priced", Trace[r].client = Codex,
           FinalizeRequest(r), stage' = [stage EXCEPT ![r] = "stored"],
           UNCHANGED <<rate, bill, job, stale, edits, recomputes>>
    PROVE  RowsFit' /\ JobFits'
<1>1. PICK i : i = CHOOSE n \in DOMAIN rows : rows[n].req = r
  OBVIOUS
<1>2. i \in DOMAIN rows /\ rows[i].req = r
  BY <1>1, FinalFound
<1>3. PICK t, c : t = Trace[r].tokens /\ c = bill[r] /\ t \in Nat /\ c \in Nat
  BY TraceFacts DEF RowsFit
<1>4. rows' = [rows EXCEPT ![i].tokens = t, ![i].cost = c]
  BY <1>1, <1>3, Zenon DEF FinalizeRequest
<1>5. PICK w : w = [[rows[i] EXCEPT !.tokens = t] EXCEPT !.cost = c]
  OBVIOUS
<1>6. rows \in Seq(Row) /\ rows[i] \in Row
  BY <1>2 DEF RowsFit
<1>7. w \in Row /\ w.req = r
  <2>4. PICK u : u = rows[i] /\ u \in Row /\ u.req = r
    BY <1>2, <1>6
  <2>5. PICK v : v = [u EXCEPT !.tokens = t]
    OBVIOUS
  <2>1. v = [rows[i] EXCEPT !.tokens = t] /\ v \in Row /\ v.req = r
    BY <1>3, <2>4, <2>5 DEF Row
  <2>2. w = [v EXCEPT !.cost = c]
    BY <1>5, <2>1
  <2>3. QED
    BY <1>3, <2>1, <2>2 DEF Row
<1>8. rows' = [rows EXCEPT ![i] = w]
  BY <1>2, <1>4, <1>5
<1>9. /\ rows' \in Seq(Row) /\ DOMAIN rows' = DOMAIN rows
      /\ \A n \in DOMAIN rows : rows'[n] = IF n = i THEN w ELSE rows[n]
      /\ \A n \in DOMAIN rows : rows[n] \in Row /\ rows[n].req \in Requests
  <2>1. DOMAIN rows = 1 .. Len(rows) /\ Len(rows) \in Nat
    BY <1>6
  <2>2. rows' \in Seq(Row)
    BY <1>2, <1>6, <1>7, <1>8
  <2>3. QED
    BY <1>6, <1>7, <1>8, <2>2, RowsHold
<1>10. \A n \in DOMAIN rows : rows'[n].req = rows[n].req
  BY <1>2, <1>7, <1>9
<1>11. \A q \in Requests : stage'[q] = IF q = r THEN "stored" ELSE stage[q]
  BY DEF RowsFit
<1>12. \A n \in DOMAIN rows : stage[rows[n].req] \in Done => n # i /\ stage'[rows[n].req] \in Done
  BY <1>2, <1>9, <1>11 DEF Done
<1>13. RowsFit'
  <2>1. stage' \in [Requests -> {"new", "anchored", "priced", "stored", "told"}]
    BY DEF RowsFit
  <2>2. \A n \in DOMAIN rows' : stage'[rows'[n].req] \notin Done => rows'[n].tokens = 0 /\ rows'[n].cost = 0
    BY <1>2, <1>9, <1>10, <1>11 DEF RowsFit, Done
  <2>3. \A q \in Requests : Trace[q].client = Codex /\ stage'[q] \in {"anchored", "priced"}
                            => \E n \in DOMAIN rows' : rows'[n].req = q
    BY <1>9, <1>10, <1>11 DEF RowsFit
  <2>4. QED
    BY <1>9, <2>1, <2>2, <2>3 DEF RowsFit
<1>14. JobFits'
  BY <1>9, <1>10, <1>12, JobStands
<1>15. QED
  BY <1>13, <1>14

LEMMA AnchorFits ==
    ASSUME RowsFit, JobFits, NEW r \in Requests, AnchorRequest(r)
    PROVE  RowsFit' /\ JobFits'
<1>1. /\ InsertRow(r, 0, 0) /\ stage' = [stage EXCEPT ![r] = "anchored"]
      /\ stage[r] = "new"
      /\ UNCHANGED <<rate, bill, job, stale, edits, recomputes>>
  BY DEF AnchorRequest
<1>2. stage[r] \notin Done /\ "anchored" \in {"anchored", "stored"} /\ "anchored" # "stored"
  BY <1>1 DEF Done
<1>3. PICK to : to = "anchored"
  OBVIOUS
<1>4. QED
  BY <1>1, <1>2, <1>3, InsertFits

LEMMA PriceCounts ==
    ASSUME RowsFit, NEW r \in Requests
    PROVE  CostOf(r) \in Nat
<1>1. Calc(r, Trace[r].tokens) \in Nat
  <2>1. rate[Trace[r].model] \in Nat /\ Trace[r].tokens \in Nat
    BY TraceFacts DEF RowsFit
  <2>2. QED
    BY <2>1 DEF Calc
<1>2. Trace[r].reported \in Nat
  BY TraceFacts
<1>3. QED
  BY <1>1, <1>2, Zenon DEF CostOf

LEMMA PriceFits ==
    ASSUME RowsFit, JobFits, NEW r \in Requests, PriceRequest(r)
    PROVE  RowsFit' /\ JobFits'
<1>1. /\ bill' = [bill EXCEPT ![r] = CostOf(r)] /\ stage' = [stage EXCEPT ![r] = "priced"]
      /\ UNCHANGED <<rows, rate, job, stale, edits, recomputes>>
      /\ stage[r] = IF Trace[r].client = Codex THEN "anchored" ELSE "new"
  BY DEF PriceRequest
<1>2. stage[r] \notin Done /\ (Trace[r].client = Codex => stage[r] = "anchored")
  BY <1>1 DEF Done
<1>3. bill' \in [Requests -> Nat]
  BY <1>1, PriceCounts DEF RowsFit
<1>4. \A q \in Requests : stage'[q] = IF q = r THEN "priced" ELSE stage[q]
  BY <1>1 DEF RowsFit
<1>5. rows \in Seq(Row) /\ rows' = rows
  BY <1>1 DEF RowsFit
<1>6. \A i \in DOMAIN rows : rows[i].req \in Requests
  BY <1>5, RowsHold
<1>7. RowsFit'
  <2>1. stage' \in [Requests -> {"new", "anchored", "priced", "stored", "told"}]
    BY <1>1 DEF RowsFit
  <2>2. \A i \in DOMAIN rows : stage'[rows[i].req] \notin Done => rows[i].tokens = 0 /\ rows[i].cost = 0
    BY <1>2, <1>4, <1>6 DEF RowsFit
  <2>3. \A q \in Requests : Trace[q].client = Codex /\ stage'[q] \in {"anchored", "priced"}
                            => \E i \in DOMAIN rows : rows[i].req = q
    BY <1>2, <1>4 DEF RowsFit
  <2>4. QED
    BY <1>1, <1>3, <1>5, <2>1, <2>2, <2>3 DEF RowsFit
<1>8. JobFits'
  <2>1. \A i \in DOMAIN rows : stage[rows[i].req] \in Done => stage'[rows[i].req] \in Done
    BY <1>2, <1>4, <1>6
  <2>2. QED
    BY <1>1, <2>1, JobStands
<1>9. QED
  BY <1>7, <1>8

LEMMA StoreFits ==
    ASSUME RowsFit, JobFits, NEW r \in Requests, StoreRequest(r)
    PROVE  RowsFit' /\ JobFits'
<1>1. /\ stage[r] = "priced" /\ stage' = [stage EXCEPT ![r] = "stored"]
      /\ UNCHANGED <<rate, bill, job, stale, edits, recomputes>>
  BY DEF StoreRequest
<1>2. CASE Trace[r].client = Codex
  <2>1. FinalizeRequest(r)
    BY <1>2 DEF StoreRequest
  <2>2. QED
    BY <1>1, <1>2, <2>1, FinalFits
<1>3. CASE Trace[r].client # Codex
  <2>1. InsertRow(r, Trace[r].tokens, bill[r])
    BY <1>3 DEF StoreRequest
  <2>2. Trace[r].tokens \in Nat /\ bill[r] \in Nat
    BY TraceFacts DEF RowsFit
  <2>3. stage[r] \notin Done
    BY <1>1 DEF Done
  <2>4. PICK to, t, c : to = "stored" /\ to # "anchored" /\ t = Trace[r].tokens /\ c = bill[r]
    OBVIOUS
  <2>5. QED
    BY <1>1, <1>3, <2>1, <2>2, <2>3, <2>4, InsertFits
<1>4. QED
  BY <1>2, <1>3

\* The announcement of what is stored.
LEMMA ToldFits ==
    ASSUME RowsFit, JobFits, NEW r \in Requests, stage[r] = "stored",
           stage' = [stage EXCEPT ![r] = "told"],
           UNCHANGED <<rows, agg, rate, bill, job, stale, edits, recomputes>>
    PROVE  RowsFit' /\ JobFits'
<1>1. \A q \in Requests : stage'[q] = IF q = r THEN "told" ELSE stage[q]
  BY DEF RowsFit
<1>2. \A i \in DOMAIN rows : rows[i].req \in Requests
  BY RowsHold DEF RowsFit
<1>3. \A q \in Requests : stage'[q] \in Done <=> stage[q] \in Done
  BY <1>1 DEF Done
<1>4. RowsFit'
  <2>1. stage' \in [Requests -> {"new", "anchored", "priced", "stored", "told"}]
    BY DEF RowsFit
  <2>2. \A q \in Requests : stage'[q] \in {"anchored", "priced"} => stage[q] \in {"anchored", "priced"}
    BY <1>1
  <2>3. QED
    BY <1>2, <1>3, <2>1, <2>2 DEF RowsFit
<1>5. JobFits'
  BY <1>2, <1>3, JobStands
<1>6. QED
  BY <1>4, <1>5

LEMMA EditFits ==
    ASSUME RowsFit, JobFits, NEW m \in Models, NEW p \in Rates, EditPrice(m, p)
    PROVE  RowsFit' /\ JobFits'
<1>1. /\ edits < MaxEdits /\ edits' = edits + 1 /\ rate' = [rate EXCEPT ![m] = p]
      /\ UNCHANGED <<rows, agg, stage, bill, stale, recomputes>>
  BY DEF EditPrice
<1>2. edits' \in 0 .. MaxEdits
  BY <1>1, CostBounds DEF RowsFit
<1>3. RowsFit'
  BY <1>1, <1>2 DEF RowsFit
<1>4. PICK S : S = DOMAIN job.snap
  OBVIOUS
<1>5. PICK k, j : k = job /\ k \in JobSet(S) /\ j = [k EXCEPT !.edited = TRUE] /\ j = job'
  BY <1>4 DEF EditPrice, JobFits
<1>6. /\ j \in JobSet(S) /\ j.edited = TRUE /\ j.step = k.step /\ j.snap = k.snap /\ j.left = k.left
      /\ j.changes = k.changes
  BY <1>5 DEF JobSet
<1>7. CopyFits'
  BY <1>1, <1>5, <1>6 DEF JobFits, CopyFits
<1>8. ChangesFit'
  <2>1. /\ k.step \in {"apply", "rebuild"} => k.left = {}
        /\ k.step = "rebuild" => k.changes = <<>>
        /\ \A n \in DOMAIN k.changes : /\ k.changes[n].id \in DOMAIN k.snap \ k.left
                                       /\ k.snap[k.changes[n].id].tokens > 0
        /\ \A n, q \in DOMAIN k.changes : k.changes[n].id = k.changes[q].id => n = q
    BY <1>5, Zenon DEF JobFits, ChangesFit
  <2>2. job'.edited = TRUE
    BY <1>5, <1>6
  <2>3. (/\ job.step \in {"apply", "rebuild"} => job.left = {}
         /\ job.step = "rebuild" => job.changes = <<>>
         /\ \A n, q \in DOMAIN job.changes : job.changes[n].id = job.changes[q].id => n = q)'
    BY <1>5, <1>6, <2>1
  <2>4. \A n \in DOMAIN job'.changes : /\ job'.changes[n].id \in DOMAIN job'.snap \ job'.left
                                       /\ job'.snap[job'.changes[n].id].tokens > 0
    BY <1>5, <1>6, <2>1
  <2>5. (\A n \in DOMAIN job.changes :
            ~job.edited => job.changes[n].cost = JobCalc(job.snap[job.changes[n].id]))'
    BY <2>2, Zenon
  <2>6. (\A i \in DOMAIN job.snap \ job.left :
            ~job.edited /\ Repriced(job.snap[i])
            => rows[i].cost = JobCalc(job.snap[i]) \/ \E n \in DOMAIN job.changes : job.changes[n].id = i)'
    BY <2>2, Zenon
  <2>7. QED
    BY <2>3, <2>4, <2>5, <2>6, Zenon DEF ChangesFit
<1>9. QED
  BY <1>3, <1>4, <1>5, <1>6, <1>7, <1>8 DEF JobFits

\* A recompute that begins.
LEMMA BeginFits ==
    ASSUME RowsFit, JobFits, NEW window, NEW write \in BOOLEAN, NEW tool \in BOOLEAN,
           Begin(window, write, tool)
    PROVE  RowsFit' /\ JobFits'
<1>1. /\ recomputes < MaxRecomputes /\ recomputes' = recomputes + 1
      /\ UNCHANGED <<rows, agg, rate, stage, bill, stale, edits>>
  BY DEF Begin
<1>2. RowsFit'
  <2>1. recomputes' \in 0 .. MaxRecomputes
    BY <1>1, CostBounds DEF RowsFit
  <2>2. QED
    BY <1>1, <2>1 DEF RowsFit
<1>3. PICK ids : ids = {i \in DOMAIN rows : /\ window[1] <= Trace[rows[i].req].at
                                            /\ Trace[rows[i].req].at < window[2]}
  OBVIOUS
<1>4. PICK snap : snap = [i \in ids |-> rows[i]]
  OBVIOUS
<1>6. PICK j : j = [step |-> "scan", snap |-> snap, left |-> ids, changes |-> <<>>,
                    write |-> write, tool |-> tool, prices |-> rate, edited |-> FALSE]
  OBVIOUS
<1>7. job' = j
  BY <1>3, <1>4, <1>6, Zenon DEF Begin
<1>8. /\ j.step = "scan" /\ j.snap = snap /\ j.left = ids /\ j.changes = <<>> /\ j.edited = FALSE
      /\ j.write = write /\ j.tool = tool /\ j.prices = rate
  BY <1>6
<1>9. \A i \in ids : /\ i \in DOMAIN rows /\ snap[i] = rows[i] /\ rows[i] \in Row
                     /\ rows[i].tokens > 0 => stage[rows[i].req] \in Done
  <2>1. \A i \in DOMAIN rows : rows[i] \in Row
    BY RowsHold DEF RowsFit
  <2>2. QED
    BY <1>3, <1>4, <2>1 DEF RowsFit
<1>10. DOMAIN snap = ids /\ snap \in [ids -> Row]
  BY <1>4, <1>9
<1>11. j \in JobSet(ids)
  <2>1. rate \in [Models -> Rates] /\ <<>> \in Seq([id: ids, cost: Nat])
    BY DEF RowsFit
  <2>2. QED
    BY <1>6, <1>10, <2>1, Zenon DEF JobSet
<1>12. CopyFits'
  BY <1>1, <1>7, <1>8, <1>9, <1>10 DEF CopyFits
<1>13. ChangesFit'
  BY <1>7, <1>8, <1>10 DEF ChangesFit
<1>14. QED
  BY <1>2, <1>7, <1>8, <1>10, <1>11, <1>12, <1>13 DEF JobFits

\* What the job is made of.
LEMMA JobHolds ==
    ASSUME NEW ids, NEW j \in JobSet(ids)
    PROVE  /\ j.step \in {"idle", "scan", "apply", "rebuild"}
           /\ j.snap \in [ids -> Row] /\ DOMAIN j.snap = ids
           /\ j.left \in SUBSET ids
           /\ j.changes \in Seq([id: ids, cost: Nat])
           /\ j.prices \in [Models -> Rates]
<1>1. /\ j.step \in {"idle", "scan", "apply", "rebuild"}
      /\ j.snap \in [ids -> Row]
      /\ j.left \in SUBSET ids
      /\ j.changes \in Seq([id: ids, cost: Nat])
      /\ j.prices \in [Models -> Rates]
  BY DEF JobSet
<1>2. QED
  BY <1>1

LEMMA PricedAt ==
    ASSUME RowsFit, JobFits, NEW w \in Row
    PROVE  JobCalc(w) \in Nat
<1>1. PICK ids : ids = DOMAIN job.snap /\ job \in JobSet(ids)
  BY DEF JobFits
<1>2. job.prices \in [Models -> Rates] /\ rate \in [Models -> Rates]
  BY <1>1, JobHolds DEF RowsFit
<1>3. PICK p : p = IF job.tool THEN job.prices ELSE rate
  OBVIOUS
<1>4. p \in [Models -> Rates]
  BY <1>2, <1>3, Zenon
<1>5. w.req \in Requests /\ w.tokens \in Nat
  BY RowFacts
<1>6. p[Trace[w.req].model] \in Nat
  BY <1>4, <1>5, TraceFacts
<1>7. JobCalc(w) = w.tokens * p[Trace[w.req].model]
  BY <1>3, Zenon DEF JobCalc
<1>8. QED
  BY <1>5, <1>6, <1>7

\* A row is scanned.
LEMMA ScanFits ==
    ASSUME RowsFit, JobFits, ScanRow
    PROVE  RowsFit' /\ JobFits'
<1>1. PICK i \in job.left :
          job' = [job EXCEPT !.left = @ \ {i},
                    !.changes = IF Repriced(job.snap[i]) /\ JobCalc(job.snap[i]) # job.snap[i].cost
                                THEN Append(@, [id |-> i, cost |-> JobCalc(job.snap[i])]) ELSE @]
  BY Zenon DEF ScanRow
<1>2. UNCHANGED <<rows, agg, rate, stage, bill, stale, edits, recomputes>> /\ job.step = "scan"
  BY DEF ScanRow
<1>3. RowsFit'
  BY <1>2 DEF RowsFit
<1>4. PICK ids, k : k = job /\ ids = DOMAIN job.snap /\ k \in JobSet(ids)
  BY DEF JobFits
<1>5. PICK w, c : w = k.snap[i] /\ c = JobCalc(w)
  OBVIOUS
<1>6. /\ i \in ids /\ w \in Row /\ c \in Nat
      /\ DOMAIN k.snap = ids /\ k.changes \in Seq([id: ids, cost: Nat])
  <2>1. k.snap \in [ids -> Row] /\ k.left \in SUBSET ids /\ DOMAIN k.snap = ids
        /\ k.changes \in Seq([id: ids, cost: Nat])
    <3>1. k \in JobSet(ids)
      BY <1>4
    <3>2. QED
      BY <3>1, JobHolds
  <2>2. i \in ids /\ w \in Row
    BY <1>1, <1>4, <1>5, <2>1
  <2>3. QED
    BY <1>5, <2>1, <2>2, PricedAt
<1>7. PICK l, more, q : /\ l = k.left \ {i} /\ more = [id |-> i, cost |-> c]
                        /\ q = IF Repriced(w) /\ c # w.cost THEN Append(k.changes, more) ELSE k.changes
  OBVIOUS
<1>8. job' = [k EXCEPT !.left = l, !.changes = q]
  BY <1>1, <1>4, <1>5, <1>7, Zenon
<1>9. PICK j : j = job'
  OBVIOUS
<1>10. q \in Seq([id: ids, cost: Nat])
  <2>1. more \in [id: ids, cost: Nat]
    BY <1>6, <1>7
  <2>2. Append(k.changes, more) \in Seq([id: ids, cost: Nat])
    BY <1>6, <2>1
  <2>3. QED
    BY <1>6, <1>7, <2>2, Zenon
<1>11. /\ j \in JobSet(ids) /\ j.left = l /\ j.changes = q /\ j.step = "scan"
       /\ j.snap = k.snap /\ j.tool = k.tool /\ j.prices = k.prices /\ j.edited = k.edited
  <2>1. PICK m : m = [k EXCEPT !.left = l]
    OBVIOUS
  <2>2. /\ m \in JobSet(ids) /\ m.left = l /\ m.changes = k.changes /\ m.step = k.step
        /\ m.snap = k.snap /\ m.tool = k.tool /\ m.prices = k.prices /\ m.edited = k.edited
    BY <1>4, <1>7, <2>1 DEF JobSet
  <2>3. j = [m EXCEPT !.changes = q]
    BY <1>8, <1>9, <2>1
  <2>4. /\ j \in JobSet(ids) /\ j.left = m.left /\ j.changes = q /\ j.step = m.step
        /\ j.snap = m.snap /\ j.tool = m.tool /\ j.prices = m.prices /\ j.edited = m.edited
    BY <1>10, <2>2, <2>3 DEF JobSet
  <2>5. QED
    BY <1>2, <1>4, <2>2, <2>4
<1>12. \A x : JobCalc(x)' = JobCalc(x) /\ Repriced(x)' = Repriced(x)
  BY <1>2, <1>4, <1>9, <1>11 DEF JobCalc, Repriced
<1>13. CopyFits'
  <2>1. job.left \subseteq ids /\ l \subseteq job.left
    BY <1>4, <1>7, JobHolds
  <2>2. QED
    BY <1>2, <1>4, <1>9, <1>11, <2>1 DEF JobFits, CopyFits
<1>14. \A n, m \in DOMAIN k.changes : k.changes[n].id = k.changes[m].id => n = m
  BY <1>4 DEF JobFits, ChangesFit
<1>15. \A n \in DOMAIN k.changes : /\ k.changes[n].id \in ids \ k.left
                                   /\ k.snap[k.changes[n].id].tokens > 0
                                   /\ ~k.edited => k.changes[n].cost = JobCalc(k.snap[k.changes[n].id])
  BY <1>4 DEF JobFits, ChangesFit
<1>16. \A x \in ids \ k.left :
          ~k.edited /\ Repriced(k.snap[x])
          => rows[x].cost = JobCalc(k.snap[x]) \/ \E n \in DOMAIN k.changes : k.changes[n].id = x
  BY <1>4 DEF JobFits, ChangesFit
<1>17. w.tokens > 0 => rows[i].cost = w.cost
  BY <1>1, <1>4, <1>5, <1>6 DEF JobFits, CopyFits
<1>18. (/\ \A n, m \in DOMAIN q : q[n].id = q[m].id => n = m
        /\ \A n \in DOMAIN q : /\ q[n].id \in ids \ l
                               /\ k.snap[q[n].id].tokens > 0
                               /\ ~k.edited => q[n].cost = JobCalc(k.snap[q[n].id])
        /\ \A x \in ids \ l :
              ~k.edited /\ Repriced(k.snap[x])
              => rows[x].cost = JobCalc(k.snap[x]) \/ \E n \in DOMAIN q : q[n].id = x)
  <2>1. CASE Repriced(w) /\ c # w.cost
    <3>1. q = Append(k.changes, more) /\ more.id = i /\ more.cost = c
      BY <1>7, <2>1
    <3>2. PICK N : N = Len(k.changes) /\ N \in Nat /\ DOMAIN k.changes = 1 .. N
      BY <1>6
    <3>3. /\ DOMAIN q = 1 .. N + 1 /\ q[N + 1] = more
          /\ \A n \in 1 .. N : q[n] = k.changes[n]
      BY <1>6, <3>1, <3>2
    <3>4. \A n \in 1 .. N : q[n].id # i
      BY <1>1, <1>4, <1>15, <3>2, <3>3
    <3>5. w.tokens > 0
      BY <2>1 DEF Repriced
    <3>6. \A n, m \in DOMAIN q : q[n].id = q[m].id => n = m
      BY <1>14, <3>1, <3>2, <3>3, <3>4
    <3>7. \A n \in DOMAIN q : /\ q[n].id \in ids \ l
                              /\ k.snap[q[n].id].tokens > 0
                              /\ ~k.edited => q[n].cost = JobCalc(k.snap[q[n].id])
      <4> SUFFICES ASSUME NEW n \in DOMAIN q
                   PROVE  /\ q[n].id \in ids \ l
                          /\ k.snap[q[n].id].tokens > 0
                          /\ ~k.edited => q[n].cost = JobCalc(k.snap[q[n].id])
        OBVIOUS
      <4>1. CASE n \in 1 .. N
        BY <1>7, <1>15, <3>2, <3>3, <4>1
      <4>2. CASE n = N + 1
        BY <1>5, <1>6, <1>7, <3>1, <3>3, <3>5, <4>2
      <4>3. QED
        BY <3>2, <3>3, <4>1, <4>2
    <3>8. ASSUME NEW x \in ids \ l, ~k.edited, Repriced(k.snap[x])
          PROVE  rows[x].cost = JobCalc(k.snap[x]) \/ \E n \in DOMAIN q : q[n].id = x
      <4>1. CASE x = i
        BY <3>1, <3>2, <3>3, <4>1
      <4>2. CASE x # i
        <5>1. x \in ids \ k.left
          BY <1>7, <3>8, <4>2
        <5>2. rows[x].cost = JobCalc(k.snap[x]) \/ \E n \in DOMAIN k.changes : k.changes[n].id = x
          BY <1>16, <3>8, <5>1
        <5>3. QED
          BY <3>2, <3>3, <5>2
      <4>3. QED
        BY <4>1, <4>2
    <3>9. QED
      BY <3>6, <3>7, <3>8
  <2>2. CASE ~(Repriced(w) /\ c # w.cost)
    <3>1. q = k.changes
      BY <1>7, <2>2
    <3>2. ASSUME NEW x \in ids \ l, ~k.edited, Repriced(k.snap[x])
          PROVE  rows[x].cost = JobCalc(k.snap[x]) \/ \E n \in DOMAIN q : q[n].id = x
      <4>1. CASE x = i
        <5>1. w.tokens > 0
          BY <1>5, <3>2, <4>1 DEF Repriced
        <5>2. QED
          BY <1>5, <1>17, <2>2, <3>2, <4>1, <5>1
      <4>2. CASE x # i
        <5>1. x \in ids \ k.left
          BY <1>7, <3>2, <4>2
        <5>2. QED
          BY <1>16, <3>1, <3>2, <5>1
      <4>3. QED
        BY <4>1, <4>2
    <3>3. \A n \in DOMAIN q : q[n].id \in ids \ l
      BY <1>7, <1>15, <3>1
    <3>4. QED
      BY <1>14, <1>15, <3>1, <3>2, <3>3
  <2>3. QED
    BY <2>1, <2>2
<1>19. ChangesFit'
  <2>1. /\ job'.step = "scan" /\ job'.snap = k.snap /\ job'.left = l /\ job'.changes = q
        /\ job'.edited = k.edited /\ DOMAIN k.snap = ids
    BY <1>6, <1>9, <1>11
  <2>2. QED
    BY <1>2, <1>12, <1>18, <2>1 DEF ChangesFit
<1>20. QED
  BY <1>3, <1>6, <1>9, <1>11, <1>13, <1>19 DEF JobFits

LEMMA ScanEndFits ==
    ASSUME RowsFit, JobFits, ScanEnds
    PROVE  RowsFit' /\ JobFits'
<1>1. /\ UNCHANGED <<rows, agg, rate, stage, bill, stale, edits, recomputes>>
      /\ job.step = "scan" /\ job.left = {}
  BY DEF ScanEnds
<1>2. RowsFit'
  BY <1>1 DEF RowsFit
<1>3. CASE ~job.write
  <2>1. job' = IdleJob
    BY <1>3, Zenon DEF ScanEnds
  <2>2. QED
    BY <1>2, <2>1, IdleFits
<1>4. CASE job.write
  <2>1. PICK ids, k : k = job /\ ids = DOMAIN job.snap /\ k \in JobSet(ids)
    BY DEF JobFits
  <2>2. PICK s : s = IF k.changes = <<>> THEN "rebuild" ELSE "apply"
    OBVIOUS
  <2>3. PICK j : j = job'
    OBVIOUS
  <2>4. j = [k EXCEPT !.step = s]
    BY <1>4, <2>1, <2>2, <2>3, Zenon DEF ScanEnds
  <2>5. s \in {"rebuild", "apply"} /\ (s = "rebuild" => k.changes = <<>>)
    BY <2>2
  <2>6. /\ j \in JobSet(ids) /\ j.left = k.left /\ j.changes = k.changes /\ j.step = s
        /\ j.snap = k.snap /\ j.tool = k.tool /\ j.prices = k.prices /\ j.edited = k.edited
    BY <2>1, <2>4, <2>5 DEF JobSet
  <2>7. \A x : JobCalc(x)' = JobCalc(x) /\ Repriced(x)' = Repriced(x)
    BY <1>1, <2>1, <2>3, <2>6 DEF JobCalc, Repriced
  <2>8. CopyFits'
    BY <1>1, <2>1, <2>3, <2>6 DEF JobFits, CopyFits
  <2>9. ChangesFit'
    BY <1>1, <2>1, <2>3, <2>5, <2>6, <2>7 DEF JobFits, ChangesFit
  <2>10. QED
    BY <1>2, <2>1, <2>3, <2>6, <2>8, <2>9 DEF JobFits
<1>5. QED
  BY <1>3, <1>4

LEMMA EndFits ==
    ASSUME RowsFit, JobFits, RebuildAgg \/ Interrupt
    PROVE  RowsFit' /\ JobFits'
<1>1. /\ job' = IdleJob /\ stale' \in BOOLEAN
      /\ UNCHANGED <<rows, rate, stage, bill, edits, recomputes>>
  BY DEF RebuildAgg, Interrupt, RowsFit
<1>2. RowsFit'
  BY <1>1 DEF RowsFit
<1>3. QED
  BY <1>1, <1>2, IdleFits

\* What a chunk and the rest make of the changes.
Splits(T, changes, rest) ==
    /\ DOMAIN NextChunk(changes) = {n \in DOMAIN changes : n <= Chunk}
    /\ \A n \in DOMAIN NextChunk(changes) : NextChunk(changes)[n] = changes[n]
    /\ rest \in Seq(T)
    /\ \A n \in DOMAIN rest : n + Chunk \in DOMAIN changes /\ rest[n] = changes[n + Chunk]
    /\ \A n \in DOMAIN changes : n > Chunk => n - Chunk \in DOMAIN rest
                                              /\ rest[n - Chunk] = changes[n]

LEMMA ChunkFacts ==
    ASSUME NEW T, NEW changes \in Seq(T)
    PROVE  Splits(T, changes, SubSeq(changes, Chunk + 1, Len(changes)))
<1>11. PICK rest : rest = SubSeq(changes, Chunk + 1, Len(changes))
  OBVIOUS
<1>1. Chunk \in Nat \ {0}
  BY TraceFacts
<1>2. PICK L : L = Len(changes) /\ L \in Nat /\ DOMAIN changes = 1 .. L
  OBVIOUS
<1>3. PICK m : m = IF L <= Chunk THEN L ELSE Chunk
  OBVIOUS
<1>4. m \in 0 .. L /\ m <= Chunk /\ (m = L \/ m = Chunk)
  BY <1>1, <1>2, <1>3
<1>5. NextChunk(changes) = SubSeq(changes, 1, m)
  BY <1>2, <1>3, Zenon DEF NextChunk
<1>6. PICK c : c = SubSeq(changes, 1, m)
  OBVIOUS
<1>7. c \in Seq(T) /\ DOMAIN c = 1 .. m /\ \A n \in 1 .. m : c[n] = changes[n]
  BY <1>2, <1>4, <1>6
<1>8. rest \in Seq(T) /\ DOMAIN rest = 1 .. Len(rest)
      /\ Len(rest) = IF L > Chunk THEN L - Chunk ELSE 0
  BY <1>1, <1>2, <1>11
<1>9. \A n \in 1 .. Len(rest) : rest[n] = changes[n + Chunk]
  BY <1>1, <1>2, <1>8, <1>11
<1>10. QED
  <2>1. DOMAIN c = {n \in DOMAIN changes : n <= Chunk} /\ \A n \in DOMAIN c : c[n] = changes[n]
    BY <1>1, <1>2, <1>4, <1>7
  <2>2. NextChunk(changes) = c
    BY <1>5, <1>6
  <2>3. \A n \in DOMAIN rest : n + Chunk \in DOMAIN changes /\ rest[n] = changes[n + Chunk]
    BY <1>1, <1>2, <1>8, <1>9
  <2>4. \A n \in DOMAIN changes : n > Chunk => n - Chunk \in DOMAIN rest /\ rest[n - Chunk] = changes[n]
    BY <1>1, <1>2, <1>8, <1>9
  <2>5. Splits(T, changes, rest)
    BY <1>8, <2>1, <2>2, <2>3, <2>4 DEF Splits
  <2>6. QED
    BY <1>11, <2>5

\* A chunk of the changes is written.
LEMMA ApplyFits ==
    ASSUME RowsFit, JobFits, ApplyChunk
    PROVE  RowsFit' /\ JobFits'
<1>1. /\ UNCHANGED <<agg, rate, stage, bill, edits, recomputes>>
      /\ job.step = "apply" /\ stale' = TRUE
  BY DEF ApplyChunk
<1>2. PICK ids, k : k = job /\ ids = DOMAIN job.snap /\ k \in JobSet(ids)
  BY DEF JobFits
<1>3. PICK q : q = k.changes
  OBVIOUS
<1>4. PICK chunk, rest : chunk = NextChunk(q) /\ rest = SubSeq(q, Chunk + 1, Len(q))
  OBVIOUS
<1>5. PICK at : at = [i \in {chunk[n].id : n \in DOMAIN chunk} |->
                        chunk[CHOOSE n \in DOMAIN chunk : chunk[n].id = i].cost]
  OBVIOUS
<1>6. rows' = [i \in DOMAIN rows |->
                  IF \E n \in DOMAIN chunk : chunk[n].id = i
                  THEN [rows[i] EXCEPT !.cost =
                          chunk[CHOOSE n \in DOMAIN chunk : chunk[n].id = i].cost]
                  ELSE rows[i]]
  BY <1>2, <1>3, <1>4, Zenon DEF ApplyChunk
<1>7. PICK s : s = IF rest = <<>> THEN "rebuild" ELSE "apply"
  OBVIOUS
<1>8. job' = [k EXCEPT !.changes = rest, !.step = s]
  BY <1>2, <1>3, <1>4, <1>7, Zenon DEF ApplyChunk
<1>9. PICK j : j = job'
  OBVIOUS
<1>10. q \in Seq([id: ids, cost: Nat]) /\ DOMAIN k.snap = ids /\ k.snap \in [ids -> Row]
  BY <1>2, <1>3, JobHolds, Zenon
<1>11. PICK T : T = [id: ids, cost: Nat]
  OBVIOUS
<1>33. q \in Seq(T)
  BY <1>10, <1>11
<1>12. /\ DOMAIN chunk = {n \in DOMAIN q : n <= Chunk}
       /\ \A n \in DOMAIN chunk : chunk[n] = q[n]
       /\ rest \in Seq(T)
       /\ \A n \in DOMAIN rest : n + Chunk \in DOMAIN q /\ rest[n] = q[n + Chunk]
       /\ \A n \in DOMAIN q : n > Chunk => n - Chunk \in DOMAIN rest /\ rest[n - Chunk] = q[n]
  <2>1. rest = SubSeq(q, Chunk + 1, Len(q)) /\ chunk = NextChunk(q)
    BY <1>4
  <2>2. QED
    <3>1. Splits(T, q, rest)
      BY <1>33, <2>1, ChunkFacts, Zenon
    <3>2. QED
      BY <2>1, <3>1 DEF Splits
<1>13. Chunk \in Nat /\ DOMAIN q \subseteq Nat /\ DOMAIN rest \subseteq Nat
  BY <1>33, <1>12, TraceFacts
<1>14. \A n \in DOMAIN q : q[n].id \in ids /\ q[n].cost \in Nat
  <2>1. \A n \in DOMAIN q : q[n] \in T
    BY <1>33
  <2>2. QED
    BY <1>11, <2>1
<1>15. /\ k.left = {}
       /\ \A n \in DOMAIN q : /\ q[n].id \in ids /\ k.snap[q[n].id].tokens > 0
                              /\ ~k.edited => q[n].cost = JobCalc(k.snap[q[n].id])
       /\ \A n, m \in DOMAIN q : q[n].id = q[m].id => n = m
       /\ \A i \in ids :
            ~k.edited /\ Repriced(k.snap[i])
            => rows[i].cost = JobCalc(k.snap[i]) \/ \E n \in DOMAIN q : q[n].id = i
  BY <1>1, <1>2, <1>3 DEF JobFits, ChangesFit
<1>16. /\ rows \in Seq(Row) /\ Len(rows) \in Nat /\ DOMAIN rows = 1 .. Len(rows)
       /\ \A i \in DOMAIN rows : rows[i] \in Row
  BY RowsHold DEF RowsFit
<1>17. /\ DOMAIN rows' = DOMAIN rows
       /\ \A i \in DOMAIN rows : (\A n \in DOMAIN chunk : chunk[n].id # i) => rows'[i] = rows[i]
  BY <1>6
<1>18. ASSUME NEW n \in DOMAIN chunk, q[n].id \in DOMAIN rows
       PROVE  rows'[q[n].id] = [rows[q[n].id] EXCEPT !.cost = q[n].cost]
  <2>1. PICK i : i = q[n].id /\ i = chunk[n].id
    BY <1>12
  <2>2. n = CHOOSE m \in DOMAIN chunk : chunk[m].id = i
    <3>1. \A m \in DOMAIN chunk : chunk[m].id = i => m = n
      BY <1>12, <1>15, <1>18, <2>1
    <3>2. PICK m : m = CHOOSE x \in DOMAIN chunk : chunk[x].id = i
      OBVIOUS
    <3>3. m \in DOMAIN chunk /\ chunk[m].id = i
      BY <1>18, <2>1, <3>2
    <3>4. QED
      BY <3>1, <3>2, <3>3
  <2>3. rows'[i] = [rows[i] EXCEPT !.cost = chunk[CHOOSE m \in DOMAIN chunk : chunk[m].id = i].cost]
    BY <1>6, <1>18, <2>1
  <2>4. chunk[n].cost = q[n].cost
    BY <1>12
  <2>5. QED
    BY <2>1, <2>2, <2>3, <2>4
<1>19. \A i \in DOMAIN rows : /\ rows'[i] \in Row /\ rows'[i].req = rows[i].req
                              /\ rows'[i].tokens = rows[i].tokens
  <2> SUFFICES ASSUME NEW i \in DOMAIN rows
               PROVE  rows'[i] \in Row /\ rows'[i].req = rows[i].req /\ rows'[i].tokens = rows[i].tokens
    OBVIOUS
  <2>1. CASE \A n \in DOMAIN chunk : chunk[n].id # i
    BY <1>16, <1>17, <2>1
  <2>2. ASSUME NEW n \in DOMAIN chunk, chunk[n].id = i
        PROVE  rows'[i] \in Row /\ rows'[i].req = rows[i].req /\ rows'[i].tokens = rows[i].tokens
    <3>1. PICK u, c : u = rows[i] /\ c = q[n].cost
      OBVIOUS
    <3>2. u \in Row /\ c \in Nat
      BY <1>12, <1>14, <1>16, <2>2, <3>1
    <3>3. PICK v : v = [u EXCEPT !.cost = c]
      OBVIOUS
    <3>4. v \in Row /\ v.req = u.req /\ v.tokens = u.tokens
      BY <3>2, <3>3 DEF Row
    <3>5. rows'[i] = v
      BY <1>12, <1>18, <2>2, <3>1, <3>3
    <3>6. QED
      BY <3>1, <3>4, <3>5
  <2>3. QED
    BY <2>1, <2>2
<1>20. rows' \in Seq(Row)
  <2>1. rows' = [i \in 1 .. Len(rows) |-> rows'[i]]
    BY <1>6, <1>16, <1>17
  <2>2. \A i \in 1 .. Len(rows) : rows'[i] \in Row
    BY <1>16, <1>19
  <2>3. QED
    BY <1>16, <2>1, <2>2
<1>21. \A i \in ids : /\ i \in DOMAIN rows /\ rows[i].req = k.snap[i].req
                      /\ k.snap[i].tokens > 0 => stage[rows[i].req] \in Done
  BY <1>2 DEF JobFits, CopyFits
<1>22. \A n \in DOMAIN chunk : n \in DOMAIN q /\ chunk[n].id = q[n].id /\ rows'[q[n].id].cost = q[n].cost
  <2> SUFFICES ASSUME NEW n \in DOMAIN chunk
               PROVE  n \in DOMAIN q /\ chunk[n].id = q[n].id /\ rows'[q[n].id].cost = q[n].cost
    OBVIOUS
  <2>1. n \in DOMAIN q /\ chunk[n].id = q[n].id /\ q[n].id \in ids /\ q[n].cost \in Nat
    BY <1>12, <1>14
  <2>2. PICK u, c, i : i = q[n].id /\ u = rows[i] /\ c = q[n].cost
    OBVIOUS
  <2>8. i \in DOMAIN rows
    <3>1. i \in ids
      BY <2>1, <2>2
    <3>2. QED
      BY <1>21, <3>1, Zenon
  <2>3. i \in DOMAIN rows /\ u \in Row
    BY <1>16, <2>2, <2>8
  <2>4. PICK v : v = [u EXCEPT !.cost = c]
    OBVIOUS
  <2>5. v.cost = c
    BY <2>3, <2>4 DEF Row
  <2>6. rows'[i] = v
    BY <1>18, <2>2, <2>3, <2>4
  <2>7. QED
    BY <2>1, <2>2, <2>5, <2>6
<1>23. \A i \in DOMAIN rows : stage[rows[i].req] \notin Done => rows'[i] = rows[i]
  <2> SUFFICES ASSUME NEW i \in DOMAIN rows, stage[rows[i].req] \notin Done
               PROVE  rows'[i] = rows[i]
    OBVIOUS
  <2>1. ASSUME NEW n \in DOMAIN chunk, chunk[n].id = i
        PROVE  FALSE
    <3>1. n \in DOMAIN q /\ q[n].id = i
      BY <1>22, <2>1
    <3>2. i \in ids /\ k.snap[i].tokens > 0
      BY <1>15, <3>1
    <3>3. stage[rows[i].req] \in Done
      <4>1. k.snap[i].tokens > 0
        BY <3>2
      <4>2. QED
        BY <1>21, <3>2, <4>1, Zenon
    <3>4. QED
      BY <3>3
  <2>2. QED
    BY <1>17, <2>1
<1>24. RowsFit'
  <2>1. \A i \in DOMAIN rows' : stage'[rows'[i].req] \notin Done => rows'[i].tokens = 0 /\ rows'[i].cost = 0
    BY <1>1, <1>17, <1>19, <1>23 DEF RowsFit
  <2>2. \A r \in Requests : Trace[r].client = Codex /\ stage'[r] \in {"anchored", "priced"}
                            => \E i \in DOMAIN rows' : rows'[i].req = r
    BY <1>1, <1>17, <1>19 DEF RowsFit
  <2>3. /\ rate' \in [Models -> Rates]
        /\ stage' \in [Requests -> {"new", "anchored", "priced", "stored", "told"}]
        /\ bill' \in [Requests -> Nat]
        /\ edits' \in 0 .. MaxEdits /\ recomputes' \in 0 .. MaxRecomputes
    BY <1>1 DEF RowsFit
  <2>4. QED
    BY <1>1, <1>20, <2>1, <2>2, <2>3, Zenon DEF RowsFit
<1>25. s \in {"rebuild", "apply"} /\ (s = "rebuild" => rest = <<>>)
  BY <1>7
<1>26. /\ j \in JobSet(ids) /\ j.left = k.left /\ j.changes = rest /\ j.step = s
       /\ j.snap = k.snap /\ j.tool = k.tool /\ j.prices = k.prices /\ j.edited = k.edited
  <2>1. PICK m : m = [k EXCEPT !.changes = rest]
    OBVIOUS
  <2>2. rest \in Seq([id: ids, cost: Nat])
    BY <1>11, <1>12
  <2>3. /\ m \in JobSet(ids) /\ m.left = k.left /\ m.changes = rest /\ m.step = k.step
        /\ m.snap = k.snap /\ m.tool = k.tool /\ m.prices = k.prices /\ m.edited = k.edited
    BY <1>2, <2>1, <2>2 DEF JobSet
  <2>4. j = [m EXCEPT !.step = s]
    BY <1>8, <1>9, <2>1
  <2>5. /\ j \in JobSet(ids) /\ j.left = m.left /\ j.changes = m.changes /\ j.step = s
        /\ j.snap = m.snap /\ j.tool = m.tool /\ j.prices = m.prices /\ j.edited = m.edited
    BY <1>25, <2>3, <2>4 DEF JobSet
  <2>6. QED
    BY <2>3, <2>5
<1>27. \A x : JobCalc(x)' = JobCalc(x) /\ Repriced(x)' = Repriced(x)
  BY <1>1, <1>2, <1>9, <1>26 DEF JobCalc, Repriced
<1>28. CopyFits'
  <2>1. job'.snap = k.snap /\ job'.left = {} /\ DOMAIN k.snap = ids
    BY <1>9, <1>10, <1>15, <1>26
  <2>2. QED
    <3>1. /\ job'.left \subseteq ids
          /\ \A i \in ids : /\ i \in DOMAIN rows' /\ rows'[i].req = k.snap[i].req
                            /\ k.snap[i].tokens > 0 => stage'[rows'[i].req] \in Done
      <4>1. job'.left \subseteq ids
        BY <2>1
      <4>2. \A i \in ids : i \in DOMAIN rows' /\ rows'[i].req = rows[i].req
        BY <1>17, <1>19, <1>21
      <4>3. stage' = stage
        BY <1>1
      <4>4. QED
        BY <1>21, <4>1, <4>2, <4>3
    <3>2. PICK d : d = job' /\ d.snap = k.snap /\ d.left = {}
      BY <2>1
    <3>4. \A i \in ids : k.snap[i].tokens > 0 => stage'[k.snap[i].req] \in Done
      BY <3>1
    <3>3. QED
      BY <2>1, <3>1, <3>2, <3>4 DEF CopyFits
<1>29. /\ \A n, m \in DOMAIN rest : rest[n].id = rest[m].id => n = m
       /\ \A n \in DOMAIN rest : /\ rest[n].id \in ids /\ k.snap[rest[n].id].tokens > 0
                                 /\ ~k.edited => rest[n].cost = JobCalc(k.snap[rest[n].id])
  BY <1>12, <1>13, <1>15
<1>30. ASSUME NEW i \in ids, ~k.edited, Repriced(k.snap[i])
       PROVE  rows'[i].cost = JobCalc(k.snap[i]) \/ \E n \in DOMAIN rest : rest[n].id = i
  <2>1. CASE \E n \in DOMAIN q : q[n].id = i
    <3>1. PICK n \in DOMAIN q : q[n].id = i
      BY <2>1
    <3>2. CASE n <= Chunk
      <4>1. n \in DOMAIN chunk
        BY <1>12, <3>2
      <4>2. QED
        BY <1>15, <1>22, <1>30, <3>1, <4>1
    <3>3. CASE n > Chunk
      <4>1. n - Chunk \in DOMAIN rest /\ rest[n - Chunk] = q[n]
        BY <1>12, <3>3
      <4>2. QED
        BY <3>1, <4>1
    <3>4. QED
      BY <1>13, <3>2, <3>3
  <2>2. CASE \A n \in DOMAIN q : q[n].id # i
    <3>1. rows[i].cost = JobCalc(k.snap[i])
      BY <1>15, <1>30, <2>2
    <3>4. \A n \in DOMAIN chunk : chunk[n].id # i
      BY <1>22, <2>2
    <3>2. rows'[i] = rows[i]
      <4>1. i \in DOMAIN rows
        BY <1>21, Zenon
      <4>2. QED
        BY <1>17, <3>4, <4>1, Zenon
    <3>3. QED
      BY <3>1, <3>2
  <2>3. QED
    BY <2>1, <2>2
<1>31. ChangesFit'
  <2>1. /\ job'.step = s /\ job'.snap = k.snap /\ job'.left = {} /\ job'.changes = rest
        /\ job'.edited = k.edited /\ DOMAIN k.snap = ids
    BY <1>9, <1>10, <1>15, <1>26
  <2>2. QED
    BY <1>25, <1>27, <1>29, <1>30, <2>1 DEF ChangesFit
<1>32. QED
  BY <1>9, <1>10, <1>24, <1>26, <1>28, <1>31 DEF JobFits

LEMMA IngestFits ==
    ASSUME RowsFit, JobFits, NEW r \in Requests, Ingest(r)
    PROVE  RowsFit' /\ JobFits'
BY AnchorFits, PriceFits, StoreFits DEF Ingest

LEMMA RecomputeFits ==
    ASSUME RowsFit, JobFits, Recompute
    PROVE  RowsFit' /\ JobFits'
<1>1. CASE StartRecompute
  <2>1. TRUE \in BOOLEAN /\ FALSE \in BOOLEAN
    OBVIOUS
  <2>2. PICK w : w = <<0, Midnight[LastDay + 1]>>
    OBVIOUS
  <2>3. Begin(w, TRUE, FALSE)
    BY <1>1, <2>2 DEF StartRecompute
  <2>4. QED
    BY <2>1, <2>3, BeginFits
<1>2. CASE RunTool
  <2>1. PICK w : \E write \in BOOLEAN : Begin(w, write, TRUE)
    BY <1>2 DEF RunTool
  <2>2. PICK write \in BOOLEAN : Begin(w, write, TRUE)
    BY <2>1
  <2>3. QED
    BY <2>2, BeginFits
<1>3. CASE ScanRow
  BY <1>3, ScanFits
<1>4. CASE ScanEnds
  BY <1>4, ScanEndFits
<1>5. CASE ApplyChunk
  BY <1>5, ApplyFits
<1>6. CASE RebuildAgg \/ Interrupt
  BY <1>6, EndFits
<1>7. QED
  BY <1>1, <1>2, <1>3, <1>4, <1>5, <1>6 DEF Recompute

LEMMA CostStands ==
    ASSUME RowsFit, JobFits, UNCHANGED costVars
    PROVE  RowsFit' /\ JobFits'
<1>1. /\ rows' = rows /\ rate' = rate /\ stage' = stage /\ bill' = bill /\ job' = job
      /\ stale' = stale /\ edits' = edits /\ recomputes' = recomputes
  BY Zenon DEF costVars
<1>2. RowsFit'
  BY <1>1 DEF RowsFit
<1>3. JobFits'
  BY <1>1, JobStands
<1>4. QED
  BY <1>2, <1>3

\* Announcements are the only step of the dashboard that touches the ledger.
LEMMA NextSplits ==
    ASSUME [Next]_vars
    PROVE  \/ \E r \in Requests : Ingest(r)
           \/ \E m \in Models, p \in Rates : EditPrice(m, p)
           \/ Recompute
           \/ \E r \in Requests : Announce(r)
           \/ UNCHANGED costVars
<1>1. CASE Paging \/ Browser \/ UNCHANGED vars
  BY <1>1 DEF Paging, Browser, vars, StartWalk, CountPage, ReadPage, Greet, Subscribe, PushEvent,
     Unsubscribe, runScheduledRefresh, AnswerRefresh, EndRefresh
<1>2. QED
  BY <1>1 DEF Next, Ledger

LEMMA CostStep ==
    ASSUME RowsFit, JobFits, [Next]_vars
    PROVE  RowsFit' /\ JobFits'
<1>1. CASE \E r \in Requests : Ingest(r)
  BY <1>1, IngestFits
<1>2. CASE \E m \in Models, p \in Rates : EditPrice(m, p)
  BY <1>2, EditFits
<1>3. CASE Recompute
  BY <1>3, RecomputeFits
<1>4. CASE \E r \in Requests : Announce(r)
  <2>1. PICK r \in Requests : Announce(r)
    BY <1>4
  <2>2. /\ stage[r] = "stored" /\ stage' = [stage EXCEPT ![r] = "told"]
        /\ UNCHANGED <<rows, agg, rate, bill, job, stale, edits, recomputes>>
    BY <2>1 DEF Announce
  <2>3. QED
    BY <2>2, ToldFits
<1>5. CASE UNCHANGED costVars
  BY <1>5, CostStands
<1>6. QED
  BY <1>1, <1>2, <1>3, <1>4, <1>5, NextSplits

\* Once its chunks are written, every row a recompute was to reprice has the cost
\* of the price table, whatever was stored meanwhile, unless a price was edited:
\* the changes list each row of the copy once, a row that gains tokens during the
\* scan was not to be repriced, and chunks lose no change (runRecompute).
THEOREM DashboardRecomputeReprices == Spec => []RecomputeReprices
<1>1. Init => RowsFit /\ JobFits
  BY RowsBegin DEF Init
<1>2. RowsFit /\ JobFits /\ [Next]_vars => RowsFit' /\ JobFits'
  BY CostStep
<1>3. JobFits => RecomputeReprices
  <2> SUFFICES ASSUME JobFits, job.step = "rebuild", ~job.edited,
                      NEW i \in DOMAIN job.snap, Repriced(job.snap[i])
               PROVE  rows[i].cost = JobCalc(job.snap[i])
    BY DEF RecomputeReprices
  <2>1. job.left = {} /\ job.changes = <<>>
    BY DEF JobFits, ChangesFit
  <2>2. i \in DOMAIN job.snap \ job.left /\ DOMAIN job.changes = {}
    BY <2>1
  <2>3. QED
    BY <2>2 DEF JobFits, ChangesFit
<1>4. QED
  BY <1>1, <1>2, <1>3, PTL DEF Spec

-----------------------------------------------------------------------------
(* The calendar.                                                            *)

LEMMA MidnightGrows ==
    ASSUME NEW d \in 1 .. LastDay + 1, NEW e \in 1 .. LastDay + 1, d <= e
    PROVE  Midnight[d] <= Midnight[e]
<1>1. PICK N : N = {n \in Nat : d + n <= LastDay + 1 => Midnight[d] <= Midnight[d + n]}
  OBVIOUS
<1>2. 0 \in N
  BY <1>1, TraceFacts
<1>3. ASSUME NEW n \in Nat, n \in N
      PROVE  n + 1 \in N
  <2> SUFFICES ASSUME d + (n + 1) <= LastDay + 1
               PROVE  Midnight[d] <= Midnight[d + (n + 1)]
    BY <1>1
  <2>1. d + n \in Days /\ d + n <= LastDay + 1 /\ d + (n + 1) = (d + n) + 1
    BY TraceFacts
  <2>2. Midnight[d] <= Midnight[d + n]
    BY <1>1, <1>3, <2>1
  <2>3. Midnight[d + n] < Midnight[(d + n) + 1]
    BY <2>1, TraceFacts
  <2>4. Midnight[d] \in Nat /\ Midnight[d + n] \in Nat /\ Midnight[(d + n) + 1] \in Nat
    BY <2>1, TraceFacts
  <2>5. QED
    BY <2>1, <2>2, <2>3, <2>4
<1>4. Nat \subseteq N
  BY <1>2, <1>3, CountingUp
<1>5. e - d \in Nat /\ d + (e - d) = e
  BY TraceFacts
<1>6. QED
  BY <1>1, <1>4, <1>5

\* An instant of the calendar is on exactly the day it is said to be on.
LEMMA DayFound ==
    ASSUME NEW t \in Nat, Midnight[1] <= t, t < Midnight[LastDay + 1]
    PROVE  DayOf(t) \in Days /\ Midnight[DayOf(t)] <= t /\ t < Midnight[DayOf(t) + 1]
<1>1. \E d \in Days : Midnight[d] <= t /\ t < Midnight[d + 1]
  <2> SUFFICES ASSUME \A d \in Days : ~(Midnight[d] <= t /\ t < Midnight[d + 1])
               PROVE  FALSE
    OBVIOUS
  <2>1. PICK N : N = {n \in Nat : n <= LastDay => Midnight[n + 1] <= t}
    OBVIOUS
  <2>2. 0 \in N
    BY <2>1
  <2>3. ASSUME NEW n \in Nat, n \in N
        PROVE  n + 1 \in N
    <3> SUFFICES ASSUME n + 1 <= LastDay
                 PROVE  Midnight[(n + 1) + 1] <= t
      BY <2>1
    <3>1. PICK m : m = n + 1
      OBVIOUS
    <3>2. m \in Days /\ m + 1 \in 1 .. LastDay + 1
      BY <3>1, TraceFacts
    <3>3. Midnight[m] <= t
      BY <2>1, <2>3, <3>1, <3>2, TraceFacts
    <3>4. ~(t < Midnight[m + 1])
      BY <3>2, <3>3
    <3>5. Midnight[m + 1] \in Nat
      BY <3>2, TraceFacts
    <3>6. QED
      BY <3>1, <3>4, <3>5
  <2>4. LastDay \in N
    BY <2>2, <2>3, CountingUp, TraceFacts
  <2>5. Midnight[LastDay + 1] <= t /\ Midnight[LastDay + 1] \in Nat
    BY <2>1, <2>4, TraceFacts
  <2>6. QED
    BY <2>5
<1>2. PICK d : d = CHOOSE x \in Days : Midnight[x] <= t /\ t < Midnight[x + 1]
  OBVIOUS
<1>3. d \in Days /\ Midnight[d] <= t /\ t < Midnight[d + 1]
  BY <1>1, <1>2
<1>4. QED
  BY <1>2, <1>3 DEF DayOf

\* The bounds of a range of days are the days.
LEMMA DayBounds ==
    ASSUME NEW t \in Nat, Midnight[1] <= t, t < Midnight[LastDay + 1],
           NEW from \in Days, NEW to \in Days
    PROVE  Midnight[from] <= t /\ t < Midnight[to + 1] <=> DayOf(t) \in from .. to
<1>1. PICK d : d = DayOf(t)
  OBVIOUS
<1>2. d \in Days /\ Midnight[d] <= t /\ t < Midnight[d + 1]
  BY <1>1, DayFound
<1>3. /\ d \in 1 .. LastDay + 1 /\ d + 1 \in 1 .. LastDay + 1 /\ from \in 1 .. LastDay + 1
      /\ to + 1 \in 1 .. LastDay + 1 /\ d \in Nat /\ from \in Nat /\ to \in Nat
  BY <1>2, TraceFacts
<1>4. /\ Midnight[d] \in Nat /\ Midnight[d + 1] \in Nat /\ Midnight[from] \in Nat
      /\ Midnight[to + 1] \in Nat
  BY <1>3, TraceFacts
<1>5. from <= d => Midnight[from] <= t
  BY <1>2, <1>3, <1>4, MidnightGrows
<1>6. d <= to => t < Midnight[to + 1]
  <2>1. d <= to => d + 1 <= to + 1
    BY <1>3
  <2>2. d <= to => Midnight[d + 1] <= Midnight[to + 1]
    BY <1>3, <2>1, MidnightGrows
  <2>3. QED
    BY <1>2, <1>4, <2>2
<1>7. d < from => t < Midnight[from]
  <2>1. d < from => d + 1 <= from
    BY <1>3
  <2>2. d < from => Midnight[d + 1] <= Midnight[from]
    BY <1>3, <2>1, MidnightGrows
  <2>3. QED
    BY <1>2, <1>4, <2>2
<1>8. to < d => Midnight[to + 1] <= t
  <2>1. to < d => to + 1 <= d
    BY <1>3
  <2>2. to < d => Midnight[to + 1] <= Midnight[d]
    BY <1>3, <2>1, MidnightGrows
  <2>3. QED
    BY <1>2, <1>4, <2>2
<1>9. (Midnight[from] <= t /\ t < Midnight[to + 1]) <=> d \in from .. to
  BY <1>3, <1>4, <1>5, <1>6, <1>7, <1>8
<1>10. QED
  BY <1>1, <1>9

LEMMA KeyHolds ==
    ASSUME NEW r \in Requests
    PROVE  /\ DayOf(Trace[r].at) \in Days
           /\ KeyOf(r) \in AggKeys
           /\ KeyOf(r)[1] = DayOf(Trace[r].at) /\ KeyOf(r)[2] = Trace[r].client
           /\ KeyOf(r)[3] = Trace[r].model
<1>1. DayOf(Trace[r].at) \in Days
  BY TraceFacts, DayFound
<1>2. QED
  BY <1>1, TraceFacts DEF KeyOf, AggKeys

-----------------------------------------------------------------------------
(* The figures of rows.                                                     *)

Use(R) == [i \in DOMAIN R |-> [requests |-> 1, tokens |-> R[i].tokens, cost |-> R[i].cost]]
KeysIn(R, k) == {i \in DOMAIN R : KeyOf(R[i].req) = k}
UseOf(R, k) == Tally(Use(R), KeysIn(R, k))

\* From R to Q the figures of a key, and of no other, change by d.
Moves(R, Q, key, d) == \A k : UseOf(Q, k) = IF key = k THEN Plus(UseOf(R, k), d) ELSE UseOf(R, k)

LEMMA SeqFacts ==
    ASSUME NEW R \in Seq(Row)
    PROVE  /\ Len(R) \in Nat /\ DOMAIN R = 1 .. Len(R) /\ IsFiniteSet(DOMAIN R)
           /\ \A i \in DOMAIN R : /\ R[i] \in Row /\ R[i].req \in Requests
                                  /\ R[i].tokens \in Nat /\ R[i].cost \in Nat
<1>1. \A i \in DOMAIN R : R[i] \in Row
  OBVIOUS
<1>2. Len(R) \in Nat /\ DOMAIN R = 1 .. Len(R)
  OBVIOUS
<1>3. IsFiniteSet(1 .. Len(R))
  BY <1>2, FS_Interval
<1>4. QED
  BY <1>1, <1>2, <1>3, RowFacts

LEMMA UseFacts ==
    ASSUME NEW R \in Seq(Row)
    PROVE  \A i \in DOMAIN R : /\ Use(R)[i] = [requests |-> 1, tokens |-> R[i].tokens, cost |-> R[i].cost]
                               /\ Use(R)[i] \in Total /\ Use(R)[i] \in Amount
                               /\ Use(R)[i].requests = 1 /\ Use(R)[i].tokens = R[i].tokens
                               /\ Use(R)[i].cost = R[i].cost
BY SeqFacts DEF Use, Total, Amount

\* COUNT is a sum of ones.
LEMMA OnesCount ==
    ASSUME NEW S, IsFiniteSet(S), NEW f, \A x \in S : f[x] = 1
    PROVE  SumFunctionOnSet(f, S) = Cardinality(S)
<1>1. PICK C : C = {s \in SUBSET S : SumFunctionOnSet(f, s) = Cardinality(s)}
  OBVIOUS
<1>2. {} \in C
  BY <1>1, SumOfNone, FS_EmptySet
<1>3. ASSUME NEW s \in SUBSET S, NEW x \in S, s \in C, x \notin s
      PROVE  s \cup {x} \in C
  <2>1. IsFiniteSet(s) /\ \A y \in s : f[y] \in Int
    BY FS_Subset
  <2>2. f[x] = 1 /\ f[x] \in Int
    OBVIOUS
  <2>3. SumFunctionOnSet(f, s \cup {x}) = SumFunctionOnSet(f, s) + 1
    BY <1>3, <2>1, <2>2, SumGains
  <2>4. Cardinality(s \cup {x}) = Cardinality(s) + 1
    BY <1>3, <2>1, FS_AddElement
  <2>5. SumFunctionOnSet(f, s) = Cardinality(s)
    BY <1>1, <1>3
  <2>6. s \cup {x} \in SUBSET S
    OBVIOUS
  <2>7. QED
    BY <1>1, <2>3, <2>4, <2>5, <2>6
<1>4. S \in C
  BY <1>2, <1>3, SetsGrow
<1>5. QED
  BY <1>1, <1>4

LEMMA TallyOfRows ==
    ASSUME NEW R \in Seq(Row), NEW S \in SUBSET DOMAIN R
    PROVE  /\ IsFiniteSet(S)
           /\ Tally(Use(R), S) = [requests |-> Cardinality(S),
                                  tokens |-> SumFunctionOnSet([x \in S |-> R[x].tokens], S),
                                  cost |-> SumFunctionOnSet([x \in S |-> R[x].cost], S)]
           /\ Tally(Use(R), S) \in Total
           /\ Tally(Use(R), S).requests = Cardinality(S)
<1>1. IsFiniteSet(S)
  BY SeqFacts, FS_Subset
<1>2. PICK U : U = Use(R)
  OBVIOUS
<1>3. \A i \in S : U[i] \in Total /\ U[i].requests = 1 /\ U[i].tokens = R[i].tokens
                   /\ U[i].cost = R[i].cost
  BY <1>2, UseFacts
<1>4. SumFunctionOnSet([x \in S |-> U[x].requests], S) = Cardinality(S)
  <2>1. PICK f : f = [x \in S |-> U[x].requests]
    OBVIOUS
  <2>2. \A x \in S : f[x] = 1
    BY <1>3, <2>1
  <2>3. QED
    BY <1>1, <2>1, <2>2, OnesCount
<1>5. /\ [x \in S |-> U[x].tokens] = [x \in S |-> R[x].tokens]
      /\ [x \in S |-> U[x].cost] = [x \in S |-> R[x].cost]
  BY <1>3
<1>6. Tally(U, S) = [requests |-> Cardinality(S),
                     tokens |-> SumFunctionOnSet([x \in S |-> R[x].tokens], S),
                     cost |-> SumFunctionOnSet([x \in S |-> R[x].cost], S)]
  BY <1>4, <1>5 DEF Tally
<1>7. Tally(U, S) \in Total
  BY <1>1, <1>3, TallyIsTotal
<1>8. QED
  BY <1>1, <1>2, <1>6, <1>7

LEMMA RowTotalsAre ==
    ASSUME rows \in Seq(Row), NEW S \in SUBSET DOMAIN rows
    PROVE  RowTotals(S) = Tally(Use(rows), S)
<1>1. PICK R : R = rows /\ R \in Seq(Row)
  OBVIOUS
<1>2. /\ SumFunction([i \in S |-> R[i].tokens]) = SumFunctionOnSet([x \in S |-> R[x].tokens], S)
      /\ SumFunction([i \in S |-> R[i].cost]) = SumFunctionOnSet([x \in S |-> R[x].cost], S)
  BY DEF SumFunction
<1>3. QED
  BY <1>1, <1>2, TallyOfRows DEF RowTotals

\* A row more.
LEMMA UseGains ==
    ASSUME NEW R \in Seq(Row), NEW Q \in Seq(Row), NEW n, n \notin DOMAIN R,
           DOMAIN Q = DOMAIN R \cup {n}, \A i \in DOMAIN R : Q[i] = R[i]
    PROVE  Moves(R, Q, KeyOf(Q[n].req), Use(Q)[n])
<1> SUFFICES ASSUME NEW k
             PROVE  UseOf(Q, k) = IF KeyOf(Q[n].req) = k THEN Plus(UseOf(R, k), Use(Q)[n])
                                                         ELSE UseOf(R, k)
  BY DEF Moves
<1>1. PICK S : S = KeysIn(R, k)
  OBVIOUS
<1>2. IsFiniteSet(S) /\ S \subseteq DOMAIN R /\ n \notin S
  BY <1>1, SeqFacts, FS_Subset DEF KeysIn
<1>3. KeysIn(Q, k) = IF KeyOf(Q[n].req) = k THEN S \cup {n} ELSE S
  BY <1>1 DEF KeysIn
<1>4. \A i \in DOMAIN R : Use(Q)[i] = Use(R)[i]
  BY DEF Use
<1>5. Tally(Use(Q), S) = Tally(Use(R), S)
  BY <1>2, <1>4, SameTally
<1>6. CASE KeyOf(Q[n].req) = k
  <2>1. \A y \in S \cup {n} : Use(Q)[y] \in Amount
    BY <1>2, UseFacts
  <2>2. Tally(Use(Q), S \cup {n}) = Plus(Tally(Use(Q), S), Use(Q)[n])
    BY <1>2, <2>1, TallyGains
  <2>3. QED
    BY <1>1, <1>3, <1>5, <1>6, <2>2 DEF UseOf
<1>7. CASE KeyOf(Q[n].req) # k
  BY <1>1, <1>3, <1>5, <1>7 DEF UseOf
<1>8. QED
  BY <1>6, <1>7

\* A row with other figures.
LEMMA UseMoves ==
    ASSUME NEW R \in Seq(Row), NEW Q \in Seq(Row), NEW n \in DOMAIN R, DOMAIN Q = DOMAIN R,
           \A i \in DOMAIN R \ {n} : Q[i] = R[i], Q[n].req = R[n].req,
           NEW d \in Amount, Use(Q)[n] = Plus(Use(R)[n], d)
    PROVE  Moves(R, Q, KeyOf(R[n].req), d)
<1> SUFFICES ASSUME NEW k
             PROVE  UseOf(Q, k) = IF KeyOf(R[n].req) = k THEN Plus(UseOf(R, k), d) ELSE UseOf(R, k)
  BY DEF Moves
<1>1. PICK S : S = KeysIn(R, k) \ {n}
  OBVIOUS
<1>2. IsFiniteSet(S) /\ S \subseteq DOMAIN R /\ n \notin S
  BY <1>1, SeqFacts, FS_Subset DEF KeysIn
<1>3. /\ KeysIn(R, k) = IF KeyOf(R[n].req) = k THEN S \cup {n} ELSE S
      /\ KeysIn(Q, k) = IF KeyOf(R[n].req) = k THEN S \cup {n} ELSE S
  BY <1>1 DEF KeysIn
<1>4. \A i \in S : Use(Q)[i] = Use(R)[i]
  BY <1>2 DEF Use
<1>5. Tally(Use(Q), S) = Tally(Use(R), S)
  BY <1>4, SameTally
<1>6. CASE KeyOf(R[n].req) = k
  <2>1. \A y \in S \cup {n} : Use(Q)[y] \in Amount /\ Use(R)[y] \in Amount
    BY <1>2, UseFacts
  <2>2. Tally(Use(Q), S \cup {n}) = Plus(Tally(Use(Q), S), Use(Q)[n])
    BY <1>2, <2>1, TallyGains
  <2>3. Tally(Use(R), S \cup {n}) = Plus(Tally(Use(R), S), Use(R)[n])
    BY <1>2, <2>1, TallyGains
  <2>4. PICK a, b : a = Tally(Use(R), S) /\ b = Use(R)[n]
    OBVIOUS
  <2>5. a \in Amount /\ b \in Amount
    BY <1>2, <2>1, <2>4, TallyCounts
  <2>6. Plus(a, Plus(b, d)) = Plus(Plus(a, b), d)
    BY <2>5 DEF Plus, Amount
  <2>7. QED
    BY <1>3, <1>5, <1>6, <2>2, <2>3, <2>4, <2>6 DEF UseOf
<1>7. CASE KeyOf(R[n].req) # k
  BY <1>3, <1>5, <1>7 DEF UseOf
<1>8. QED
  BY <1>6, <1>7

-----------------------------------------------------------------------------
(* The totals.                                                              *)

AggFits ==
    /\ agg \in [AggKeys -> Total]
    /\ \A k \in AggKeys : /\ agg[k].requests = UseOf(rows, k).requests
                          /\ ~stale => agg[k] = UseOf(rows, k)

LEMMA UseOfFacts ==
    ASSUME NEW R \in Seq(Row), NEW k
    PROVE  /\ UseOf(R, k) \in Total /\ UseOf(R, k) \in Amount
           /\ UseOf(R, k).requests = Cardinality(KeysIn(R, k))
<1>1. PICK S : S = KeysIn(R, k)
  OBVIOUS
<1>2. S \in SUBSET DOMAIN R
  BY <1>1 DEF KeysIn
<1>3. Tally(Use(R), S) \in Total /\ Tally(Use(R), S).requests = Cardinality(S)
  BY <1>2, TallyOfRows
<1>4. QED
  BY <1>1, <1>3, AmountFacts DEF UseOf

LEMMA PlusFacts ==
    \A t, u \in Total : /\ Plus(t, u) \in Total
                        /\ Plus(t, u).requests = t.requests + u.requests
BY DEF Plus, Total

\* What rows gain the totals gain.
LEMMA AggMoves ==
    ASSUME AggFits, rows \in Seq(Row), NEW k0 \in AggKeys, NEW d \in Total,
           agg' = [agg EXCEPT ![k0] = Plus(@, d)], stale' = stale,
           Moves(rows, rows', k0, d)
    PROVE  AggFits'
<1>1. PICK a : a = agg'
  OBVIOUS
<1>2. /\ agg \in [AggKeys -> Total] /\ a = [agg EXCEPT ![k0] = Plus(agg[k0], d)]
      /\ agg[k0] \in Total
  BY <1>1 DEF AggFits
<1>3. Plus(agg[k0], d) \in Total /\ Plus(agg[k0], d).requests = agg[k0].requests + d.requests
  BY <1>2, PlusFacts
<1>4. a \in [AggKeys -> Total]
  BY <1>2, <1>3
<1>5. ASSUME NEW k \in AggKeys
      PROVE  a[k].requests = UseOf(rows', k).requests /\ (~stale => a[k] = UseOf(rows', k))
  <2>1. agg[k].requests = UseOf(rows, k).requests /\ (~stale => agg[k] = UseOf(rows, k))
    BY DEF AggFits
  <2>2. CASE k # k0
    <3>1. a[k] = agg[k] /\ UseOf(rows', k) = UseOf(rows, k)
      BY <1>2, <2>2 DEF Moves
    <3>2. QED
      BY <2>1, <3>1
  <2>3. CASE k = k0
    <3>1. a[k] = Plus(agg[k], d) /\ UseOf(rows', k) = Plus(UseOf(rows, k), d)
      BY <1>2, <2>3 DEF Moves
    <3>2. PICK u : u = UseOf(rows, k) /\ u \in Total
      BY UseOfFacts
    <3>3. Plus(u, d).requests = u.requests + d.requests
      BY <3>2, PlusFacts
    <3>4. a[k].requests = UseOf(rows', k).requests
      BY <1>3, <2>1, <2>3, <3>1, <3>2, <3>3
    <3>5. ~stale => a[k] = UseOf(rows', k)
      BY <2>1, <3>1
    <3>6. QED
      BY <3>4, <3>5
  <2>4. QED
    BY <2>2, <2>3
<1>6. QED
  BY <1>1, <1>4, <1>5 DEF AggFits

LEMMA AggStands ==
    ASSUME AggFits, UNCHANGED <<rows, agg, stale>>
    PROVE  AggFits'
BY DEF AggFits

LEMMA InsertAdds ==
    ASSUME RowsFit, AggFits, NEW r \in Requests, NEW t \in Nat, NEW c \in Nat, InsertRow(r, t, c),
           stale' = stale
    PROVE  AggFits'
<1>1. PICK w : w = [req |-> r, tokens |-> t, cost |-> c]
  OBVIOUS
<1>2. w \in Row /\ w.req = r /\ w.tokens = t /\ w.cost = c
  BY <1>1 DEF Row
<1>3. PICK R, Q, n : R = rows /\ Q = rows' /\ n = Len(R) + 1 /\ R \in Seq(Row) /\ Q = Append(R, w)
  BY <1>1 DEF InsertRow, RowsFit
<1>4. /\ Q \in Seq(Row) /\ DOMAIN R = 1 .. Len(R) /\ DOMAIN Q = 1 .. Len(R) + 1
      /\ Len(R) \in Nat
      /\ \A i \in DOMAIN R : Q[i] = R[i]
      /\ Q[n] = w
  BY <1>2, <1>3
<1>5. n \notin DOMAIN R /\ DOMAIN Q = DOMAIN R \cup {n}
  BY <1>3, <1>4
<1>6. PICK d : d = [requests |-> 1, tokens |-> t, cost |-> c]
  OBVIOUS
<1>7. d \in Total /\ agg' = [agg EXCEPT ![KeyOf(r)] = Plus(@, d)]
  <2>1. d \in Total
    BY <1>6 DEF Total
  <2>2. QED
    BY <1>6, <2>1, Zenon DEF InsertRow
<1>8. Use(Q)[n] = d
  BY <1>2, <1>4, <1>5, <1>6 DEF Use
<1>9. Moves(R, Q, KeyOf(Q[n].req), Use(Q)[n])
  <2>1. R \in Seq(Row) /\ Q \in Seq(Row) /\ \A i \in DOMAIN R : Q[i] = R[i]
    BY <1>3, <1>4, Zenon
  <2>2. QED
    BY <1>5, <2>1, UseGains
<1>10. Moves(rows, rows', KeyOf(r), d)
  BY <1>2, <1>3, <1>4, <1>8, <1>9, Zenon
<1>11. KeyOf(r) \in AggKeys /\ rows \in Seq(Row)
  BY KeyHolds DEF RowsFit
<1>12. QED
  BY <1>7, <1>10, <1>11, AggMoves

LEMMA FinalAdds ==
    ASSUME RowsFit, AggFits, NEW r \in Requests, stage[r] = "priced", Trace[r].client = Codex,
           FinalizeRequest(r), stale' = stale
    PROVE  AggFits'
<1>1. PICK i : i = CHOOSE n \in DOMAIN rows : rows[n].req = r
  OBVIOUS
<1>2. i \in DOMAIN rows /\ rows[i].req = r /\ rows[i].tokens = 0 /\ rows[i].cost = 0
  BY <1>1, FinalFound
<1>3. PICK t, c : t = Trace[r].tokens /\ c = bill[r] /\ t \in Nat /\ c \in Nat
  BY TraceFacts DEF RowsFit
<1>4. /\ rows' = [rows EXCEPT ![i].tokens = t, ![i].cost = c]
      /\ agg' = [agg EXCEPT ![KeyOf(r)] =
                  Plus(@, [requests |-> 0, tokens |-> t - rows[i].tokens, cost |-> c - rows[i].cost])]
  BY <1>1, <1>3, Zenon DEF FinalizeRequest
<1>5. PICK u : u = rows[i]
  OBVIOUS
<1>6. u \in Row /\ u.req = r /\ u.tokens = 0 /\ u.cost = 0
  BY <1>2, <1>5, RowsHold DEF RowsFit
<1>7. PICK v : v = [u EXCEPT !.tokens = t]
  OBVIOUS
<1>8. v \in Row /\ v.req = r /\ v.tokens = t /\ v.cost = 0
  BY <1>3, <1>6, <1>7 DEF Row
<1>9. PICK w : w = [v EXCEPT !.cost = c]
  OBVIOUS
<1>10. w \in Row /\ w.req = r /\ w.tokens = t /\ w.cost = c
  BY <1>3, <1>8, <1>9 DEF Row
<1>11. PICK R, Q : R = rows /\ Q = rows' /\ R \in Seq(Row) /\ Q = [R EXCEPT ![i] = w]
  BY <1>2, <1>4, <1>5, <1>7, <1>9 DEF RowsFit
<1>12. /\ DOMAIN Q = DOMAIN R /\ i \in DOMAIN R
       /\ \A n \in DOMAIN R \ {i} : Q[n] = R[n]
       /\ Q[i] = w /\ R[i] = u
  BY <1>2, <1>5, <1>11
<1>13. Q \in Seq(Row)
  BY <1>10, <1>11, <1>12
<1>14. PICK d : d = [requests |-> 0, tokens |-> t, cost |-> c]
  OBVIOUS
<1>15. d \in Total /\ d \in Amount
  BY <1>3, <1>14 DEF Total, Amount
<1>16. Use(Q)[i] = Plus(Use(R)[i], d)
  <2>1. /\ Use(Q)[i] = [requests |-> 1, tokens |-> t, cost |-> c]
        /\ Use(R)[i] = [requests |-> 1, tokens |-> 0, cost |-> 0]
    BY <1>6, <1>10, <1>12 DEF Use
  <2>2. QED
    BY <1>3, <1>14, <2>1 DEF Plus
<1>17. Moves(R, Q, KeyOf(R[i].req), d)
  <2>1. Q[i].req = R[i].req
    BY <1>6, <1>10, <1>12
  <2>2. QED
    <3>1. R \in Seq(Row) /\ i \in DOMAIN R /\ d \in Amount
      BY <1>11, <1>12, <1>15, Zenon
    <3>2. DOMAIN Q = DOMAIN R /\ \A n \in DOMAIN R \ {i} : Q[n] = R[n]
      BY <1>12, Zenon
    <3>3. QED
      BY <1>13, <1>16, <2>1, <3>1, <3>2, UseMoves
<1>18. Moves(rows, rows', KeyOf(r), d)
  BY <1>6, <1>11, <1>12, <1>17, Zenon
<1>19. agg' = [agg EXCEPT ![KeyOf(r)] = Plus(@, d)]
  <2>1. t - rows[i].tokens = t /\ c - rows[i].cost = c
    BY <1>2, <1>3
  <2>2. QED
    BY <1>4, <1>14, <2>1, Zenon
<1>20. KeyOf(r) \in AggKeys /\ rows \in Seq(Row)
  BY KeyHolds DEF RowsFit
<1>21. QED
  BY <1>15, <1>18, <1>19, <1>20, AggMoves

LEMMA ChunkKeepsCount ==
    ASSUME RowsFit, RowsFit', AggFits, ApplyChunk
    PROVE  AggFits'
<1>1. agg' = agg /\ stale' = TRUE
  BY DEF ApplyChunk
<1>2. PICK chunk : rows' = [i \in DOMAIN rows |->
                  IF \E n \in DOMAIN chunk : chunk[n].id = i
                  THEN [rows[i] EXCEPT !.cost =
                          chunk[CHOOSE n \in DOMAIN chunk : chunk[n].id = i].cost]
                  ELSE rows[i]]
  BY Zenon DEF ApplyChunk
<1>3. PICK R, Q : R = rows /\ Q = rows' /\ R \in Seq(Row) /\ Q \in Seq(Row)
  BY DEF RowsFit
<1>4. DOMAIN Q = DOMAIN R
  BY <1>2, <1>3
<1>5. \A i \in DOMAIN R : Q[i].req = R[i].req
  <2> SUFFICES ASSUME NEW i \in DOMAIN R
               PROVE  Q[i].req = R[i].req
    OBVIOUS
  <2>1. PICK u, c : u = R[i] /\ c = chunk[CHOOSE n \in DOMAIN chunk : chunk[n].id = i].cost
    OBVIOUS
  <2>2. u \in Row
    BY <1>3, <2>1, SeqFacts
  <2>3. PICK v : v = [u EXCEPT !.cost = c]
    OBVIOUS
  <2>4. v.req = u.req
    BY <2>2, <2>3 DEF Row
  <2>5. Q[i] = v \/ Q[i] = u
    BY <1>2, <1>3, <2>1, <2>3, Zenon
  <2>6. QED
    BY <2>1, <2>4, <2>5
<1>6. ASSUME NEW k
      PROVE  UseOf(Q, k).requests = UseOf(R, k).requests
  <2>1. KeysIn(Q, k) = KeysIn(R, k)
    BY <1>4, <1>5 DEF KeysIn
  <2>2. QED
    BY <1>3, <2>1, UseOfFacts
<1>7. QED
  BY <1>1, <1>3, <1>6 DEF AggFits

LEMMA RebuildFits ==
    ASSUME RowsFit, RebuildAgg
    PROVE  AggFits'
<1>1. agg' = FromRows /\ rows' = rows /\ rows \in Seq(Row)
  BY DEF RebuildAgg, RowsFit
<1>2. ASSUME NEW k \in AggKeys
      PROVE  FromRows[k] = UseOf(rows, k)
  <2>1. PICK S : S = KeysIn(rows, k) /\ S \in SUBSET DOMAIN rows
    BY DEF KeysIn
  <2>2. RowTotals(S) = Tally(Use(rows), S)
    BY <1>1, <2>1, RowTotalsAre
  <2>3. FromRows[k] = RowTotals(S)
    BY <2>1 DEF FromRows, KeysIn
  <2>4. QED
    BY <2>1, <2>2, <2>3 DEF UseOf
<1>3. PICK a : a = agg' /\ DOMAIN a = AggKeys /\ a = [k \in AggKeys |-> a[k]]
  BY <1>1 DEF FromRows
<1>4. \A k \in AggKeys : a[k] = UseOf(rows', k) /\ a[k] \in Total
  BY <1>1, <1>2, <1>3, UseOfFacts
<1>5. a \in [AggKeys -> Total]
  BY <1>3, <1>4
<1>6. QED
  BY <1>3, <1>4, <1>5 DEF AggFits

LEMMA AggBegins ==
    ASSUME CostInit
    PROVE  AggFits
<1>1. PICK R : R = rows /\ R = <<>> /\ DOMAIN R = {}
  BY DEF CostInit
<1>2. \A k : UseOf(R, k) = NoUse
  <2>1. \A k : KeysIn(R, k) = {}
    BY <1>1 DEF KeysIn
  <2>2. QED
    BY <2>1, TallyOfNone DEF UseOf
<1>3. NoUse \in Total
  BY DEF NoUse, Total
<1>4. agg = [k \in AggKeys |-> NoUse]
  BY DEF CostInit
<1>5. QED
  BY <1>1, <1>2, <1>3, <1>4 DEF AggFits

LEMMA AggStep ==
    ASSUME RowsFit, JobFits, RowsFit', AggFits, [Next]_vars
    PROVE  AggFits'
<1>1. ASSUME NEW r \in Requests, Ingest(r)
      PROVE  AggFits'
  <2>1. CASE AnchorRequest(r)
    BY <2>1, InsertAdds DEF AnchorRequest
  <2>2. CASE PriceRequest(r)
    BY <2>2, AggStands DEF PriceRequest
  <2>3. CASE StoreRequest(r)
    <3>1. stage[r] = "priced" /\ stale' = stale
      BY <2>3 DEF StoreRequest
    <3>2. CASE Trace[r].client = Codex
      BY <2>3, <3>1, <3>2, FinalAdds DEF StoreRequest
    <3>3. CASE Trace[r].client # Codex
      <4>1. InsertRow(r, Trace[r].tokens, bill[r])
        BY <2>3, <3>3 DEF StoreRequest
      <4>2. Trace[r].tokens \in Nat /\ bill[r] \in Nat
        BY TraceFacts DEF RowsFit
      <4>3. QED
        BY <3>1, <4>1, <4>2, InsertAdds
    <3>4. QED
      BY <3>2, <3>3
  <2>4. QED
    BY <1>1, <2>1, <2>2, <2>3 DEF Ingest
<1>2. ASSUME NEW m \in Models, NEW p \in Rates, EditPrice(m, p)
      PROVE  AggFits'
  BY <1>2, AggStands DEF EditPrice
<1>3. CASE Recompute
  <2>1. CASE StartRecompute \/ RunTool
    BY <2>1, AggStands DEF StartRecompute, RunTool, Begin
  <2>2. CASE ScanRow \/ ScanEnds \/ Interrupt
    BY <2>2, AggStands DEF ScanRow, ScanEnds, Interrupt
  <2>3. CASE ApplyChunk
    BY <2>3, ChunkKeepsCount
  <2>4. CASE RebuildAgg
    BY <2>4, RebuildFits
  <2>5. QED
    BY <1>3, <2>1, <2>2, <2>3, <2>4 DEF Recompute
<1>4. ASSUME NEW r \in Requests, Announce(r)
      PROVE  AggFits'
  BY <1>4, AggStands DEF Announce
<1>5. CASE UNCHANGED costVars
  <2>1. rows' = rows /\ agg' = agg /\ stale' = stale
    BY <1>5, Zenon DEF costVars
  <2>2. QED
    BY <2>1, AggStands
<1>6. QED
  BY <1>1, <1>2, <1>3, <1>4, <1>5, NextSplits

-----------------------------------------------------------------------------
(* Queries on rows and on totals.                                           *)

LEMMA FullFacts ==
    ASSUME NEW q \in Full
    PROVE  /\ ~Rejected(q) /\ BothOrRange(q) = Override(q)
           /\ Override(q) = <<Override(q)[1], Override(q)[2]>>
           /\ Override(q)[1] \in Days /\ Override(q)[2] \in Days
<1>1. Today \in Days /\ 1 \in Days /\ LastDay \in Nat /\ Days = 1 .. LastDay
  BY QueryAssumption, TraceFacts
<1>2. CASE q \in [range: {"all"}, from: {NoDate}, to: {NoDate}]
  <2>1. q.range = "all" /\ q.from = NoDate /\ q.to = NoDate
    BY <1>2
  <2>2. rangeToFromTo("all") = <<1, Today>>
    BY DEF rangeToFromTo
  <2>3. Override(q) = <<1, Today>> /\ BothOrRange(q) = <<1, Today>>
    BY <2>1, <2>2 DEF Override, BothOrRange
  <2>4. ~Rejected(q)
    BY <1>1, <2>1 DEF Rejected, NoDate, BadDate
  <2>5. QED
    BY <1>1, <2>3, <2>4
<1>3. CASE q \in [range: {"today"}, from: Days, to: Days]
  <2>1. q.from \in Days /\ q.to \in Days
    BY <1>3
  <2>2. q.from # NoDate /\ q.to # NoDate /\ ~Rejected(q)
    BY <1>1, <2>1 DEF Rejected, NoDate, BadDate
  <2>3. Override(q) = <<q.from, q.to>> /\ BothOrRange(q) = <<q.from, q.to>>
    BY <2>2 DEF Override, BothOrRange
  <2>4. QED
    BY <2>1, <2>2, <2>3
<1>4. QED
  BY <1>2, <1>3 DEF Full

\* The rows of a range of days are those whose key has a day of it.
LEMMA RangeIs ==
    ASSUME rows \in Seq(Row), NEW from \in Days, NEW to \in Days, NEW svc
    PROVE  InRange(from, to, svc) = {i \in DOMAIN rows : /\ KeyOf(rows[i].req)[1] \in from .. to
                                                         /\ KeyOf(rows[i].req)[2] \in svc}
<1>1. ASSUME NEW i \in DOMAIN rows
      PROVE  i \in InRange(from, to, svc) <=> /\ KeyOf(rows[i].req)[1] \in from .. to
                                              /\ KeyOf(rows[i].req)[2] \in svc
  <2>1. PICK r \in Requests : r = rows[i].req
    BY RowsHold
  <2>2. PICK t : t = Trace[r].at /\ t \in Nat /\ Midnight[1] <= t /\ t < Midnight[LastDay + 1]
    BY TraceFacts
  <2>3. Midnight[from] <= t /\ t < Midnight[to + 1] <=> DayOf(t) \in from .. to
    BY <2>2, DayBounds
  <2>4. KeyOf(r)[1] = DayOf(t) /\ KeyOf(r)[2] = Trace[r].client
    BY <2>2, KeyHolds
  <2>8. PICK b : b = <<Midnight[from], Midnight[to + 1]>>
    OBVIOUS
  <2>5. b[1] = Midnight[from] /\ b[2] = Midnight[to + 1]
    BY <2>8
  <2>6. i \in InRange(from, to, svc) <=> b[1] <= t /\ t < b[2] /\ Trace[r].client \in svc
    BY <2>1, <2>2, <2>8 DEF InRange, localDateRangeToUnix, At
  <2>7. QED
    BY <2>1, <2>3, <2>4, <2>5, <2>6
<1>2. InRange(from, to, svc) \subseteq DOMAIN rows
  BY DEF InRange
<1>3. QED
  BY <1>1, <1>2

LEMMA RangeHolds ==
    ASSUME rows \in Seq(Row), NEW from, NEW to, NEW svc
    PROVE  InRange(from, to, svc) \in SUBSET DOMAIN rows /\ IsFiniteSet(InRange(from, to, svc))
<1>1. InRange(from, to, svc) \in SUBSET DOMAIN rows
  BY DEF InRange
<1>2. QED
  BY <1>1, SeqFacts, FS_Subset

ImageOf(group, S) == {group[x] : x \in S}

LEMMA ImageIsFinite ==
    ASSUME NEW S, IsFiniteSet(S), NEW group
    PROVE  IsFiniteSet(ImageOf(group, S))
<1>4. PICK K : K = ImageOf(group, S)
  OBVIOUS
<1>1. PICK f : f = [x \in S |-> group[x]]
  OBVIOUS
<1>2. f \in Surjection(S, K)
  BY <1>1, <1>4 DEF Surjection, ImageOf
<1>3. QED
  BY <1>2, <1>4, FS_Surjection

LEMMA GroupedTally ==
    ASSUME NEW F, NEW S, IsFiniteSet(S), \A y \in S : F[y] \in Amount,
           NEW group, NEW H, Grouped(F, S, group, ImageOf(group, S), H)
    PROVE  Tally(H, ImageOf(group, S)) = Tally(F, S)
<1>1. PICK K : K = ImageOf(group, S)
  OBVIOUS
<1>2. IsFiniteSet(K) /\ \A y \in S : group[y] \in K
  BY <1>1, ImageIsFinite DEF ImageOf
<1>3. Grouped(F, S, group, K, H)
  BY <1>1
<1>4. Tally(H, K) = Tally(F, S)
  BY <1>2, <1>3, TallyOfGroups
<1>5. QED
  BY <1>1, <1>4

\* A key has requests in the totals exactly when a row has it.
LEMMA CountedKeys ==
    ASSUME RowsFit, AggFits, NEW k \in AggKeys
    PROVE  agg[k].requests > 0 <=> \E i \in DOMAIN rows : KeyOf(rows[i].req) = k
<1>1. rows \in Seq(Row)
  BY DEF RowsFit
<1>2. PICK S : S = KeysIn(rows, k)
  OBVIOUS
<1>3. agg[k].requests = Cardinality(S)
  BY <1>1, <1>2, UseOfFacts DEF AggFits
<1>4. S \in SUBSET DOMAIN rows /\ IsFiniteSet(S)
  BY <1>1, <1>2, SeqFacts, FS_Subset DEF KeysIn
<1>5. Cardinality(S) \in Nat /\ (Cardinality(S) = 0 <=> S = {})
  BY <1>4, FS_CardinalityType, FS_EmptySet
<1>6. S # {} <=> \E i \in DOMAIN rows : KeyOf(rows[i].req) = k
  BY <1>2 DEF KeysIn
<1>7. QED
  BY <1>3, <1>5, <1>6

\* The keys a query on totals reads are those of the rows of its range.
LEMMA KeysOfRange ==
    ASSUME RowsFit, AggFits, NEW from \in Days, NEW to \in Days, NEW svc, NEW group,
           group = [i \in DOMAIN rows |-> KeyOf(rows[i].req)]
    PROVE  /\ AggInRange(from, to, svc) = {group[i] : i \in InRange(from, to, svc)}
           /\ IsFiniteSet(AggInRange(from, to, svc))
           /\ \A k \in AggInRange(from, to, svc) :
                 KeysIn(rows, k) = {i \in InRange(from, to, svc) : group[i] = k}
<1>1. rows \in Seq(Row) /\ \A i \in DOMAIN rows : rows[i].req \in Requests
  BY RowsHold DEF RowsFit
<1>2. PICK ids : /\ ids = InRange(from, to, svc) /\ ids \in SUBSET DOMAIN rows /\ IsFiniteSet(ids)
                 /\ ids = {i \in DOMAIN rows : group[i][1] \in from .. to /\ group[i][2] \in svc}
  BY <1>1, RangeIs, RangeHolds
<1>3. \A i \in DOMAIN rows : group[i] \in AggKeys
  BY <1>1, KeyHolds
<1>4. PICK keys : keys = AggInRange(from, to, svc)
                  /\ keys = {k \in AggKeys : k[1] \in from .. to /\ k[2] \in svc /\ agg[k].requests > 0}
  BY DEF AggInRange, AggFits
<1>5. \A k \in AggKeys : agg[k].requests > 0 <=> \E i \in DOMAIN rows : group[i] = k
  BY CountedKeys
<1>6. keys = {group[i] : i \in ids}
  BY <1>2, <1>3, <1>4, <1>5
<1>7. IsFiniteSet(keys)
  <2>1. keys = ImageOf(group, ids)
    BY <1>6 DEF ImageOf
  <2>2. QED
    BY <1>2, <2>1, ImageIsFinite
<1>8. \A k \in keys : KeysIn(rows, k) = {i \in ids : group[i] = k}
  BY <1>2, <1>4 DEF KeysIn
<1>9. QED
  BY <1>2, <1>4, <1>6, <1>7, <1>8

LEMMA AggTotalsAre ==
    ASSUME NEW K
    PROVE  AggTotals(K) = Tally(agg, K)
BY DEF AggTotals, Tally, SumFunction

\* Queries on rows and queries on totals add up to the same.
LEMMA TotalsAre ==
    ASSUME RowsFit, AggFits, ~stale, NEW from \in Days, NEW to \in Days, NEW svc
    PROVE  Tally(agg, AggInRange(from, to, svc)) = Tally(Use(rows), InRange(from, to, svc))
<1>1. PICK group : group = [i \in DOMAIN rows |-> KeyOf(rows[i].req)]
  OBVIOUS
<1>2. PICK ids, keys : /\ ids = InRange(from, to, svc) /\ keys = AggInRange(from, to, svc)
                       /\ keys = {group[i] : i \in ids} /\ IsFiniteSet(keys)
                       /\ \A k \in keys : KeysIn(rows, k) = {i \in ids : group[i] = k}
  BY <1>1, KeysOfRange
<1>3. rows \in Seq(Row) /\ ids \in SUBSET DOMAIN rows /\ IsFiniteSet(ids)
  BY <1>2, RangeHolds DEF RowsFit
<1>4. \A k \in keys : k \in AggKeys
  BY <1>2 DEF AggInRange, AggFits
<1>5. PICK U : U = Use(rows)
  OBVIOUS
<1>6. \A k \in keys : agg[k] = Tally(U, {i \in ids : group[i] = k})
  BY <1>2, <1>4, <1>5 DEF AggFits, UseOf
<1>7. \A i \in ids : U[i] \in Amount /\ group[i] \in keys
  BY <1>2, <1>3, <1>5, UseFacts
<1>8. Tally(agg, keys) = Tally(U, ids)
  <2>1. keys = ImageOf(group, ids) /\ Grouped(U, ids, group, keys, agg)
    BY <1>2, <1>6 DEF ImageOf, Grouped
  <2>2. QED
    BY <1>3, <1>7, <2>1, GroupedTally
<1>9. QED
  BY <1>2, <1>5, <1>8

\* The tally of one thing is what it counts.
LEMMA TallyOfOne ==
    ASSUME NEW F, NEW x, F[x] \in Amount
    PROVE  Tally(F, {x}) = F[x]
<1>1. PICK T : T = {} \cup {x}
  OBVIOUS
<1>2. Tally(F, T) = Plus(Tally(F, {}), F[x])
  BY <1>1, TallyGains, FS_EmptySet
<1>3. Tally(F, {}) = NoUse
  BY TallyOfNone
<1>4. Plus(NoUse, F[x]) = F[x]
  BY AmountFacts DEF Plus, NoUse, Amount
<1>5. {x} = T
  BY <1>1
<1>6. QED
  BY <1>2, <1>3, <1>4, <1>5

LEMMA SumIsTally ==
    ASSUME NEW answer, IsFiniteSet(DOMAIN answer), \A g \in DOMAIN answer : answer[g] \in Amount
    PROVE  Sum(answer) = Tally(answer, DOMAIN answer)
<1>1. PICK K, L : K = DOMAIN answer /\ L = {<<g, answer[g]>> : g \in K}
  OBVIOUS
<1>2. PICK F, group : F = [l \in L |-> l[2]] /\ group = [l \in L |-> l[1]]
  OBVIOUS
<1>3. IsFiniteSet(L)
  <2>1. PICK line : line = [g \in K |-> <<g, answer[g]>>]
    OBVIOUS
  <2>2. L = ImageOf(line, K)
    BY <1>1, <2>1 DEF ImageOf
  <2>3. QED
    BY <1>1, <2>2, ImageIsFinite
<1>4. \A l \in L : F[l] \in Amount /\ group[l] \in K
  BY <1>1, <1>2
<1>5. Grouped(F, L, group, K, answer)
  <2> SUFFICES ASSUME NEW k \in K
               PROVE  answer[k] = Tally(F, {l \in L : group[l] = k})
    BY DEF Grouped
  <2>1. PICK l : l = <<k, answer[k]>>
    OBVIOUS
  <2>2. l \in L /\ F[l] = answer[k] /\ F[l] \in Amount
    BY <1>1, <1>2, <2>1
  <2>3. {m \in L : group[m] = k} = {l}
    BY <1>1, <1>2, <2>1
  <2>4. Tally(F, {l}) = F[l]
    BY <2>2, TallyOfOne
  <2>5. QED
    BY <2>2, <2>3, <2>4
<1>6. Tally(answer, K) = Tally(F, L)
  BY <1>1, <1>3, <1>4, <1>5, TallyOfGroups
<1>7. Sum(answer) = Tally(F, L)
  <2>1. /\ [l \in L |-> l[2].requests] = [l \in L |-> F[l].requests]
        /\ [l \in L |-> l[2].tokens] = [l \in L |-> F[l].tokens]
        /\ [l \in L |-> l[2].cost] = [l \in L |-> F[l].cost]
    BY <1>2
  <2>2. Sum(answer) = [requests |-> SumFunctionOnSet([l \in L |-> l[2].requests], L),
                      tokens |-> SumFunctionOnSet([l \in L |-> l[2].tokens], L),
                      cost |-> SumFunctionOnSet([l \in L |-> l[2].cost], L)]
    BY <1>1 DEF Sum, SumFunction
  <2>3. QED
    BY <2>1, <2>2 DEF Tally
<1>8. QED
  BY <1>1, <1>6, <1>7

\* Groups have figures to add up.
LEMMA GroupsCount ==
    ASSUME NEW F, NEW S, IsFiniteSet(S), \A y \in S : F[y] \in Amount,
           NEW group, NEW H, Grouped(F, S, group, ImageOf(group, S), H)
    PROVE  /\ IsFiniteSet(ImageOf(group, S))
           /\ \A k \in ImageOf(group, S) : H[k] \in Amount
<1>1. IsFiniteSet(ImageOf(group, S))
  BY ImageIsFinite
<1>2. ASSUME NEW k \in ImageOf(group, S)
      PROVE  H[k] \in Amount
  <2>1. PICK T : T = {x \in S : group[x] = k} /\ T \subseteq S
    OBVIOUS
  <2>2. Tally(F, T) \in Amount
    BY <2>1, FS_Subset, TallyCounts
  <2>3. QED
    BY <2>1, <2>2 DEF Grouped
<1>3. QED
  BY <1>1, <1>2

\* A chart of rows adds up to its rows, however they are grouped ...
LEMMA RowChart ==
    ASSUME rows \in Seq(Row), NEW group, DOMAIN group \in SUBSET DOMAIN rows
    PROVE  Sum(GroupRows(group)) = Tally(Use(rows), DOMAIN group)
<1>1. PICK S, answer : S = DOMAIN group /\ answer = GroupRows(group)
  OBVIOUS
<1>2. PICK K : K = ImageOf(group, S)
  OBVIOUS
<1>3. /\ K = DOMAIN answer
      /\ \A k \in K : answer[k] = RowTotals({i \in S : group[i] = k})
  BY <1>1, <1>2 DEF GroupRows, Range, ImageOf
<1>4. IsFiniteSet(S)
  BY <1>1, SeqFacts, FS_Subset
<1>5. PICK U : U = Use(rows)
  OBVIOUS
<1>6. ASSUME NEW k \in K
      PROVE  answer[k] = Tally(U, {i \in S : group[i] = k})
  <2>1. PICK T : T = {i \in S : group[i] = k}
    OBVIOUS
  <2>2. T \in SUBSET DOMAIN rows
    BY <1>1, <2>1
  <2>3. RowTotals(T) = Tally(U, T)
    BY <1>5, <2>2, RowTotalsAre
  <2>4. answer[k] = RowTotals(T)
    BY <1>3, <2>1
  <2>5. QED
    BY <2>1, <2>3, <2>4
<1>7. Grouped(U, S, group, K, answer)
  BY <1>6 DEF Grouped
<1>8. \A i \in S : U[i] \in Amount
  BY <1>1, <1>5, UseFacts
<1>9. Tally(answer, K) = Tally(U, S)
  BY <1>2, <1>4, <1>7, <1>8, GroupedTally
<1>10. IsFiniteSet(K) /\ \A k \in K : answer[k] \in Amount
  BY <1>2, <1>4, <1>7, <1>8, GroupsCount
<1>11. QED
  BY <1>1, <1>3, <1>5, <1>9, <1>10, SumIsTally

\* ... and a chart of totals to its totals.
LEMMA AggChart ==
    ASSUME NEW group, IsFiniteSet(DOMAIN group), \A k \in DOMAIN group : agg[k] \in Amount
    PROVE  Sum(GroupAgg(group)) = Tally(agg, DOMAIN group)
<1>1. PICK S, answer : S = DOMAIN group /\ answer = GroupAgg(group)
  OBVIOUS
<1>2. PICK K : K = ImageOf(group, S)
  OBVIOUS
<1>3. /\ K = DOMAIN answer
      /\ \A k \in K : answer[k] = AggTotals({i \in S : group[i] = k})
  BY <1>1, <1>2 DEF GroupAgg, Range, ImageOf
<1>4. Grouped(agg, S, group, K, answer)
  BY <1>3, AggTotalsAre DEF Grouped
<1>5. Tally(answer, K) = Tally(agg, S)
  BY <1>1, <1>2, <1>4, GroupedTally
<1>6. IsFiniteSet(K) /\ \A k \in K : answer[k] \in Amount
  BY <1>1, <1>2, <1>4, GroupsCount
<1>7. QED
  BY <1>1, <1>3, <1>5, <1>6, SumIsTally

-----------------------------------------------------------------------------
(* The panels.                                                              *)

\* A state in which rows and totals agree, and a range a query may have.
Fresh == RowsFit /\ AggFits /\ ~stale
Figures(from, to, svc) == Tally(Use(rows), InRange(from, to, svc))

LEMMA RowPanel ==
    ASSUME RowsFit, NEW group, DOMAIN group \in SUBSET DOMAIN rows
    PROVE  Sum(GroupRows(group)) = Tally(Use(rows), DOMAIN group)
BY RowChart DEF RowsFit

LEMMA AggPanel ==
    ASSUME Fresh, NEW from \in Days, NEW to \in Days, NEW svc, NEW group,
           DOMAIN group = AggInRange(from, to, svc)
    PROVE  Sum(GroupAgg(group)) = Figures(from, to, svc)
<1>1. PICK keys : keys = AggInRange(from, to, svc) /\ keys \subseteq AggKeys
  BY DEF AggInRange, Fresh, AggFits
<1>2. IsFiniteSet(keys)
  <2>1. PICK g : g = [i \in DOMAIN rows |-> KeyOf(rows[i].req)]
    OBVIOUS
  <2>2. QED
    BY <1>1, <2>1, KeysOfRange DEF Fresh
<1>3. \A k \in keys : agg[k] \in Amount
  BY <1>1, AmountFacts DEF Fresh, AggFits
<1>4. Sum(GroupAgg(group)) = Tally(agg, keys)
  BY <1>1, <1>2, <1>3, AggChart
<1>5. Tally(agg, keys) = Figures(from, to, svc)
  BY <1>1, TotalsAre DEF Fresh, Figures
<1>6. QED
  BY <1>4, <1>5

LEMMA ClientsAre ==
    ASSUME Fresh, NEW from, NEW to
    PROVE  Sum(GetClientStats(from, to)) = Figures(from, to, Clients)
<1>1. PICK group : group = [i \in InRange(from, to, Clients) |-> Trace[rows[i].req].client]
  OBVIOUS
<1>2. DOMAIN group = InRange(from, to, Clients) /\ DOMAIN group \in SUBSET DOMAIN rows
  BY <1>1 DEF InRange
<1>3. GetClientStats(from, to) = GroupRows(group)
  BY <1>1, Zenon DEF GetClientStats
<1>4. QED
  BY <1>2, <1>3, RowPanel DEF Fresh, Figures

LEMMA HoursAre ==
    ASSUME Fresh, NEW from, NEW to
    PROVE  Sum(GetHourOfDayStats(from, to)) = Figures(from, to, Clients)
<1>1. PICK group : group = [i \in InRange(from, to, Clients) |->
                              <<HourOf[At(i)], Trace[rows[i].req].client, Trace[rows[i].req].model>>]
  OBVIOUS
<1>2. DOMAIN group = InRange(from, to, Clients) /\ DOMAIN group \in SUBSET DOMAIN rows
  BY <1>1 DEF InRange
<1>3. GetHourOfDayStats(from, to) = GroupRows(group)
  BY <1>1, Zenon DEF GetHourOfDayStats
<1>4. QED
  BY <1>2, <1>3, RowPanel DEF Fresh, Figures

LEMMA CalendarIs ==
    ASSUME Fresh, NEW from \in Days, NEW to \in Days, NEW svc
    PROVE  Sum(GetCalendarDays(from, to, svc)) = Figures(from, to, svc)
<1>1. PICK group : group = [k \in AggInRange(from, to, svc) |-> k[1]]
  OBVIOUS
<1>2. DOMAIN group = AggInRange(from, to, svc)
  BY <1>1
<1>3. GetCalendarDays(from, to, svc) = GroupAgg(group)
  BY <1>1, Zenon DEF GetCalendarDays
<1>4. QED
  BY <1>2, <1>3, AggPanel

LEMMA DaysAre ==
    ASSUME Fresh, NEW from \in Days, NEW to \in Days
    PROVE  Sum(GetDailyStats(from, to)) = Figures(from, to, Clients)
<1>1. PICK group : group = [k \in AggInRange(from, to, Clients) |-> k[1]]
  OBVIOUS
<1>2. DOMAIN group = AggInRange(from, to, Clients)
  BY <1>1
<1>3. GetDailyStats(from, to) = GroupAgg(group)
  BY <1>1, Zenon DEF GetDailyStats
<1>4. QED
  BY <1>2, <1>3, AggPanel

LEMMA DailyIs ==
    ASSUME Fresh, NEW from \in Days, NEW to \in Days, NEW svc, NEW g
    PROVE  Sum(GetDailyStatsByModel(from, to, svc, g)) = Figures(from, to, svc)
<1>1. PICK group : group = [k \in AggInRange(from, to, svc) |-> <<aggDateExpr(g, k[1]), k[3]>>]
  OBVIOUS
<1>2. DOMAIN group = AggInRange(from, to, svc)
  BY <1>1
<1>3. GetDailyStatsByModel(from, to, svc, g) = GroupAgg(group)
  BY <1>1, Zenon DEF GetDailyStatsByModel
<1>4. QED
  BY <1>2, <1>3, AggPanel

LEMMA HourlyIs ==
    ASSUME Fresh, NEW date
    PROVE  Sum(GetHourlyStatsByModel(date)) = Figures(date, date, Clients)
<1>1. PICK group : group = [i \in InRange(date, date, Clients) |->
                              <<HourOf[At(i)], Trace[rows[i].req].model>>]
  OBVIOUS
<1>2. DOMAIN group = InRange(date, date, Clients) /\ DOMAIN group \in SUBSET DOMAIN rows
  BY <1>1 DEF InRange
<1>3. GetHourlyStatsByModel(date) = GroupRows(group)
  BY <1>1, Zenon DEF GetHourlyStatsByModel
<1>4. QED
  BY <1>2, <1>3, RowPanel DEF Fresh, Figures

LEMMA IntradayIs ==
    ASSUME Fresh, NEW from, NEW to, NEW svc, NEW n
    PROVE  Sum(GetIntradayStatsByModel(from, to, svc, n)) = Figures(from, to, svc)
<1>1. PICK group : group = [i \in InRange(from, to, svc) |->
                              <<At(i) - (At(i) % n), Trace[rows[i].req].model>>]
  OBVIOUS
<1>2. DOMAIN group = InRange(from, to, svc) /\ DOMAIN group \in SUBSET DOMAIN rows
  BY <1>1 DEF InRange
<1>3. GetIntradayStatsByModel(from, to, svc, n) = GroupRows(group)
  BY <1>1, Zenon DEF GetIntradayStatsByModel
<1>4. QED
  BY <1>2, <1>3, RowPanel DEF Fresh, Figures

LEMMA RateIs ==
    ASSUME Fresh, NEW from, NEW to, NEW n,
           InRange(from, to, Clients) = Timed(InRange(from, to, Clients))
    PROVE  Sum(GetRateOverTime(from, to, n)) = Figures(from, to, Clients)
<1>1. PICK group : group = [i \in Timed(InRange(from, to, Clients)) |->
                              <<At(i) - (At(i) % n), Trace[rows[i].req].model>>]
  OBVIOUS
<1>2. DOMAIN group = InRange(from, to, Clients) /\ DOMAIN group \in SUBSET DOMAIN rows
  BY <1>1 DEF InRange
<1>3. GetRateOverTime(from, to, n) = GroupRows(group)
  BY <1>1, Zenon DEF GetRateOverTime
<1>4. QED
  BY <1>2, <1>3, RowPanel DEF Fresh, Figures

LEMMA DurationsAre ==
    ASSUME Fresh, NEW from, NEW to, NEW svc,
           InRange(from, to, svc) = Timed(InRange(from, to, svc))
    PROVE  Sum(GetDurationStatsByModel(from, to, svc)) = Figures(from, to, svc)
<1>1. PICK group : group = [i \in Timed(InRange(from, to, svc)) |-> Trace[rows[i].req].model]
  OBVIOUS
<1>2. DOMAIN group = InRange(from, to, svc) /\ DOMAIN group \in SUBSET DOMAIN rows
  BY <1>1 DEF InRange
<1>3. GetDurationStatsByModel(from, to, svc) = GroupRows(group)
  BY <1>1, Zenon DEF GetDurationStatsByModel
<1>4. QED
  BY <1>2, <1>3, RowPanel DEF Fresh, Figures

LEMMA SessionsAre ==
    ASSUME Fresh, NEW from, NEW to, NEW svc,
           InRange(from, to, svc) = InSession(InRange(from, to, svc))
    PROVE  Sum(GetSessionStats(from, to, svc)) = Figures(from, to, svc)
<1>1. PICK group : group = [i \in InSession(InRange(from, to, svc)) |-> Trace[rows[i].req].client]
  OBVIOUS
<1>2. DOMAIN group = InRange(from, to, svc) /\ DOMAIN group \in SUBSET DOMAIN rows
  BY <1>1 DEF InRange
<1>3. GetSessionStats(from, to, svc) = GroupRows(group)
  BY <1>1, Zenon DEF GetSessionStats
<1>4. QED
  BY <1>2, <1>3, RowPanel DEF Fresh, Figures

LEMMA DashboardIs ==
    ASSUME Fresh, NEW from \in Days, NEW to \in Days, NEW svc
    PROVE  GetDashboardForRange(from, to, svc) = Figures(from, to, svc)
BY TotalsAre, AggTotalsAre DEF Fresh, Figures, GetDashboardForRange

\* What a panel with both ends of a range answers.
LEMMA PoolPanels ==
    ASSUME Fresh, NEW q \in Full, NEW from, NEW to, from = Override(q)[1], to = Override(q)[2]
    PROVE  /\ PanelDashboard(q) = Figures(from, to, Clients)
           /\ PanelClients(q) = Figures(from, to, Clients)
           /\ PanelHours(q) = Figures(from, to, Clients)
           /\ PanelCalendar(q) = Figures(from, to, Clients)
           /\ \A g : PanelDaily(q, g) = Figures(from, to, Clients)
           /\ \A n : PanelIntraday(q, n) = Figures(from, to, Clients) \/ PanelIntraday(q, n) = Refused
           /\ PanelDays(q) = Figures(from, to, Clients)
           /\ from = to => PanelHourly(from) = Figures(from, to, Clients)
<1>1. ~Rejected(q) /\ BothOrRange(q) = Override(q) /\ from \in Days /\ to \in Days
  BY FullFacts
<1>2. /\ GetDashboardForRange(from, to, Clients) = Figures(from, to, Clients)
      /\ Sum(GetClientStats(from, to)) = Figures(from, to, Clients)
      /\ Sum(GetHourOfDayStats(from, to)) = Figures(from, to, Clients)
      /\ Sum(GetCalendarDays(from, to, Clients)) = Figures(from, to, Clients)
      /\ \A g : Sum(GetDailyStatsByModel(from, to, Clients, g)) = Figures(from, to, Clients)
      /\ \A n : Sum(GetIntradayStatsByModel(from, to, Clients, n)) = Figures(from, to, Clients)
      /\ Sum(GetDailyStats(from, to)) = Figures(from, to, Clients)
      /\ Sum(GetHourlyStatsByModel(from)) = Figures(from, from, Clients)
  BY <1>1, DashboardIs, ClientsAre, HoursAre, CalendarIs, DailyIs, IntradayIs, DaysAre, HourlyIs
<1>3. PanelDashboard(q) = Figures(from, to, Clients)
  BY <1>1, <1>2 DEF PanelDashboard, OverrideAnswer
<1>4. PanelClients(q) = Figures(from, to, Clients) /\ PanelHours(q) = Figures(from, to, Clients)
  BY <1>1, <1>2 DEF PanelClients, PanelHours, OverrideAnswer
<1>5. PanelCalendar(q) = Figures(from, to, Clients) /\ PanelDays(q) = Figures(from, to, Clients)
  BY <1>1, <1>2 DEF PanelCalendar, PanelDays, OverrideAnswer
<1>6. \A g : PanelDaily(q, g) = Figures(from, to, Clients)
  BY <1>1, <1>2 DEF PanelDaily, OverrideAnswer
<1>7. \A n : PanelIntraday(q, n) = Figures(from, to, Clients) \/ PanelIntraday(q, n) = Refused
  BY <1>1, <1>2 DEF PanelIntraday, ChartAnswer
<1>8. from = to => PanelHourly(from) = Figures(from, to, Clients)
  BY <1>2 DEF PanelHourly
<1>9. QED
  BY <1>3, <1>4, <1>5, <1>6, <1>7, <1>8

LEMMA PoolParts ==
    ASSUME Fresh, NEW q \in Full, NEW from, NEW to, from = Override(q)[1], to = Override(q)[2],
           NEW ids, ids = InRange(from, to, Clients)
    PROVE  /\ ids = Timed(ids) =>
                 /\ PanelDurations(q) = Figures(from, to, Clients)
                 /\ \A n : PanelRate(q, n) = Figures(from, to, Clients) \/ PanelRate(q, n) = Refused
           /\ ids = InSession(ids) => PanelSessions(q) = Figures(from, to, Clients)
<1>1. ~Rejected(q) /\ BothOrRange(q) = Override(q) /\ from \in Days /\ to \in Days
  BY FullFacts
<1>2. ASSUME ids = Timed(ids)
      PROVE  PanelDurations(q) = Figures(from, to, Clients)
  <2>1. Sum(GetDurationStatsByModel(from, to, Clients)) = Figures(from, to, Clients)
    BY <1>2, DurationsAre
  <2>2. QED
    BY <1>1, <2>1 DEF PanelDurations
<1>3. ASSUME ids = Timed(ids), NEW n
      PROVE  PanelRate(q, n) = Figures(from, to, Clients) \/ PanelRate(q, n) = Refused
  <2>1. Sum(GetRateOverTime(from, to, n)) = Figures(from, to, Clients)
    BY <1>3, RateIs
  <2>2. QED
    BY <1>1, <2>1 DEF PanelRate, ChartAnswer
<1>4. ASSUME ids = InSession(ids)
      PROVE  PanelSessions(q) = Figures(from, to, Clients)
  <2>1. Sum(GetSessionStats(from, to, Clients)) = Figures(from, to, Clients)
    BY <1>4, SessionsAre
  <2>2. QED
    BY <1>1, <2>1 DEF PanelSessions, OverrideAnswer
<1>5. QED
  BY <1>2, <1>3, <1>4

-----------------------------------------------------------------------------
(* The details.                                                             *)

LEMMA DomainOfRows ==
    ASSUME rows \in Seq(Row), NEW svc, \A i \in DOMAIN rows : Trace[rows[i].req].client \in svc
    PROVE  InRange(1, LastDay, svc) = DOMAIN rows
<1>1. 1 \in Days /\ LastDay \in Days /\ Days = 1 .. LastDay
  BY TraceFacts
<1>2. ASSUME NEW i \in DOMAIN rows
      PROVE  KeyOf(rows[i].req)[1] \in 1 .. LastDay /\ KeyOf(rows[i].req)[2] \in svc
  <2>1. PICK r \in Requests : r = rows[i].req
    BY RowsHold
  <2>2. DayOf(Trace[r].at) \in 1 .. LastDay /\ KeyOf(r)[1] = DayOf(Trace[r].at)
        /\ KeyOf(r)[2] = Trace[r].client
    BY <1>1, KeyHolds
  <2>3. QED
    BY <2>1, <2>2
<1>3. PICK f, t : f = 1 /\ t = LastDay /\ f \in Days /\ t \in Days
  BY <1>1
<1>4. InRange(f, t, svc) = {i \in DOMAIN rows : /\ KeyOf(rows[i].req)[1] \in f .. t
                                                /\ KeyOf(rows[i].req)[2] \in svc}
  BY <1>3, RangeIs
<1>5. QED
  BY <1>2, <1>3, <1>4

\* The list of models, read from the totals, is that of the rows.
LEMMA ModelsAre ==
    ASSUME RowsFit, AggFits, NEW svc
    PROVE  GetDistinctModels(svc) = {Trace[rows[i].req].model : i \in InRange(1, LastDay, svc)}
<1>1. PICK group : group = [i \in DOMAIN rows |-> KeyOf(rows[i].req)]
  OBVIOUS
<1>2. 1 \in Days /\ LastDay \in Days /\ Days = 1 .. LastDay
  BY TraceFacts
<1>3. PICK ids, keys : ids = InRange(1, LastDay, svc) /\ keys = AggInRange(1, LastDay, svc)
  OBVIOUS
<1>4. keys = {group[i] : i \in ids}
  BY <1>1, <1>2, <1>3, KeysOfRange
<1>5. \A k \in AggKeys : k[1] \in 1 .. LastDay
  BY <1>2 DEF AggKeys
<1>6. GetDistinctModels(svc) = {k[3] : k \in keys}
  BY <1>3, <1>5 DEF GetDistinctModels, AggInRange, AggFits
<1>7. ASSUME NEW i \in ids
      PROVE  group[i][3] = Trace[rows[i].req].model
  <2>1. i \in DOMAIN rows
    BY <1>3, <1>7 DEF InRange
  <2>2. rows[i].req \in Requests
    BY <2>1, RowsHold DEF RowsFit
  <2>3. QED
    BY <1>1, <2>1, <2>2, KeyHolds
<1>8. QED
  BY <1>3, <1>4, <1>6, <1>7

\* A session's latest minute is on the throughput chart.
LEMMA MinuteIsCharted ==
    ASSUME RowsFit, NEW c \in Clients, NEW i \in GetSessionRecentMinuteRate(c),
           NEW chart, chart = GetRateOverTime(DayOf(At(i)), DayOf(At(i)), Minute),
           NEW point, point = <<At(i) - (At(i) % Minute), Trace[rows[i].req].model>>
    PROVE  point \in DOMAIN chart /\ chart[point].tokens >= rows[i].tokens
<1>1. i \in Timed(InSession({n \in DOMAIN rows : Trace[rows[n].req].client = c}))
  BY Zenon DEF GetSessionRecentMinuteRate
<1>2. i \in DOMAIN rows /\ Trace[rows[i].req].timed
  BY <1>1 DEF Timed, InSession
<1>3. PICK r \in Requests : r = rows[i].req
  BY <1>2, RowsHold DEF RowsFit
<1>4. PICK d : d = DayOf(At(i))
  OBVIOUS
<1>5. d \in Days /\ KeyOf(r)[1] = d /\ KeyOf(r)[2] \in Clients
  BY <1>3, <1>4, KeyHolds, TraceFacts DEF At
<1>6. i \in InRange(d, d, Clients)
  <2>1. d \in d .. d
    BY <1>5, TraceFacts
  <2>2. InRange(d, d, Clients) = {n \in DOMAIN rows : /\ KeyOf(rows[n].req)[1] \in d .. d
                                                       /\ KeyOf(rows[n].req)[2] \in Clients}
    BY <1>5, RangeIs DEF RowsFit
  <2>3. QED
    BY <1>2, <1>3, <1>5, <2>1, <2>2
<1>7. PICK S, group : /\ S = Timed(InRange(d, d, Clients))
                      /\ group = [n \in S |-> <<At(n) - (At(n) % Minute), Trace[rows[n].req].model>>]
  OBVIOUS
<1>8. i \in S /\ DOMAIN group = S /\ group[i] = point /\ S \in SUBSET DOMAIN rows
  BY <1>2, <1>6, <1>7 DEF Timed, InRange
<1>9. chart = GroupRows(group)
  BY <1>4, <1>7, Zenon DEF GetRateOverTime
<1>10. PICK T : T = {n \in S : group[n] = point}
  OBVIOUS
<1>11. point \in DOMAIN chart /\ chart[point] = RowTotals(T)
  BY <1>8, <1>9, <1>10 DEF GroupRows, Range
<1>12. i \in T /\ T \in SUBSET DOMAIN rows
  BY <1>8, <1>10
<1>13. RowTotals(T) = Tally(Use(rows), T)
  BY <1>12, RowTotalsAre DEF RowsFit
<1>14. PICK f : f = [x \in T |-> rows[x].tokens]
  OBVIOUS
<1>15. RowTotals(T).tokens = SumFunctionOnSet(f, T)
  BY <1>14 DEF RowTotals, SumFunction
<1>16. IsFiniteSet(T) /\ \A x \in T : f[x] \in Nat
  BY <1>12, <1>14, SeqFacts, FS_Subset DEF RowsFit
<1>17. f[i] <= SumFunctionOnSet(f, T) /\ SumFunctionOnSet(f, T) \in Nat
  BY <1>12, <1>16, SumBounds, SumCounts
<1>18. QED
  BY <1>11, <1>12, <1>14, <1>15, <1>16, <1>17

LEMMA PanelsHold ==
    ASSUME RowsFit, AggFits
    PROVE  PanelsAgree
<1>1. DetailsAgree
  <2>1. \A c \in Clients : \A i \in GetSessionRecentMinuteRate(c) :
          LET chart == GetRateOverTime(DayOf(At(i)), DayOf(At(i)), Minute)
              point == <<At(i) - (At(i) % Minute), Trace[rows[i].req].model>>
          IN point \in DOMAIN chart /\ chart[point].tokens >= rows[i].tokens
    BY MinuteIsCharted
  <2>2. QED
    BY <2>1, ModelsAre, Zenon DEF DetailsAgree, CodexModels
<1>2. ASSUME ~stale, NEW q \in Full, NEW from, NEW to, from = Override(q)[1], to = Override(q)[2],
             NEW ids, ids = InRange(from, to, Clients), NEW all, all = PanelDashboard(q)
      PROVE  /\ all = PanelClients(q) /\ all = PanelHours(q) /\ all = PanelCalendar(q)
             /\ \A g \in {"day", "month"} : all = PanelDaily(q, g)
             /\ \A n \in Buckets : Agree(all, PanelIntraday(q, n))
             /\ ids = Timed(ids) => /\ all = PanelDurations(q)
                                    /\ \A n \in Buckets : Agree(all, PanelRate(q, n))
             /\ ids = InSession(ids) => all = PanelSessions(q)
             /\ all = PanelDays(q)
             /\ from = to => all = PanelHourly(from)
  <2>1. Fresh
    BY <1>2 DEF Fresh
  <2>2. PICK F : F = Figures(from, to, Clients)
    OBVIOUS
  <2>3. /\ all = F /\ PanelClients(q) = F /\ PanelHours(q) = F /\ PanelCalendar(q) = F
        /\ \A g : PanelDaily(q, g) = F
        /\ \A n : PanelIntraday(q, n) = F \/ PanelIntraday(q, n) = Refused
        /\ PanelDays(q) = F
        /\ from = to => PanelHourly(from) = F
    BY <1>2, <2>1, <2>2, PoolPanels
  <2>4. /\ ids = Timed(ids) => /\ PanelDurations(q) = F
                               /\ \A n : PanelRate(q, n) = F \/ PanelRate(q, n) = Refused
        /\ ids = InSession(ids) => PanelSessions(q) = F
    BY <1>2, <2>1, <2>2, PoolParts
  <2>5. QED
    BY <2>3, <2>4 DEF Agree
<1>3. QED
  BY <1>1, <1>2 DEF PanelsAgree

-----------------------------------------------------------------------------
(* The Codex tab.                                                           *)

LEMMA CodexRowsAre ==
    ASSUME RowsFit, NEW from \in Days, NEW to \in Days
    PROVE  GetCodexRecentRequests(from, to, Len(rows), 0) = InRange(from, to, {Codex})
<1>1. PICK L : L = Len(rows) /\ L \in Nat /\ DOMAIN rows = 1 .. L
  BY RowsHold DEF RowsFit
<1>2. PICK ids : ids = InRange(from, to, {Codex}) /\ ids \in SUBSET DOMAIN rows /\ IsFiniteSet(ids)
  BY RangeHolds DEF RowsFit
<1>3. ASSUME NEW i \in ids
      PROVE  0 <= Position(i, ids) /\ Position(i, ids) < 0 + L
  <2>1. PICK J : J = {j \in ids : Newer(j, i)}
    OBVIOUS
  <2>2. \A r \in Requests : Trace[r].at \in Nat
    BY TraceFacts
  <2>3. At(i) \in Nat /\ i \in Nat
    <3>1. i \in DOMAIN rows /\ i \in 1 .. L
      BY <1>1, <1>2
    <3>2. rows[i].req \in Requests
      BY <3>1, RowsHold DEF RowsFit
    <3>3. QED
      BY <1>1, <2>2, <3>1, <3>2 DEF At
  <2>4. ~Newer(i, i)
    BY <2>3 DEF Newer
  <2>5. J \in SUBSET ids /\ i \notin J /\ J \in SUBSET (1 .. L) /\ i \in 1 .. L
    BY <1>1, <1>2, <2>1, <2>4
  <2>6. IsFiniteSet(1 .. L) /\ Cardinality(1 .. L) = L
    <3>1. 1 \in Int /\ L \in Int
      BY <1>1
    <3>2. IsFiniteSet(1 .. L) /\ Cardinality(1 .. L) = IF 1 > L THEN 0 ELSE L - 1 + 1
      BY <3>1, FS_Interval
    <3>3. QED
      BY <1>1, <3>2
  <2>7. IsFiniteSet(J) /\ Cardinality(J) \in Nat /\ Cardinality(J) <= L /\ (Cardinality(J) = L => J = 1 .. L)
    BY <2>5, <2>6, FS_Subset, FS_CardinalityType
  <2>8. Cardinality(J) # L
    BY <2>5, <2>7
  <2>9. Position(i, ids) = Cardinality(J)
    BY <2>1 DEF Position
  <2>10. QED
    BY <1>1, <2>7, <2>8, <2>9
<1>4. GetCodexRecentRequests(from, to, Len(rows), 0)
      = {i \in ids : 0 <= Position(i, ids) /\ Position(i, ids) < 0 + L}
  BY <1>1, <1>2 DEF GetCodexRecentRequests, GetRecentRequests
<1>5. QED
  BY <1>2, <1>3, <1>4

LEMMA CodexPanels ==
    ASSUME Fresh, NEW q \in Full, NEW from, NEW to, from = Override(q)[1], to = Override(q)[2],
           NEW F, F = Figures(from, to, {Codex})
    PROVE  /\ CodexDashboard(q) = F /\ CodexCalendar(q) = F /\ CodexRequests(q) = F
           /\ \A g : CodexDaily(q, g) = F
           /\ \A n : CodexIntraday(q, n) = F \/ CodexIntraday(q, n) = Refused
<1>1. ~Rejected(q) /\ BothOrRange(q) = Override(q) /\ from \in Days /\ to \in Days
  BY FullFacts
<1>2. /\ GetCodexDashboard(from, to) = F
      /\ Sum(GetCodexCalendarDays(from, to)) = F
      /\ \A g : Sum(GetCodexDailyStatsByModel(from, to, g)) = F
      /\ \A n : Sum(GetCodexIntradayStatsByModel(from, to, n)) = F
  BY <1>1, DashboardIs, CalendarIs, DailyIs, IntradayIs
     DEF GetCodexDashboard, GetCodexCalendarDays, GetCodexDailyStatsByModel,
         GetCodexIntradayStatsByModel
<1>3. RowTotals(GetCodexRecentRequests(from, to, Len(rows), 0)) = F
  <2>1. PICK ids : ids = InRange(from, to, {Codex}) /\ ids \in SUBSET DOMAIN rows
    BY RangeHolds DEF Fresh, RowsFit
  <2>2. GetCodexRecentRequests(from, to, Len(rows), 0) = ids
    BY <1>1, <2>1, CodexRowsAre DEF Fresh
  <2>3. RowTotals(ids) = Tally(Use(rows), ids)
    BY <2>1, RowTotalsAre DEF Fresh, RowsFit
  <2>4. QED
    BY <2>1, <2>2, <2>3 DEF Figures
<1>4. CodexDashboard(q) = F
  BY <1>1, <1>2 DEF CodexDashboard, OverrideAnswer
<1>5. CodexCalendar(q) = F
  BY <1>1, <1>2 DEF CodexCalendar, OverrideAnswer
<1>6. CodexRequests(q) = F
  BY <1>1, <1>3 DEF CodexRequests, OverrideAnswer
<1>7. \A g : CodexDaily(q, g) = F
  BY <1>1, <1>2 DEF CodexDaily, OverrideAnswer
<1>8. \A n : CodexIntraday(q, n) = F \/ CodexIntraday(q, n) = Refused
  BY <1>1, <1>2 DEF CodexIntraday, ChartAnswer
<1>9. QED
  BY <1>4, <1>5, <1>6, <1>7, <1>8

LEMMA CodexParts ==
    ASSUME Fresh, NEW q \in Full, NEW from, NEW to, from = Override(q)[1], to = Override(q)[2],
           NEW ids, ids = InRange(from, to, {Codex}), NEW F, F = Figures(from, to, {Codex})
    PROVE  /\ ids = Timed(ids) => CodexDurations(q) = F
           /\ ids = InSession(ids) => CodexSessions(q) = F
<1>1. ~Rejected(q)
  BY FullFacts
<1>2. ASSUME ids = Timed(ids)
      PROVE  CodexDurations(q) = F
  <2>1. Sum(GetCodexDurationStatsByModel(from, to)) = F
    BY <1>2, DurationsAre DEF GetCodexDurationStatsByModel
  <2>2. QED
    BY <1>1, <2>1 DEF CodexDurations, OverrideAnswer
<1>3. ASSUME ids = InSession(ids)
      PROVE  CodexSessions(q) = F
  <2>1. Sum(GetCodexSessionStats(from, to)) = F
    BY <1>3, SessionsAre DEF GetCodexSessionStats
  <2>2. QED
    BY <1>1, <2>1 DEF CodexSessions, OverrideAnswer
<1>4. QED
  BY <1>2, <1>3

\* The line of the clients table that is Codex's.
LEMMA CodexLine ==
    ASSUME RowsFit, NEW from \in Days, NEW to \in Days, NEW line, line = GetClientStats(from, to)
    PROVE  Figures(from, to, {Codex}) = IF Codex \in DOMAIN line THEN line[Codex] ELSE NoUse
<1>1. PICK S, group : /\ S = InRange(from, to, Clients)
                      /\ group = [i \in S |-> Trace[rows[i].req].client]
  OBVIOUS
<1>2. line = GroupRows(group)
  BY <1>1, Zenon DEF GetClientStats
<1>3. S \in SUBSET DOMAIN rows /\ \A i \in DOMAIN rows : Trace[rows[i].req].client \in Clients
  <2>1. \A i \in DOMAIN rows : rows[i].req \in Requests
    BY RowsHold DEF RowsFit
  <2>2. QED
    BY <1>1, <2>1, TraceFacts DEF InRange
<1>4. PICK T : T = {i \in S : group[i] = Codex} /\ T \in SUBSET DOMAIN rows
  BY <1>3
<1>5. T = InRange(from, to, {Codex})
  BY <1>1, <1>3, <1>4 DEF InRange
<1>6. DOMAIN group = S
  BY <1>1
<1>7. CASE Codex \in DOMAIN line
  <2>1. line[Codex] = RowTotals(T)
    BY <1>2, <1>4, <1>6, <1>7 DEF GroupRows
  <2>2. RowTotals(T) = Tally(Use(rows), T)
    BY <1>4, RowTotalsAre DEF RowsFit
  <2>3. QED
    BY <1>5, <1>7, <2>1, <2>2 DEF Figures
<1>8. CASE Codex \notin DOMAIN line
  <2>1. T = {}
    BY <1>2, <1>4, <1>6, <1>8 DEF GroupRows, Range
  <2>2. QED
    BY <1>5, <1>8, <2>1, TallyOfNone DEF Figures
<1>9. QED
  BY <1>7, <1>8

LEMMA CodexPanelsHold ==
    ASSUME RowsFit, AggFits
    PROVE  CodexPanelsAgree
<1>1. ASSUME ~stale, NEW q \in Full, NEW from, NEW to, from = Override(q)[1], to = Override(q)[2],
             NEW ids, ids = InRange(from, to, {Codex}), NEW own, own = CodexDashboard(q),
             NEW line, line = GetClientStats(from, to)
      PROVE  /\ own = CodexCalendar(q) /\ own = CodexRequests(q)
             /\ \A g \in {"day", "month"} : own = CodexDaily(q, g)
             /\ \A n \in Buckets : Agree(own, CodexIntraday(q, n))
             /\ ids = Timed(ids) => own = CodexDurations(q)
             /\ ids = InSession(ids) => own = CodexSessions(q)
             /\ own = IF Codex \in DOMAIN line THEN line[Codex] ELSE NoUse
  <2>1. Fresh /\ from \in Days /\ to \in Days
    BY <1>1, FullFacts DEF Fresh
  <2>2. PICK F : F = Figures(from, to, {Codex})
    OBVIOUS
  <2>3. /\ own = F /\ CodexCalendar(q) = F /\ CodexRequests(q) = F
        /\ \A g : CodexDaily(q, g) = F
        /\ \A n : CodexIntraday(q, n) = F \/ CodexIntraday(q, n) = Refused
    BY <1>1, <2>1, <2>2, CodexPanels
  <2>4. /\ ids = Timed(ids) => CodexDurations(q) = F
        /\ ids = InSession(ids) => CodexSessions(q) = F
    BY <1>1, <2>1, <2>2, CodexParts
  <2>5. F = IF Codex \in DOMAIN line THEN line[Codex] ELSE NoUse
    BY <1>1, <2>1, <2>2, CodexLine
  <2>6. QED
    BY <2>3, <2>4, <2>5 DEF Agree
<1>2. QED
  BY <1>1 DEF CodexPanelsAgree

LedgerFits == RowsFit /\ JobFits /\ AggFits

LEMMA LedgerStep ==
    /\ Init => LedgerFits
    /\ LedgerFits /\ [Next]_vars => LedgerFits'
<1>1. Init => LedgerFits
  BY RowsBegin, AggBegins DEF Init, LedgerFits
<1>2. LedgerFits /\ [Next]_vars => LedgerFits'
  <2> SUFFICES ASSUME LedgerFits, [Next]_vars
               PROVE  LedgerFits'
    OBVIOUS
  <2>1. RowsFit /\ JobFits /\ AggFits
    BY DEF LedgerFits
  <2>2. RowsFit' /\ JobFits'
    BY <2>1, CostStep
  <2>3. AggFits'
    BY <2>1, <2>2, AggStep
  <2>4. QED
    BY <2>2, <2>3 DEF LedgerFits
<1>3. QED
  BY <1>1, <1>2

\* Every way the dashboard slices a range adds up to the same figures, on days of
\* any length, read from rows or from totals, unless a recompute was cut off.
THEOREM DashboardPanelsAgree == Spec => []PanelsAgree
<1>1. LedgerFits => PanelsAgree
  BY PanelsHold DEF LedgerFits
<1>2. QED
  BY <1>1, LedgerStep, PTL DEF Spec

\* The Codex tab's panels agree with each other and with its line among the clients,
\* unless a recompute was cut off.
THEOREM DashboardCodexPanelsAgree == Spec => []CodexPanelsAgree
<1>1. LedgerFits => CodexPanelsAgree
  BY CodexPanelsHold DEF LedgerFits
<1>2. QED
  BY <1>1, LedgerStep, PTL DEF Spec

-----------------------------------------------------------------------------
(* Paging.                                                                  *)

\* No step loses a row or makes it another request's.
Grows == /\ DOMAIN rows \subseteq DOMAIN rows'
         /\ \A i \in DOMAIN rows : rows'[i].req = rows[i].req

LEMMA InsertGrows ==
    ASSUME RowsFit, NEW r, NEW t, NEW c, InsertRow(r, t, c)
    PROVE  Grows
<1>1. PICK R, w : R = rows /\ w = [req |-> r, tokens |-> t, cost |-> c]
  OBVIOUS
<1>2. rows' = Append(R, w) /\ R \in Seq(Row)
  BY <1>1 DEF InsertRow, RowsFit
<1>3. DOMAIN R = 1 .. Len(R) /\ Len(R) \in Nat
  BY <1>2
<1>4. DOMAIN rows' = 1 .. Len(R) + 1 /\ \A i \in DOMAIN R : rows'[i] = R[i]
  BY <1>2, <1>3
<1>5. QED
  BY <1>1, <1>3, <1>4 DEF Grows

LEMMA FinalGrows ==
    ASSUME RowsFit, NEW r \in Requests, FinalizeRequest(r)
    PROVE  Grows
<1>1. PICK n : n = CHOOSE x \in DOMAIN rows : rows[x].req = r
  OBVIOUS
<1>2. PICK t, c : t = Trace[r].tokens /\ c = bill[r]
  OBVIOUS
<1>3. rows' = [rows EXCEPT ![n].tokens = t, ![n].cost = c]
  BY <1>1, <1>2, Zenon DEF FinalizeRequest
<1>4. DOMAIN rows' = DOMAIN rows
  BY <1>3
<1>5. ASSUME NEW i \in DOMAIN rows
      PROVE  rows'[i].req = rows[i].req
  <2>1. CASE i # n
    BY <1>3, <1>5, <2>1
  <2>2. CASE i = n
    <3>1. PICK u : u = rows[i] /\ u \in Row
      BY RowsHold DEF RowsFit
    <3>2. PICK v : v = [u EXCEPT !.tokens = t]
      OBVIOUS
    <3>3. PICK w : w = [v EXCEPT !.cost = c]
      OBVIOUS
    <3>4. rows' = [rows EXCEPT ![n] = w]
      BY <1>3, <2>2, <3>1, <3>2, <3>3
    <3>5. v.req = u.req /\ DOMAIN v = {"req", "tokens", "cost"}
      BY <3>1, <3>2 DEF Row
    <3>6. w.req = v.req
      BY <3>3, <3>5
    <3>7. QED
      BY <2>2, <3>1, <3>4, <3>5, <3>6
  <2>3. QED
    BY <2>1, <2>2
<1>6. QED
  BY <1>4, <1>5 DEF Grows

LEMMA ChunkGrows ==
    ASSUME RowsFit, ApplyChunk
    PROVE  Grows
<1>1. PICK chunk : rows' = [i \in DOMAIN rows |->
                  IF \E n \in DOMAIN chunk : chunk[n].id = i
                  THEN [rows[i] EXCEPT !.cost =
                          chunk[CHOOSE n \in DOMAIN chunk : chunk[n].id = i].cost]
                  ELSE rows[i]]
  BY Zenon DEF ApplyChunk
<1>2. DOMAIN rows' = DOMAIN rows
  BY <1>1
<1>3. ASSUME NEW i \in DOMAIN rows
      PROVE  rows'[i].req = rows[i].req
  <2>1. PICK u, c : u = rows[i] /\ c = chunk[CHOOSE n \in DOMAIN chunk : chunk[n].id = i].cost
    OBVIOUS
  <2>2. u \in Row
    BY <2>1, RowsHold DEF RowsFit
  <2>3. PICK v : v = [u EXCEPT !.cost = c]
    OBVIOUS
  <2>4. v.req = u.req
    BY <2>2, <2>3 DEF Row
  <2>5. rows'[i] = v \/ rows'[i] = u
    BY <1>1, <2>1, <2>3, Zenon
  <2>6. QED
    BY <2>1, <2>4, <2>5
<1>4. QED
  BY <1>2, <1>3 DEF Grows

LEMMA RowsGrow ==
    ASSUME RowsFit, [Next]_vars
    PROVE  Grows
<1>1. CASE rows' = rows
  BY <1>1 DEF Grows
<1>2. CASE \E r \in Requests : Ingest(r)
  <2>1. PICK r \in Requests : Ingest(r)
    BY <1>2
  <2>2. CASE AnchorRequest(r)
    BY <2>2, InsertGrows DEF AnchorRequest
  <2>3. CASE PriceRequest(r)
    BY <1>1, <2>3 DEF PriceRequest
  <2>4. CASE StoreRequest(r)
    BY <2>4, InsertGrows, FinalGrows DEF StoreRequest
  <2>5. QED
    BY <2>1, <2>2, <2>3, <2>4 DEF Ingest
<1>3. CASE \E m \in Models, p \in Rates : EditPrice(m, p)
  BY <1>1, <1>3 DEF EditPrice
<1>4. CASE Recompute
  <2>1. CASE ApplyChunk
    BY <2>1, ChunkGrows
  <2>2. CASE ~ApplyChunk
    <3>1. rows' = rows
      BY <1>4, <2>2 DEF Recompute, StartRecompute, RunTool, Begin, ScanRow, ScanEnds, RebuildAgg,
         Interrupt
    <3>2. QED
      BY <1>1, <3>1
  <2>3. QED
    BY <2>1, <2>2
<1>5. CASE \E r \in Requests : Announce(r)
  BY <1>1, <1>5 DEF Announce
<1>6. CASE UNCHANGED costVars
  <2>1. rows' = rows
    BY <1>6, Zenon DEF costVars
  <2>2. QED
    BY <1>1, <2>1
<1>7. QED
  BY <1>2, <1>3, <1>4, <1>5, <1>6, NextSplits

\* How many rows come before one in the list.
Before(R, i) == {j \in DOMAIN R : \/ Trace[R[j].req].at > Trace[R[i].req].at
                                  \/ Trace[R[j].req].at = Trace[R[i].req].at /\ j > i}
Pos(R, i) == Cardinality(Before(R, i))

LEMMA PosIs ==
    ASSUME NEW i
    PROVE  Position(i, DOMAIN rows) = Pos(rows, i)
<1>1. {j \in DOMAIN rows : Newer(j, i)} = Before(rows, i)
  BY DEF Newer, Before, At
<1>2. QED
  BY <1>1 DEF Position, Pos

\* A row moves only down the list.
LEMMA PosGrows ==
    ASSUME NEW R \in Seq(Row), NEW Q \in Seq(Row), NEW i \in DOMAIN R,
           DOMAIN R \subseteq DOMAIN Q, \A j \in DOMAIN R : Q[j].req = R[j].req
    PROVE  Pos(R, i) \in Nat /\ Pos(Q, i) \in Nat /\ Pos(R, i) <= Pos(Q, i)
<1>1. IsFiniteSet(DOMAIN Q)
  BY SeqFacts
<1>2. PICK A, B : A = Before(R, i) /\ B = Before(Q, i)
  OBVIOUS
<1>3. A \in SUBSET B /\ B \in SUBSET DOMAIN Q
  BY <1>2 DEF Before
<1>4. IsFiniteSet(B) /\ IsFiniteSet(A) /\ Cardinality(A) <= Cardinality(B)
  BY <1>1, <1>3, FS_Subset
<1>5. Cardinality(A) \in Nat /\ Cardinality(B) \in Nat
  BY <1>4, FS_CardinalityType
<1>6. QED
  BY <1>2, <1>4, <1>5 DEF Pos

LEMMA PosBounded ==
    ASSUME NEW R \in Seq(Row), NEW i \in DOMAIN R
    PROVE  Pos(R, i) \in Nat /\ Pos(R, i) < Cardinality(DOMAIN R) /\ Cardinality(DOMAIN R) \in Nat
<1>1. IsFiniteSet(DOMAIN R) /\ i \in Nat /\ R[i].req \in Requests
  BY SeqFacts
<1>2. PICK B : B = Before(R, i)
  OBVIOUS
<1>3. B \in SUBSET DOMAIN R /\ i \notin B
  BY <1>1, <1>2, TraceFacts DEF Before
<1>4. IsFiniteSet(B) /\ Cardinality(B) <= Cardinality(DOMAIN R) /\ Cardinality(B) # Cardinality(DOMAIN R)
  BY <1>1, <1>3, FS_Subset
<1>5. Cardinality(B) \in Nat /\ Cardinality(DOMAIN R) \in Nat
  BY <1>1, <1>4, FS_CardinalityType
<1>6. QED
  BY <1>2, <1>4, <1>5 DEF Pos

WalkSet == [step: {"off", "next", "counted", "done"}, page: Nat \ {0}, total: Nat,
            seen: SUBSET Requests, had: SUBSET Requests, torn: BOOLEAN]

\* What the client has yet to see is on a page it has yet to read.
Ahead(R, had, seen, offset) ==
    \A r \in had \ seen : \E i \in DOMAIN R : R[i].req = r /\ offset <= Pos(R, i)
WalkFits ==
    /\ walk \in WalkSet
    /\ walk.step \in {"next", "counted"} => Ahead(rows, walk.had, walk.seen, PageOffset(walk.page))
    /\ walk.step = "done" /\ ~walk.torn => walk.had \subseteq walk.seen

LEMMA OffsetCounts ==
    ASSUME NEW p \in Nat \ {0}
    PROVE  /\ PageOffset(p) \in Nat /\ PageOffset(p + 1) = PageOffset(p) + PageSize
           /\ PageOffset(p + 1) = p * PageSize /\ PageSize \in Nat \ {0} /\ PageOffset(1) = 0
BY QueryAssumption DEF PageOffset

LEMMA AheadStands ==
    ASSUME NEW R \in Seq(Row), NEW Q \in Seq(Row), NEW had, NEW seen, NEW o \in Nat,
           DOMAIN R \subseteq DOMAIN Q, \A j \in DOMAIN R : Q[j].req = R[j].req,
           Ahead(R, had, seen, o)
    PROVE  Ahead(Q, had, seen, o)
<1> SUFFICES ASSUME NEW r \in had \ seen
             PROVE  \E i \in DOMAIN Q : Q[i].req = r /\ o <= Pos(Q, i)
  BY DEF Ahead
<1>1. PICK i \in DOMAIN R : R[i].req = r /\ o <= Pos(R, i)
  BY DEF Ahead
<1>2. Pos(R, i) \in Nat /\ Pos(Q, i) \in Nat /\ Pos(R, i) <= Pos(Q, i)
  BY PosGrows
<1>3. QED
  BY <1>1, <1>2

LEMMA ListedFits ==
    ASSUME rows \in Seq(Row)
    PROVE  /\ Listed \in SUBSET Requests
           /\ InRange(1, LastDay, Clients) = DOMAIN rows
           /\ CountRecentRequests(1, LastDay, Clients) = Cardinality(DOMAIN rows)
           /\ Cardinality(DOMAIN rows) \in Nat
<1>1. \A i \in DOMAIN rows : rows[i].req \in Requests
  BY RowsHold
<1>2. Listed \in SUBSET Requests
  BY <1>1 DEF Listed
<1>3. InRange(1, LastDay, Clients) = DOMAIN rows
  BY <1>1, TraceFacts, DomainOfRows
<1>4. Cardinality(DOMAIN rows) \in Nat
  BY SeqFacts, FS_CardinalityType
<1>5. QED
  BY <1>2, <1>3, <1>4 DEF CountRecentRequests

LEMMA NoWalkFits ==
    /\ NoWalk \in WalkSet /\ NoWalk.step = "off" /\ NoWalk.page = 1 /\ NoWalk.seen = {}
<1>1. PICK b, s : b = FALSE /\ s = "off"
  OBVIOUS
<1>2. b \in BOOLEAN /\ s \in {"off", "next", "counted", "done"}
  BY <1>1
<1>3. PICK w : w = [step |-> s, page |-> 1, total |-> 0, seen |-> {}, had |-> {}, torn |-> b]
  OBVIOUS
<1>4. w \in WalkSet /\ w.step = s /\ w.page = 1 /\ w.seen = {}
  BY <1>2, <1>3 DEF WalkSet
<1>5. w = NoWalk
  BY <1>1, <1>3, Zenon DEF NoWalk
<1>6. QED
  BY <1>1, <1>4, <1>5, Zenon

LEMMA StartFits ==
    ASSUME RowsFit, WalkFits, StartWalk
    PROVE  WalkFits'
<1>1. PICK L : L = Listed /\ L \in SUBSET Requests
  BY ListedFits DEF RowsFit
<1>2. PICK v : v = [NoWalk EXCEPT !.step = "next"]
  OBVIOUS
<1>3. PICK w : w = [v EXCEPT !.had = L]
  OBVIOUS
<1>4. walk' = w
  BY <1>1, <1>2, <1>3, Zenon DEF StartWalk
<1>5. v \in WalkSet /\ v.step = "next" /\ v.page = 1 /\ v.seen = {}
  <2>1. PICK n : n = NoWalk /\ n \in WalkSet /\ n.page = 1 /\ n.seen = {}
    BY NoWalkFits, Zenon
  <2>2. v = [n EXCEPT !.step = "next"]
    BY <1>2, <2>1
  <2>3. QED
    BY <2>1, <2>2 DEF WalkSet
<1>6. w \in WalkSet /\ w.step = "next" /\ w.page = 1 /\ w.had = L /\ w.seen = {}
  BY <1>1, <1>3, <1>5 DEF WalkSet
<1>7. rows' = rows /\ rows \in Seq(Row)
  <2>1. rows' = rows
    BY Zenon DEF StartWalk, costVars
  <2>2. QED
    BY <2>1 DEF RowsFit
<1>8. Ahead(rows, L, {}, PageOffset(1))
  <2>1. ASSUME NEW r \in L
        PROVE  \E i \in DOMAIN rows : rows[i].req = r /\ 0 <= Pos(rows, i)
    <3>1. PICK i \in DOMAIN rows : rows[i].req = r
      BY <1>1, <2>1 DEF Listed
    <3>2. Pos(rows, i) \in Nat
      BY <1>7, <3>1, PosBounded
    <3>3. QED
      BY <3>1, <3>2
  <2>2. 1 \in Nat \ {0}
    OBVIOUS
  <2>3. PageOffset(1) = 0
    BY <2>2, OffsetCounts
  <2>4. QED
    BY <2>1, <2>3 DEF Ahead
<1>9. "next" # "done"
  OBVIOUS
<1>10. PICK o : o = walk' /\ o = w
  BY <1>4
<1>11. /\ o \in WalkSet
       /\ o.step \in {"next", "counted"} => Ahead(rows, o.had, o.seen, PageOffset(o.page))
       /\ o.step = "done" /\ ~o.torn => o.had \subseteq o.seen
  BY <1>6, <1>8, <1>9, <1>10
<1>12. QED
  BY <1>7, <1>10, <1>11 DEF WalkFits

LEMMA CountFits ==
    ASSUME RowsFit, WalkFits, CountPage
    PROVE  WalkFits'
<1>1. PICK n : n = CountRecentRequests(1, LastDay, Clients) /\ n \in Nat
  BY ListedFits DEF RowsFit
<1>2. PICK v : v = [walk EXCEPT !.step = "counted"]
  OBVIOUS
<1>3. PICK w : w = [v EXCEPT !.total = n]
  OBVIOUS
<1>4. walk' = w /\ walk.step = "next"
  BY <1>1, <1>2, <1>3, Zenon DEF CountPage
<1>5. walk \in WalkSet /\ Ahead(rows, walk.had, walk.seen, PageOffset(walk.page))
  BY <1>4 DEF WalkFits
<1>6. v \in WalkSet /\ v.step = "counted" /\ v.page = walk.page /\ v.seen = walk.seen
      /\ v.had = walk.had
  BY <1>2, <1>5 DEF WalkSet
<1>7. w \in WalkSet /\ w.step = "counted" /\ w.page = walk.page /\ w.seen = walk.seen
      /\ w.had = walk.had
  BY <1>1, <1>3, <1>6 DEF WalkSet
<1>8. rows' = rows
  BY Zenon DEF CountPage, costVars
<1>9. PICK o : o = walk' /\ o = w
  BY <1>4
<1>10. /\ o \in WalkSet
       /\ o.step \in {"next", "counted"} => Ahead(rows, o.had, o.seen, PageOffset(o.page))
       /\ o.step = "done" /\ ~o.torn => o.had \subseteq o.seen
  BY <1>5, <1>7, <1>9
<1>11. QED
  BY <1>8, <1>9, <1>10 DEF WalkFits

LEMMA PageFits ==
    ASSUME RowsFit, WalkFits, ReadPage
    PROVE  WalkFits'
<1>1. PICK all, n : /\ all = DOMAIN rows /\ n = CountRecentRequests(1, LastDay, Clients)
                    /\ InRange(1, LastDay, Clients) = all /\ n = Cardinality(all) /\ n \in Nat
  BY ListedFits DEF RowsFit
<1>2. walk.step = "counted" /\ walk \in WalkSet
      /\ Ahead(rows, walk.had, walk.seen, PageOffset(walk.page))
  BY DEF ReadPage, WalkFits
<1>3. PICK k : k = walk /\ k.page \in Nat \ {0} /\ k.total \in Nat /\ k.seen \in SUBSET Requests
               /\ k.had \in SUBSET Requests
  BY <1>2 DEF WalkSet
<1>4. PICK p, o : p = k.page /\ o = PageOffset(p) /\ o \in Nat /\ PageSize \in Nat \ {0}
                  /\ PageOffset(p + 1) = o + PageSize /\ PageOffset(p + 1) = p * PageSize
  BY <1>3, OffsetCounts
<1>5. PICK page : page = GetRecentRequests(1, LastDay, Clients, PageSize, o)
  OBVIOUS
<1>6. page = {i \in all : o <= Pos(rows, i) /\ Pos(rows, i) < o + PageSize}
  <2>1. page = {i \in all : o <= Position(i, all) /\ Position(i, all) < o + PageSize}
    BY <1>1, <1>5 DEF GetRecentRequests
  <2>2. \A i : Position(i, all) = Pos(rows, i)
    BY <1>1, PosIs
  <2>3. QED
    BY <2>1, <2>2
<1>7. PICK read : read = {rows[i].req : i \in page}
  OBVIOUS
<1>8. read \in SUBSET Requests
  BY <1>1, <1>6, <1>7, RowsHold DEF RowsFit
<1>9. PICK S : S = k.seen \cup read
  OBVIOUS
<1>10. PICK b : b = (k.torn \/ k.total # n)
  OBVIOUS
<1>11. PICK s : s = IF p * PageSize < k.total THEN "next" ELSE "done"
  OBVIOUS
<1>12. walk' = [k EXCEPT !.seen = S, !.torn = b, !.step = s, !.page = p + 1]
  <2>1. walk' = [walk EXCEPT !.seen = @ \cup read, !.torn = @ \/ walk.total # n,
                  !.step = IF walk.page * PageSize < walk.total THEN "next" ELSE "done",
                  !.page = @ + 1]
    BY <1>1, <1>3, <1>4, <1>5, <1>7, Zenon DEF ReadPage
  <2>2. QED
    BY <1>3, <1>4, <1>9, <1>10, <1>11, <2>1, Zenon
<1>13. PICK v1 : v1 = [k EXCEPT !.seen = S]
  OBVIOUS
<1>14. PICK v2 : v2 = [v1 EXCEPT !.torn = b]
  OBVIOUS
<1>15. PICK v3 : v3 = [v2 EXCEPT !.step = s]
  OBVIOUS
<1>16. PICK w : w = [v3 EXCEPT !.page = p + 1]
  OBVIOUS
<1>17. walk' = w
  BY <1>12, <1>13, <1>14, <1>15, <1>16, Zenon
<1>18. v1 \in WalkSet /\ v1.seen = S /\ v1.had = k.had
  BY <1>2, <1>3, <1>8, <1>9, <1>13 DEF WalkSet
<1>19. v2 \in WalkSet /\ v2.seen = S /\ v2.had = k.had /\ v2.torn = b
  <2>1. b \in BOOLEAN
    BY <1>10
  <2>2. QED
    BY <1>14, <1>18, <2>1 DEF WalkSet
<1>20. v3 \in WalkSet /\ v3.seen = S /\ v3.had = k.had /\ v3.torn = b /\ v3.step = s
  <2>1. s \in {"next", "done"}
    BY <1>11
  <2>2. QED
    BY <1>15, <1>19, <2>1 DEF WalkSet
<1>21. w \in WalkSet /\ w.seen = S /\ w.had = k.had /\ w.torn = b /\ w.step = s /\ w.page = p + 1
  <2>1. p + 1 \in Nat \ {0}
    BY <1>3, <1>4
  <2>2. QED
    BY <1>16, <1>20, <2>1 DEF WalkSet
<1>22. Ahead(rows, k.had, S, PageOffset(p + 1))
  <2> SUFFICES ASSUME NEW r \in k.had \ S
               PROVE  \E i \in DOMAIN rows : rows[i].req = r /\ PageOffset(p + 1) <= Pos(rows, i)
    BY DEF Ahead
  <2>1. r \in k.had \ k.seen /\ r \notin read
    BY <1>9
  <2>2. PICK i \in DOMAIN rows : rows[i].req = r /\ o <= Pos(rows, i)
    BY <1>2, <1>3, <1>4, <2>1 DEF Ahead
  <2>3. i \notin page
    BY <1>7, <2>1, <2>2
  <2>4. Pos(rows, i) \in Nat
    BY <2>2, PosBounded DEF RowsFit
  <2>5. o + PageSize <= Pos(rows, i)
    BY <1>1, <1>4, <1>6, <2>2, <2>3, <2>4
  <2>6. QED
    BY <1>4, <2>2, <2>5
<1>23. s = "done" /\ ~b => k.had \subseteq S
  <2> SUFFICES ASSUME s = "done", ~b, NEW r \in k.had, r \notin S
               PROVE  FALSE
    OBVIOUS
  <2>1. PICK i \in DOMAIN rows : PageOffset(p + 1) <= Pos(rows, i)
    BY <1>22 DEF Ahead
  <2>2. Pos(rows, i) \in Nat /\ Pos(rows, i) < n
    BY <1>1, <2>1, PosBounded DEF RowsFit
  <2>3. k.total = n
    BY <1>10
  <2>4. ~(p * PageSize < k.total)
    BY <1>11
  <2>5. p * PageSize \in Nat
    BY <1>3, <1>4
  <2>6. QED
    BY <1>1, <1>4, <2>1, <2>2, <2>3, <2>4, <2>5
<1>24. rows' = rows
  BY Zenon DEF ReadPage, costVars
<1>25. PICK z : z = walk' /\ z = w
  BY <1>17
<1>26. /\ z \in WalkSet
       /\ z.step \in {"next", "counted"} => Ahead(rows, z.had, z.seen, PageOffset(z.page))
       /\ z.step = "done" /\ ~z.torn => z.had \subseteq z.seen
  BY <1>21, <1>22, <1>23, <1>25
<1>27. QED
  BY <1>24, <1>25, <1>26 DEF WalkFits

LEMMA WalkStands ==
    ASSUME RowsFit, RowsFit', WalkFits, [Next]_vars, walk' = walk
    PROVE  WalkFits'
<1>1. PICK R, Q, k : R = rows /\ Q = rows' /\ k = walk /\ k = walk'
                     /\ R \in Seq(Row) /\ Q \in Seq(Row)
  BY DEF RowsFit
<1>2. DOMAIN R \subseteq DOMAIN Q /\ \A j \in DOMAIN R : Q[j].req = R[j].req
  BY <1>1, RowsGrow DEF Grows
<1>3. k \in WalkSet /\ (k.step = "done" /\ ~k.torn => k.had \subseteq k.seen)
  BY <1>1 DEF WalkFits
<1>4. ASSUME k.step \in {"next", "counted"}
      PROVE  Ahead(Q, k.had, k.seen, PageOffset(k.page))
  <2>1. PICK had, seen, o : had = k.had /\ seen = k.seen /\ o = PageOffset(k.page)
    OBVIOUS
  <2>2. Ahead(R, had, seen, o)
    BY <1>1, <1>4, <2>1 DEF WalkFits
  <2>3. k.page \in Nat \ {0}
    BY <1>3 DEF WalkSet
  <2>4. o \in Nat
    BY <2>1, <2>3, OffsetCounts
  <2>5. Ahead(Q, had, seen, o)
    BY <1>1, <1>2, <2>2, <2>4, AheadStands
  <2>6. QED
    BY <2>1, <2>5
<1>5. QED
  BY <1>1, <1>3, <1>4 DEF WalkFits

LEMMA WalkStep ==
    ASSUME RowsFit, RowsFit', WalkFits, [Next]_vars
    PROVE  WalkFits'
<1>1. StartWalk \/ CountPage \/ ReadPage \/ walk' = walk
  BY DEF Next, Paging, Browser, Announce, webVars, vars, Greet, Subscribe, PushEvent, Unsubscribe,
     runScheduledRefresh, AnswerRefresh, EndRefresh
<1>2. QED
  BY <1>1, StartFits, CountFits, PageFits, WalkStands

LEMMA WalkBegins == Init => WalkFits
<1> SUFFICES ASSUME Init
             PROVE  WalkFits
  OBVIOUS
<1>1. walk = NoWalk
  BY DEF Init
<1>2. PICK w : w = walk /\ w \in WalkSet /\ w.step = "off"
  BY <1>1, NoWalkFits, Zenon
<1>3. QED
  BY <1>2 DEF WalkFits

\* A client that turns the pages until the total of the last answer is reached has
\* seen every request that was listed when it began: what is left to see is on a
\* page it has yet to read, since rows only move down the list.
THEOREM DashboardWalkMissesNothing == Spec => []WalkMissesNothing
<1>1. Init => LedgerFits /\ WalkFits
  BY LedgerStep, WalkBegins
<1>2. LedgerFits /\ WalkFits /\ [Next]_vars => LedgerFits' /\ WalkFits'
  <2> SUFFICES ASSUME LedgerFits, WalkFits, [Next]_vars
               PROVE  LedgerFits' /\ WalkFits'
    OBVIOUS
  <2>1. LedgerFits'
    BY LedgerStep
  <2>2. RowsFit /\ RowsFit'
    BY <2>1 DEF LedgerFits
  <2>3. QED
    BY <2>1, <2>2, WalkStep
<1>3. WalkFits => WalkMissesNothing
  BY DEF WalkFits, WalkMissesNothing
<1>4. QED
  BY <1>1, <1>2, <1>3, PTL DEF Spec

-----------------------------------------------------------------------------
(* Types.                                                                   *)

BrowserFits ==
    /\ channel \in {"", "claude", "codex"} /\ (channel # "" => stream = "open")
    /\ stream \in {"closed", "greeted", "open"}
    /\ refresh \in {"idle", "asked", "answered"}
    /\ timer \in BOOLEAN /\ again \in BOOLEAN /\ (again => refresh # "idle")
    /\ shown \subseteq Requests /\ owed \subseteq Requests
    /\ visits \in 0 .. MaxVisits

LEMMA BrowserStep ==
    ASSUME BrowserFits, [Next]_vars
    PROVE  BrowserFits'
<1>0. MaxVisits \in Nat /\ visits \in 0 .. MaxVisits
  <2>1. MaxVisits \in Nat
    BY QueryAssumption
  <2>2. visits \in 0 .. MaxVisits
    BY Zenon DEF BrowserFits
  <2>3. QED
    BY <2>1, <2>2
<1>8. /\ channel \in {"", "claude", "codex"} /\ (channel # "" => stream = "open")
      /\ stream \in {"closed", "greeted", "open"}
      /\ refresh \in {"idle", "asked", "answered"}
      /\ shown \subseteq Requests /\ owed \subseteq Requests
  BY Zenon DEF BrowserFits
<1>9. timer \in BOOLEAN /\ again \in BOOLEAN /\ (again => refresh # "idle")
  BY Zenon DEF BrowserFits
<1>1. CASE UNCHANGED <<visits, browserVars>>
  BY <1>1 DEF BrowserFits, browserVars
<1>2. CASE StartWalk
  <2>1. visits < MaxVisits /\ visits' = visits + 1
    BY <1>2, Zenon DEF StartWalk
  <2>2. visits' \in 0 .. MaxVisits
    BY <1>0, <2>1
  <2>3. UNCHANGED <<channel, stream, timer, refresh, again, shown, owed>>
    BY <1>2, Zenon DEF StartWalk, browserVars
  <2>4. QED
    BY <1>8, <1>9, <2>2, <2>3, Zenon DEF BrowserFits
<1>3. CASE Greet
  <2>1. stream = "closed" /\ visits < MaxVisits /\ stream' = "greeted" /\ timer' = TRUE
        /\ visits' = visits + 1 /\ UNCHANGED <<channel, refresh, again, shown, owed>>
    BY <1>3, Zenon DEF Greet
  <2>2. visits' \in 0 .. MaxVisits
    BY <1>0, <2>1
  <2>3. channel' = ""
    BY <1>8, <2>1
  <2>4. QED
    BY <1>8, <1>9, <2>1, <2>2, <2>3, Zenon DEF BrowserFits
<1>4. CASE Subscribe
  <2>1. stream' = "open" /\ UNCHANGED <<visits, channel, timer, refresh, again, shown, owed>>
    BY <1>4, Zenon DEF Subscribe
  <2>2. QED
    BY <1>0, <1>8, <1>9, <2>1, Zenon DEF BrowserFits
<1>10. CASE PushEvent
  <2>1. channel' = "" /\ timer' = TRUE /\ UNCHANGED <<visits, stream, refresh, again, shown, owed>>
    BY <1>10, Zenon DEF PushEvent
  <2>2. QED
    BY <1>0, <1>8, <1>9, <2>1, Zenon DEF BrowserFits
<1>11. CASE Unsubscribe
  <2>1. /\ stream' = "closed" /\ channel' = "" /\ owed' = {}
        /\ UNCHANGED <<visits, timer, refresh, again, shown>>
    BY <1>11, Zenon DEF Unsubscribe
  <2>2. QED
    BY <1>0, <1>8, <1>9, <2>1, Zenon DEF BrowserFits
<1>5. CASE runScheduledRefresh \/ AnswerRefresh \/ EndRefresh
  <2>1. UNCHANGED <<visits, channel, stream>>
    BY <1>5 DEF runScheduledRefresh, AnswerRefresh, EndRefresh
  <2>2. QED
    BY <1>5, <2>1 DEF runScheduledRefresh, AnswerRefresh, EndRefresh, BrowserFits, Stored
<1>6. ASSUME NEW r \in Requests, Announce(r)
      PROVE  BrowserFits'
  <2>1. PICK tag \in {"claude", "codex"} : channel' = IF stream = "open" /\ channel = "" THEN tag
                                                      ELSE channel
    BY <1>6 DEF Announce, NotifySource, Tags
  <2>2. /\ owed' = IF stream = "open" THEN owed \cup {r} ELSE owed
        /\ UNCHANGED <<visits, stream, timer, refresh, again, shown>>
    BY <1>6 DEF Announce
  <2>3. QED
    BY <2>1, <2>2 DEF BrowserFits
<1>7. QED
  BY <1>1, <1>2, <1>3, <1>4, <1>5, <1>6, <1>10, <1>11
     DEF Next, Paging, Browser, CountPage, ReadPage, webVars, vars

\* Rows, totals, the recompute, the paging client and the browser keep their types:
\* totals stay natural numbers though a completion moves them by a difference.
THEOREM DashboardTypeCorrect == Spec => []TypeOK
<1>1. Init => LedgerFits /\ WalkFits /\ BrowserFits
  <2>1. Init => BrowserFits
    <3> SUFFICES ASSUME Init
                 PROVE  BrowserFits
      OBVIOUS
    <3>1. 0 \in 0 .. MaxVisits
      BY QueryAssumption
    <3>2. /\ channel = "" /\ stream = "closed" /\ timer = FALSE /\ refresh = "idle"
          /\ again = FALSE /\ shown = {} /\ owed = {} /\ visits = 0
      BY Zenon DEF Init
    <3>3. /\ channel \in {"", "claude", "codex"} /\ stream \in {"closed", "greeted", "open"}
          /\ refresh \in {"idle", "asked", "answered"}
          /\ shown \subseteq Requests /\ owed \subseteq Requests
      BY <3>2
    <3>4. timer \in BOOLEAN /\ again \in BOOLEAN
      BY <3>2, Zenon
    <3>5. QED
      BY <3>1, <3>2, <3>3, <3>4, Zenon DEF BrowserFits
  <2>2. QED
    BY <2>1, LedgerStep, WalkBegins
<1>2. LedgerFits /\ WalkFits /\ BrowserFits /\ [Next]_vars => LedgerFits' /\ WalkFits' /\ BrowserFits'
  <2> SUFFICES ASSUME LedgerFits, WalkFits, BrowserFits, [Next]_vars
               PROVE  LedgerFits' /\ WalkFits' /\ BrowserFits'
    OBVIOUS
  <2>1. LedgerFits'
    BY LedgerStep
  <2>2. RowsFit /\ RowsFit'
    BY <2>1 DEF LedgerFits
  <2>3. QED
    BY <2>1, <2>2, WalkStep, BrowserStep
<1>3. LedgerFits /\ WalkFits /\ BrowserFits => TypeOK
  <2> SUFFICES ASSUME RowsFit, JobFits, AggFits, WalkFits, BrowserFits
               PROVE  TypeOK
    BY DEF LedgerFits
  <2>1. PICK ids : ids = DOMAIN job.snap /\ job \in JobSet(ids)
    BY DEF JobFits
  <2>2. ids \in SUBSET DOMAIN rows
    BY <2>1 DEF JobFits, CopyFits
  <2>3. \E s \in SUBSET DOMAIN rows : job \in JobSet(s)
    BY <2>1, <2>2
  <2>4. CostTypeOK
    BY <2>3 DEF CostTypeOK, RowsFit, AggFits, JobSet
  <2>5. QED
    BY <2>4 DEF TypeOK, WalkFits, WalkSet, BrowserFits
<1>4. QED
  BY <1>1, <1>2, <1>3, PTL DEF Spec
=============================================================================
