------------------------ MODULE TrafficSamplerProofs ------------------------
(***************************************************************************)
(* Proofs about the polling collector.  First the sums of the model are    *)
(* given laws of their own; then the inductive invariant that keeps every  *)
(* cursor in the engine start it names; then, on top of it, what the       *)
(* ledger has billed, which seconds it has covered, and what the domain    *)
(* rows can hold.                                                          *)
(***************************************************************************)
EXTENDS TrafficSampler, FiniteSetTheorems, TLAPS

-----------------------------------------------------------------------------

(***************************************************************************)
(* Sums over finite sets.  MapThenSumSet is a recursive function over the  *)
(* subsets of a set; that such a function exists, and that the sum does not*)
(* depend on the order in which elements are chosen, is shown by looking at*)
(* a smallest subset for which it would fail.                              *)
(***************************************************************************)
Chosen(s) == CHOOSE x \in s : TRUE

Unfolds(it, f, S) ==
  it = [s \in SUBSET S |->
          IF s = {} THEN 0 ELSE f[Chosen(s)] + it[s \ {Chosen(s)}]]

SumIter(f, S) == CHOOSE it : Unfolds(it, f, S)
SumOn(f, S) == SumIter(f, S)[S]

\* A set of finite sets has a smallest one.
LEMMA SmallestSubset ==
  ASSUME NEW U, IsFiniteSet(U), NEW C \in SUBSET SUBSET U, C # {}
  PROVE  \E s \in C : \A t \in SUBSET s : t # s => t \notin C
<1>1. C \subseteq FiniteSubsetsOf(U)
  BY FS_FiniteSubsetsOfFinite
<1>2. IsWellFoundedOn(StrictSubsetOrdering(U), FiniteSubsetsOf(U))
  BY FS_StrictSubsetOrderingWellFounded
<1>3. PICK s \in C : \A t \in C : ~ (<<t, s>> \in StrictSubsetOrdering(U))
  BY <1>1, <1>2, WFMin
<1>4. \A t \in SUBSET s : t # s /\ t \in C => <<t, s>> \in StrictSubsetOrdering(U)
  <2> SUFFICES ASSUME NEW t \in SUBSET s, t # s, t \in C
               PROVE  <<t, s>> \in StrictSubsetOrdering(U)
    OBVIOUS
  <2>1. <<t, s>> \in (SUBSET U) \X (SUBSET U)
    OBVIOUS
  <2> QED BY <2>1 DEF StrictSubsetOrdering
<1>5. \A t \in SUBSET s : t # s => t \notin C
  <2> HIDE DEF StrictSubsetOrdering
  <2> QED BY <1>3, <1>4
<1> QED BY <1>5

LEMMA ChosenIsMember == ASSUME NEW s, s # {} PROVE Chosen(s) \in s
BY DEF Chosen

LEMMA SumOfUnfolds == ASSUME NEW f PROVE SumOf(f) = SumOn(f, DOMAIN f)
BY DEF SumOf, MapThenSumSet, MapThenFoldSet, SumOn, SumIter, Unfolds, Chosen

\* The recursion determines its values.
LEMMA IterIsUnique ==
  ASSUME NEW S, IsFiniteSet(S), NEW f, NEW g, NEW i, NEW j,
         \A x \in S : f[x] = g[x], Unfolds(i, f, S), Unfolds(j, g, S)
  PROVE  i = j
<1>1. \A s \in SUBSET S : i[s] = j[s]
  <2> DEFINE C == {s \in SUBSET S : i[s] # j[s]}
  <2> SUFFICES ASSUME C # {} PROVE FALSE OBVIOUS
  <2>1. PICK s \in C : \A t \in SUBSET s : t # s => t \notin C
    BY SmallestSubset
  <2>2. s # {}
    BY <2>1 DEF Unfolds
  <2>3. Chosen(s) \in s
    BY <2>2, ChosenIsMember
  <2> DEFINE r == s \ {Chosen(s)}
  <2>4. i[r] = j[r]
    BY <2>1, <2>3
  <2>5. i[s] = f[Chosen(s)] + i[r] /\ j[s] = g[Chosen(s)] + j[r]
    BY <2>1, <2>2 DEF Unfolds
  <2> QED BY <2>1, <2>3, <2>4, <2>5
<1> QED BY <1>1 DEF Unfolds

\* A part of the recursion is the recursion of the part.
LEMMA IterRestricts ==
  ASSUME NEW S, NEW f, NEW i, Unfolds(i, f, S), NEW s \in SUBSET S
  PROVE  Unfolds([r \in SUBSET s |-> i[r]], f, s)
<1> DEFINE j == [r \in SUBSET s |-> i[r]]
<1>1. ASSUME NEW r \in SUBSET s
      PROVE  j[r] = IF r = {} THEN 0 ELSE f[Chosen(r)] + j[r \ {Chosen(r)}]
  BY DEF Unfolds
<1> QED BY <1>1 DEF Unfolds

\* The recursion over a finite set has a solution.
LEMMA IterExists ==
  ASSUME NEW S, IsFiniteSet(S), NEW f PROVE \E it : Unfolds(it, f, S)
<1> DEFINE C == {s \in SUBSET S : ~ \E it : Unfolds(it, f, s)}
<1> SUFFICES ASSUME C # {} PROVE FALSE
  OBVIOUS
<1>1. PICK s \in C : \A t \in SUBSET s : t # s => t \notin C
  <2> HIDE DEF C
  <2>1. C \in SUBSET SUBSET S
    BY DEF C
  <2> QED BY <2>1, SmallestSubset
<1>2. \A t \in SUBSET s : t # s => Unfolds(SumIter(f, t), f, t)
  BY <1>1 DEF SumIter
<1>3. ASSUME NEW t \in SUBSET s, t # s, NEW r \in SUBSET t
      PROVE  SumIter(f, t)[r] = SumOn(f, r)
  <2>1. IsFiniteSet(r)
    BY FS_Subset
  <2>2. Unfolds([q \in SUBSET r |-> SumIter(f, t)[q]], f, r)
    BY <1>2, <1>3, IterRestricts
  <2>3. r # s
    BY <1>3
  <2>4. Unfolds(SumIter(f, r), f, r)
    BY <1>2, <1>3, <2>3
  <2>5. [q \in SUBSET r |-> SumIter(f, t)[q]] = SumIter(f, r)
    BY <2>1, <2>2, <2>4, IterIsUnique
  <2>6. [q \in SUBSET r |-> SumIter(f, t)[q]][r] = SumIter(f, t)[r]
    OBVIOUS
  <2> QED BY <2>5, <2>6 DEF SumOn
<1> DEFINE it == [r \in SUBSET s |->
                    IF r = {} THEN 0
                    ELSE f[Chosen(r)] + SumOn(f, r \ {Chosen(r)})]
<1>4. ASSUME NEW r \in SUBSET s, r # s
      PROVE  it[r] = SumOn(f, r)
  <2>1. Unfolds(SumIter(f, r), f, r)
    BY <1>2, <1>4
  <2>2. CASE r = {}
    BY <2>1, <2>2 DEF SumOn, Unfolds
  <2>3. CASE r # {}
    <3>1. Chosen(r) \in r
      BY <2>3, ChosenIsMember
    <3>2. SumIter(f, r)[r] = f[Chosen(r)] + SumIter(f, r)[r \ {Chosen(r)}]
      BY <2>1, <2>3 DEF Unfolds
    <3>3. SumIter(f, r)[r \ {Chosen(r)}] = SumOn(f, r \ {Chosen(r)})
      BY <1>3, <1>4
    <3> QED BY <2>3, <3>2, <3>3 DEF SumOn
  <2> QED BY <2>2, <2>3
<1>5. ASSUME NEW r \in SUBSET s, r # {}
      PROVE  it[r \ {Chosen(r)}] = SumOn(f, r \ {Chosen(r)})
  <2>1. Chosen(r) \in r
    BY <1>5, ChosenIsMember
  <2>2. r \ {Chosen(r)} \in SUBSET s /\ r \ {Chosen(r)} # s
    BY <2>1
  <2> HIDE DEF it
  <2> QED BY <1>4, <2>2
<1>6. ASSUME NEW r \in SUBSET s
      PROVE  it[r] = IF r = {} THEN 0 ELSE f[Chosen(r)] + it[r \ {Chosen(r)}]
  <2>1. it[r] = IF r = {} THEN 0 ELSE f[Chosen(r)] + SumOn(f, r \ {Chosen(r)})
    OBVIOUS
  <2> HIDE DEF it
  <2> QED BY <2>1, <1>5
<1>7. it = [r \in SUBSET s |-> IF r = {} THEN 0
                               ELSE f[Chosen(r)] + it[r \ {Chosen(r)}]]
  <2> DEFINE k == [r \in SUBSET s |-> IF r = {} THEN 0
                               ELSE f[Chosen(r)] + it[r \ {Chosen(r)}]]
  <2>1. \A r \in SUBSET s : it[r] = k[r]
    <3> HIDE DEF it
    <3> QED BY <1>6
  <2> QED BY <2>1
<1>8. Unfolds(it, f, s)
  BY <1>7 DEF Unfolds
<1> QED BY <1>1, <1>8

LEMMA SumUnfolds ==
  ASSUME NEW S, IsFiniteSet(S), NEW f
  PROVE  /\ SumOn(f, {}) = 0
         /\ S # {} => /\ Chosen(S) \in S
                      /\ SumOn(f, S) = f[Chosen(S)] + SumOn(f, S \ {Chosen(S)})
<1>1. \A T : IsFiniteSet(T) => Unfolds(SumIter(f, T), f, T)
  BY IterExists DEF SumIter
<1>2. SumOn(f, {}) = 0
  BY <1>1, FS_EmptySet DEF SumOn, Unfolds
<1>3. ASSUME S # {}
      PROVE  /\ Chosen(S) \in S
             /\ SumOn(f, S) = f[Chosen(S)] + SumOn(f, S \ {Chosen(S)})
  <2>1. Chosen(S) \in S
    BY <1>3, ChosenIsMember
  <2> DEFINE r == S \ {Chosen(S)}
             i == SumIter(f, S)
  <2>2. IsFiniteSet(r)
    BY FS_Subset
  <2>3. Unfolds(i, f, S) /\ Unfolds(SumIter(f, r), f, r)
    BY <1>1, <2>2
  <2>4. i[S] = f[Chosen(S)] + i[r]
    BY <1>3, <2>3 DEF Unfolds
  <2>5. Unfolds([q \in SUBSET r |-> i[q]], f, r)
    <3>1. r \in SUBSET S
      OBVIOUS
    <3> HIDE DEF i, r
    <3> QED BY <2>3, <3>1, IterRestricts
  <2>6. [q \in SUBSET r |-> i[q]] = SumIter(f, r)
    <3> HIDE DEF i, r
    <3> QED BY <2>2, <2>3, <2>5, IterIsUnique
  <2>7. [q \in SUBSET r |-> i[q]][r] = i[r]
    OBVIOUS
  <2> QED BY <2>1, <2>4, <2>6, <2>7 DEF SumOn
<1> QED BY <1>2, <1>3

LEMMA SumOnEqual ==
  ASSUME NEW S, IsFiniteSet(S), NEW f, NEW g, \A x \in S : f[x] = g[x]
  PROVE  SumOn(f, S) = SumOn(g, S)
<1>1. Unfolds(SumIter(f, S), f, S) /\ Unfolds(SumIter(g, S), g, S)
  BY IterExists DEF SumIter
<1>2. SumIter(f, S) = SumIter(g, S)
  BY <1>1, IterIsUnique
<1> QED BY <1>2 DEF SumOn

LEMMA SumOnType ==
  ASSUME NEW S, IsFiniteSet(S), NEW f, \A x \in S : f[x] \in Int
  PROVE  SumOn(f, S) \in Int
<1> DEFINE C == {s \in SUBSET S : SumOn(f, s) \notin Int}
<1> SUFFICES ASSUME C # {} PROVE FALSE
  OBVIOUS
<1>1. PICK s \in C : \A t \in SUBSET s : t # s => t \notin C
  <2> HIDE DEF C
  <2>1. C \in SUBSET SUBSET S
    BY DEF C
  <2> QED BY <2>1, SmallestSubset
<1>2. IsFiniteSet(s)
  BY FS_Subset
<1>3. s # {}
  <2>1. SumOn(f, {}) = 0
    BY FS_EmptySet, SumUnfolds
  <2>2. SumOn(f, s) \notin Int
    OBVIOUS
  <2> QED BY <2>1, <2>2
<1>4. Chosen(s) \in s /\ SumOn(f, s) = f[Chosen(s)] + SumOn(f, s \ {Chosen(s)})
  BY <1>2, <1>3, SumUnfolds
<1>5. SumOn(f, s \ {Chosen(s)}) \in Int
  BY <1>1, <1>4
<1> QED BY <1>1, <1>4, <1>5

\* Any element may be taken out first.
LEMMA SumOnRemove ==
  ASSUME NEW S, IsFiniteSet(S), NEW f, \A x \in S : f[x] \in Int, NEW x \in S
  PROVE  SumOn(f, S) = f[x] + SumOn(f, S \ {x})
<1> DEFINE Fails(s, y) == SumOn(f, s) # f[y] + SumOn(f, s \ {y})
           C == {s \in SUBSET S : \E y \in s : Fails(s, y)}
<1> SUFFICES ASSUME C # {} PROVE FALSE
  OBVIOUS
<1>1. PICK s \in C : \A t \in SUBSET s : t # s => t \notin C
  <2> HIDE DEF C
  <2>1. C \in SUBSET SUBSET S
    BY DEF C
  <2> QED BY <2>1, SmallestSubset
<1>2. PICK y \in s : Fails(s, y)
  BY <1>1
<1> DEFINE c == Chosen(s)
           r == (s \ {c}) \ {y}
<1>3. \A t \in SUBSET S : IsFiniteSet(t) /\ SumOn(f, t) \in Int
  <2> TAKE t \in SUBSET S
  <2>1. IsFiniteSet(t)
    BY FS_Subset
  <2> QED BY <2>1, SumOnType
<1>4. c \in s /\ SumOn(f, s) = f[c] + SumOn(f, s \ {c})
  BY <1>2, <1>3, SumUnfolds
<1>5. c # y
  BY <1>2, <1>4
<1>6. SumOn(f, s \ {c}) = f[y] + SumOn(f, r)
  <2>1. s \ {c} \notin C
    <3> HIDE DEF C
    <3> QED BY <1>1, <1>4
  <2> QED BY <1>2, <1>5, <2>1
<1>7. SumOn(f, s \ {y}) = f[c] + SumOn(f, r)
  <2>1. s \ {y} \notin C
    <3> HIDE DEF C
    <3> QED BY <1>1, <1>2
  <2>2. (s \ {y}) \ {c} = r
    OBVIOUS
  <2>3. SumOn(f, s \ {y}) = f[c] + SumOn(f, (s \ {y}) \ {c})
    BY <1>4, <1>5, <2>1
  <2> QED BY <2>2, <2>3
<1>8. f[c] \in Int /\ f[y] \in Int /\ SumOn(f, r) \in Int
  BY <1>2, <1>3, <1>4
<1> QED BY <1>2, <1>4, <1>6, <1>7, <1>8

-----------------------------------------------------------------------------
(***************************************************************************)
(* What is used of sums: for functions f, g, h on a finite set S.          *)
(***************************************************************************)
LEMMA SumType ==
  ASSUME NEW S, IsFiniteSet(S), NEW f \in [S -> Int]
  PROVE  SumOf(f) \in Int /\ SumOf(f) = SumOn(f, S)
<1>1. SumOf(f) = SumOn(f, S)
  BY SumOfUnfolds
<1> QED BY <1>1, SumOnType

LEMMA SumAdd ==
  ASSUME NEW S, IsFiniteSet(S), NEW f \in [S -> Int], NEW g \in [S -> Int],
         NEW h \in [S -> Int], \A x \in S : h[x] = f[x] + g[x]
  PROVE  SumOf(h) = SumOf(f) + SumOf(g)
<1> DEFINE C == {s \in SUBSET S : SumOn(h, s) # SumOn(f, s) + SumOn(g, s)}
<1>1. C = {}
  <2> SUFFICES ASSUME C # {} PROVE FALSE
    OBVIOUS
  <2>1. PICK s \in C : \A t \in SUBSET s : t # s => t \notin C
    <3> HIDE DEF C
    <3>1. C \in SUBSET SUBSET S
      BY DEF C
    <3> QED BY <3>1, SmallestSubset
  <2>2. \A t \in SUBSET S : /\ IsFiniteSet(t) /\ SumOn(f, t) \in Int
                            /\ SumOn(g, t) \in Int /\ SumOn(h, t) \in Int
    <3> TAKE t \in SUBSET S
    <3>1. IsFiniteSet(t)
      BY FS_Subset
    <3> QED BY <3>1, SumOnType
  <2>3. PICK c \in s : TRUE
    <3>1. SumOn(f, {}) = 0 /\ SumOn(g, {}) = 0 /\ SumOn(h, {}) = 0
      BY FS_EmptySet, SumUnfolds
    <3>2. SumOn(h, s) # SumOn(f, s) + SumOn(g, s)
      OBVIOUS
    <3>3. s # {}
      BY <3>1, <3>2
    <3> QED BY <3>3
  <2>4. /\ SumOn(f, s) = f[c] + SumOn(f, s \ {c})
        /\ SumOn(g, s) = g[c] + SumOn(g, s \ {c})
        /\ SumOn(h, s) = h[c] + SumOn(h, s \ {c})
    <3>1. \A x \in s : f[x] \in Int /\ g[x] \in Int /\ h[x] \in Int
      OBVIOUS
    <3> HIDE DEF C
    <3> QED BY <2>2, <3>1, SumOnRemove DEF C
  <2>5. SumOn(h, s \ {c}) = SumOn(f, s \ {c}) + SumOn(g, s \ {c})
    BY <2>1
  <2>6. f[c] \in Int /\ g[c] \in Int /\ h[c] = f[c] + g[c]
    OBVIOUS
  <2>7. SumOn(f, s \ {c}) \in Int /\ SumOn(g, s \ {c}) \in Int
    BY <2>2
  <2>8. SumOn(h, s) # SumOn(f, s) + SumOn(g, s)
    OBVIOUS
  <2> HIDE DEF C
  <2> QED BY <2>4, <2>5, <2>6, <2>7, <2>8
<1>2. SumOn(h, S) = SumOn(f, S) + SumOn(g, S)
  BY <1>1
<1> QED BY <1>2, SumType

LEMMA SumNonnegative ==
  ASSUME NEW S, IsFiniteSet(S), NEW f \in [S -> Nat]
  PROVE  SumOf(f) \in Nat /\ \A x \in S : f[x] <= SumOf(f)
<1> DEFINE C == {s \in SUBSET S : SumOn(f, s) \notin Nat}
<1>0. f \in [S -> Int]
  OBVIOUS
<1>1. C = {}
  <2> SUFFICES ASSUME C # {} PROVE FALSE
    OBVIOUS
  <2>1. PICK s \in C : \A t \in SUBSET s : t # s => t \notin C
    <3> HIDE DEF C
    <3>1. C \in SUBSET SUBSET S
      BY DEF C
    <3> QED BY <3>1, SmallestSubset
  <2>2. IsFiniteSet(s)
    BY FS_Subset
  <2>3. s # {}
    <3>1. SumOn(f, {}) = 0
      BY FS_EmptySet, SumUnfolds
    <3>2. SumOn(f, s) \notin Nat
      OBVIOUS
    <3> QED BY <3>1, <3>2
  <2>4. Chosen(s) \in s /\ SumOn(f, s) = f[Chosen(s)] + SumOn(f, s \ {Chosen(s)})
    BY <2>2, <2>3, SumUnfolds
  <2>5. SumOn(f, s \ {Chosen(s)}) \in Nat
    BY <2>1, <2>4
  <2> QED BY <2>1, <2>4, <2>5
<1>2. \A s \in SUBSET S : SumOn(f, s) \in Nat
  BY <1>1
<1>3. SumOf(f) = SumOn(f, S)
  BY <1>0, SumType
<1>4. ASSUME NEW x \in S PROVE f[x] <= SumOf(f)
  <2>1. SumOn(f, S) = f[x] + SumOn(f, S \ {x})
    BY SumOnRemove
  <2>2. SumOn(f, S \ {x}) \in Nat
    BY <1>2
  <2> QED BY <1>3, <2>1, <2>2
<1> QED BY <1>2, <1>3, <1>4

LEMMA SumZero ==
  ASSUME NEW S, IsFiniteSet(S), NEW f \in [S -> Int], \A x \in S : f[x] = 0
  PROVE  SumOf(f) = 0
<1>1. SumOf(f) = SumOf(f) + SumOf(f) /\ SumOf(f) \in Int
  BY SumAdd, SumType
<1>2. \A n \in Int : n = n + n => n = 0
  OBVIOUS
<1> QED BY <1>1, <1>2

LEMMA SumMonotone ==
  ASSUME NEW S, IsFiniteSet(S), NEW f \in [S -> Int], NEW g \in [S -> Int],
         \A x \in S : f[x] <= g[x]
  PROVE  SumOf(f) <= SumOf(g)
<1> DEFINE d == [x \in S |-> g[x] - f[x]]
<1>1. d \in [S -> Nat] /\ d \in [S -> Int] /\ \A x \in S : g[x] = f[x] + d[x]
  OBVIOUS
<1>2. SumOf(g) = SumOf(f) + SumOf(d) /\ SumOf(d) \in Nat /\ SumOf(f) \in Int
  <2> HIDE DEF d
  <2> QED BY <1>1, SumAdd, SumType, SumNonnegative
<1> QED BY <1>2

\* One term changes.
LEMMA SumUpdate ==
  ASSUME NEW S, IsFiniteSet(S), NEW f \in [S -> Int], NEW g \in [S -> Int],
         NEW x \in S, \A y \in S \ {x} : g[y] = f[y]
  PROVE  SumOf(g) = SumOf(f) + g[x] - f[x]
<1>1. SumOn(f, S) = f[x] + SumOn(f, S \ {x}) /\ SumOn(g, S) = g[x] + SumOn(g, S \ {x})
  BY SumOnRemove
<1>2. IsFiniteSet(S \ {x})
  BY FS_RemoveElement
<1>3. SumOn(f, S \ {x}) = SumOn(g, S \ {x}) /\ SumOn(f, S \ {x}) \in Int
  BY <1>2, SumOnEqual, SumOnType
<1> QED BY <1>1, <1>3, SumType

-----------------------------------------------------------------------------
(***************************************************************************)
(* Numbers: smallest elements, and division with remainder thrown away.    *)
(***************************************************************************)
LEMMA SmallestNumber ==
  ASSUME NEW C \in SUBSET Nat, C # {}
  PROVE  \E n \in C : \A m \in C : n <= m
<1>1. PICK n \in C : \A m \in C : ~ (<<m, n>> \in OpToRel(<, Nat))
  BY NatLessThanWellFounded, WFMin
<1>2. \A m \in C : m < n => <<m, n>> \in OpToRel(<, Nat)
  BY DEF OpToRel
<1>3. \A m \in C : ~ (m < n)
  <2> HIDE DEF OpToRel
  <2> QED BY <1>1, <1>2
<1> QED BY <1>3

LEMMA DivMonotone ==
  ASSUME NEW a \in Int, NEW b \in Int, a <= b, NEW d \in Nat \ {0}
  PROVE  a \div d \in Int /\ b \div d \in Int /\ a \div d <= b \div d
OBVIOUS

LEMMA ProductMonotone ==
  ASSUME NEW x \in Nat, NEW a \in Int, NEW b \in Int, a <= b
  PROVE  x * a \in Int /\ x * b \in Int /\ x * a <= x * b
<1>1. b - a \in Nat /\ b = a + (b - a)
  OBVIOUS
<1>2. \A m, n \in Nat : m * n \in Nat
  OBVIOUS
<1>3. \A k \in Nat : x * (a + k) = x * a + x * k
  OBVIOUS
<1> QED BY <1>1, <1>2, <1>3

LEMMA DivOfProduct ==
  ASSUME NEW x \in Int, NEW d \in Nat \ {0} PROVE (x * d) \div d = x
<1>1. \A q \in Int : q = x * d => q \div d = x
  OBVIOUS
<1> QED BY <1>1

LEMMA DivOfNatural ==
  ASSUME NEW x \in Nat, NEW d \in Nat \ {0}
  PROVE  x \div d \in Nat
OBVIOUS

-----------------------------------------------------------------------------
(***************************************************************************)
(* Hosts in their order: sums that telescope over it.                      *)
(***************************************************************************)
N == Len(HostOrder)
Below(i) == {g \in Hosts : Rank(g) < i}

LEMMA HostFacts ==
  /\ N \in Nat
  /\ IsFiniteSet(Hosts)
  /\ \A i \in 1 .. N : HostOrder[i] \in Hosts /\ Rank(HostOrder[i]) = i
  /\ \A h \in Hosts : Rank(h) \in 1 .. N /\ HostOrder[Rank(h)] = h
<1>1. N \in Nat /\ HostOrder \in [1 .. N -> Hosts]
  BY SamplerAssumption DEF N
<1>2. IsFiniteSet(Hosts)
  <2>1. HostOrder \in Surjection(1 .. N, Hosts)
    BY <1>1 DEF Surjection, Hosts, N
  <2>2. IsFiniteSet(1 .. N)
    BY <1>1, FS_Interval
  <2> QED BY <2>1, <2>2, FS_Surjection
<1>3. \A h \in Hosts : Rank(h) \in 1 .. N /\ HostOrder[Rank(h)] = h
  BY DEF Hosts, Rank, N
<1>4. \A i \in 1 .. N : HostOrder[i] \in Hosts /\ Rank(HostOrder[i]) = i
  BY <1>1, <1>3, SamplerAssumption DEF N
<1> QED BY <1>1, <1>2, <1>3, <1>4

LEMMA BelowFacts ==
  /\ \A i \in 1 .. N + 1 : Below(i) \in SUBSET Hosts /\ IsFiniteSet(Below(i))
  /\ Below(1) = {} /\ Below(N + 1) = Hosts
  /\ \A i \in 1 .. N : /\ HostOrder[i] \in Below(i + 1)
                       /\ Below(i + 1) \ {HostOrder[i]} = Below(i)
<1>1. \A i \in 1 .. N + 1 : Below(i) \in SUBSET Hosts
  BY DEF Below
<1>2. \A i \in 1 .. N + 1 : IsFiniteSet(Below(i))
  BY <1>1, HostFacts, FS_Subset
<1>3. Below(1) = {} /\ Below(N + 1) = Hosts
  BY HostFacts DEF Below
<1>4. ASSUME NEW i \in 1 .. N
      PROVE  HostOrder[i] \in Below(i + 1) /\ Below(i + 1) \ {HostOrder[i]} = Below(i)
  <2>1. HostOrder[i] \in Below(i + 1)
    BY HostFacts DEF Below
  <2>2. \A g \in Hosts : g # HostOrder[i] => Rank(g) # i
    BY HostFacts
  <2>3. \A g \in Hosts : Rank(g) < i + 1 /\ Rank(g) # i <=> Rank(g) < i
    BY HostFacts
  <2> QED BY <2>1, <2>2, <2>3, HostFacts DEF Below
<1> QED BY <1>1, <1>2, <1>3, <1>4

LEMMA HostsTelescope ==
  ASSUME NEW D \in [Hosts -> Int], NEW G \in [1 .. N + 1 -> Int],
         \A i \in 1 .. N : D[HostOrder[i]] = G[i + 1] - G[i]
  PROVE  /\ \A i \in 1 .. N + 1 : SumOn(D, Below(i)) = G[i] - G[1]
         /\ SumOf(D) = G[N + 1] - G[1]
<1> DEFINE C == {i \in 1 .. N + 1 : SumOn(D, Below(i)) # G[i] - G[1]}
<1>0. N \in Nat
  BY HostFacts
<1>1. C = {}
  <2> SUFFICES ASSUME C # {} PROVE FALSE
    OBVIOUS
  <2>1. PICK j \in C : \A m \in C : j <= m
    <3>1. C \in SUBSET Nat
      BY <1>0
    <3> HIDE DEF C
    <3> QED BY <3>1, SmallestNumber
  <2>2. j # 1
    <3>1. SumOn(D, Below(1)) = 0
      <4>1. SumOn(D, {}) = 0 /\ Below(1) = {}
        BY BelowFacts, FS_EmptySet, SumUnfolds
      <4> QED BY <4>1
    <3>2. G[1] - G[1] = 0
      BY <1>0
    <3> QED BY <3>1, <3>2
  <2> DEFINE i == j - 1
  <2>3. i \in 1 .. N /\ i + 1 = j
    BY <1>0, <2>2
  <2>4. SumOn(D, Below(j)) = D[HostOrder[i]] + SumOn(D, Below(i))
    <3>1. /\ IsFiniteSet(Below(j)) /\ HostOrder[i] \in Below(j)
          /\ Below(j) \ {HostOrder[i]} = Below(i) /\ Below(j) \in SUBSET Hosts
      BY <1>0, <2>3, BelowFacts
    <3>2. \A x \in Below(j) : D[x] \in Int
      BY <3>1
    <3> HIDE DEF C, i
    <3> QED BY <3>1, <3>2, SumOnRemove
  <2>5. SumOn(D, Below(i)) = G[i] - G[1]
    <3>1. i \notin C
      <4> HIDE DEF C
      <4> QED BY <1>0, <2>1, <2>3
    <3> QED BY <1>0, <2>3, <3>1
  <2>6. G[i] \in Int /\ G[j] \in Int /\ G[1] \in Int /\ D[HostOrder[i]] = G[j] - G[i]
    BY <1>0, <2>3
  <2> QED BY <2>4, <2>5, <2>6
<1>2. SumOn(D, Below(N + 1)) = SumOf(D)
  BY BelowFacts, HostFacts, SumType
<1>3. \A i \in 1 .. N + 1 : SumOn(D, Below(i)) = G[i] - G[1]
  BY <1>1
<1>4. N + 1 \in 1 .. N + 1
  BY <1>0
<1> HIDE DEF C
<1> QED BY <1>2, <1>3, <1>4

-----------------------------------------------------------------------------
(***************************************************************************)
(* Spread: parts by cumulative integer division.                           *)
(***************************************************************************)
LEMMA DivDifference ==
  ASSUME NEW a \in Int, NEW b \in Int, NEW w \in Nat \ {0}
  PROVE  /\ w * ((b \div w) - (a \div w)) <= (b - a) + (w - 1)
         /\ (b - a) - (w - 1) <= w * ((b \div w) - (a \div w))
<1> DEFINE p == a \div w
           q == b \div w
           r == a % w
           s == b % w
<1>1. /\ p \in Int /\ q \in Int /\ r \in 0 .. w - 1 /\ s \in 0 .. w - 1
      /\ a = w * p + r /\ b = w * q + s
  OBVIOUS
<1> HIDE DEF p, q, r, s
<1>2. w * (q - p) = w * q - w * p /\ w * q \in Int /\ w * p \in Int
  BY <1>1
<1> QED BY <1>1, <1>2 DEF p, q

LEMMA PrecedingIsBelow ==
  ASSUME NEW u \in [Hosts -> Nat], NEW h \in Hosts
  PROVE  /\ Preceding(u, h) = SumOn(u, Below(Rank(h)))
         /\ Preceding(u, h) \in Nat
         /\ Preceding(u, h) + u[h] = SumOn(u, Below(Rank(h) + 1))
<1> DEFINE S == Below(Rank(h))
           T == Below(Rank(h) + 1)
           v == [g \in S |-> u[g]]
<1>1. /\ Rank(h) \in 1 .. N /\ HostOrder[Rank(h)] = h /\ N \in Nat
  BY HostFacts
<1>2. /\ S \in SUBSET Hosts /\ IsFiniteSet(S) /\ T \in SUBSET Hosts /\ IsFiniteSet(T)
      /\ h \in T /\ T \ {h} = S
  BY <1>1, BelowFacts
<1>3. Preceding(u, h) = SumOf(v)
  BY DEF Preceding, Below
<1>4. v \in [S -> Nat] /\ v \in [S -> Int] /\ \A g \in S : v[g] = u[g]
  BY <1>2
<1>5. SumOf(v) = SumOn(u, S) /\ SumOf(v) \in Nat
  <2> HIDE DEF v, S
  <2>1. SumOf(v) = SumOn(v, S)
    BY <1>2, <1>4, SumType
  <2>2. SumOn(v, S) = SumOn(u, S)
    BY <1>2, <1>4, SumOnEqual
  <2>3. SumOf(v) \in Nat
    BY <1>2, <1>4, SumNonnegative
  <2> QED BY <2>1, <2>2, <2>3
<1>6. SumOn(u, T) = u[h] + SumOn(u, S)
  <2>1. \A g \in T : u[g] \in Int
    BY <1>2
  <2> HIDE DEF T, S
  <2> QED BY <1>2, <2>1, SumOnRemove
<1>7. u[h] \in Nat
  OBVIOUS
<1> HIDE DEF S, T, v
<1>8. Preceding(u, h) + u[h] = SumOn(u, T)
  BY <1>3, <1>5, <1>6, <1>7
<1> QED BY <1>3, <1>5, <1>8 DEF S, T

\* The parts are natural numbers, add up to the whole, and each is proportional
\* but for rounding.
LEMMA SpreadFacts ==
  ASSUME NEW x \in Nat, NEW u \in [Hosts -> Nat], NEW w \in Nat \ {0}
  PROVE  /\ Spread(x, u, w) \in [Hosts -> Nat]
         /\ w = SumOf(u) => SumOf(Spread(x, u, w)) = x
         /\ \A h \in Hosts :
              /\ w * Spread(x, u, w)[h] <= x * u[h] + (w - 1)
              /\ x * u[h] - (w - 1) <= w * Spread(x, u, w)[h]
<1> DEFINE F == Spread(x, u, w)
           U(i) == SumOn(u, Below(i))
           G == [i \in 1 .. N + 1 |-> (x * U(i)) \div w]
<1>1. \A h \in Hosts :
        /\ Preceding(u, h) \in Nat /\ u[h] \in Nat
        /\ Preceding(u, h) = U(Rank(h)) /\ Preceding(u, h) + u[h] = U(Rank(h) + 1)
  BY PrecedingIsBelow
<1>2. ASSUME NEW h \in Hosts
      PROVE  /\ F[h] \in Nat
             /\ w * F[h] <= x * u[h] + (w - 1)
             /\ x * u[h] - (w - 1) <= w * F[h]
  <2> DEFINE P == Preceding(u, h)
             a == x * P
             b == x * (P + u[h])
  <2>1. P \in Nat /\ u[h] \in Nat
    BY <1>1
  <2>2. F[h] = (b \div w) - (a \div w)
    BY DEF Spread
  <2>3. a \in Int /\ b \in Int /\ a <= b
    <3> HIDE DEF P
    <3> QED BY <2>1, ProductMonotone
  <2>4. b - a = x * u[h] /\ x * u[h] \in Int
    <3> HIDE DEF P
    <3> QED BY <2>1
  <2> HIDE DEF P, a, b, F
  <2>5. a \div w \in Int /\ b \div w \in Int /\ a \div w <= b \div w
    BY <2>3, DivMonotone
  <2>6. /\ w * ((b \div w) - (a \div w)) <= (b - a) + (w - 1)
        /\ (b - a) - (w - 1) <= w * ((b \div w) - (a \div w))
    BY <2>3, DivDifference
  <2> QED BY <2>2, <2>4, <2>5, <2>6
<1>3. F \in [Hosts -> Nat] /\ F \in [Hosts -> Int]
  <2>1. F = [h \in Hosts |-> F[h]]
    BY DEF Spread
  <2> HIDE DEF F
  <2> QED BY <1>2, <2>1
<1>4. ASSUME w = SumOf(u) PROVE SumOf(F) = x
  <2>0. N \in Nat
    BY HostFacts
  <2>1. U(1) = 0 /\ U(N + 1) = w
    <3>1. SumOn(u, {}) = 0
      BY FS_EmptySet, SumUnfolds
    <3>2. SumOf(u) = SumOn(u, Hosts)
      BY HostFacts, SumType
    <3> QED BY <1>4, <3>1, <3>2, BelowFacts
  <2>2. ASSUME NEW i \in 1 .. N + 1 PROVE U(i) \in Int
    <3>1. IsFiniteSet(Below(i)) /\ Below(i) \in SUBSET Hosts
      BY BelowFacts
    <3>2. \A g \in Below(i) : u[g] \in Int
      BY <3>1
    <3> QED BY <3>1, <3>2, SumOnType
  <2>3. G \in [1 .. N + 1 -> Int]
    <3>1. \A i \in 1 .. N + 1 : (x * U(i)) \div w \in Int
      <4> TAKE i \in 1 .. N + 1
      <4>1. x * U(i) \in Int
        BY <2>2
      <4> QED BY <4>1, DivMonotone
    <3> QED BY <3>1
  <2>4. \A i \in 1 .. N : F[HostOrder[i]] = G[i + 1] - G[i]
    <3> TAKE i \in 1 .. N
    <3> DEFINE h == HostOrder[i]
    <3>1. h \in Hosts /\ Rank(h) = i /\ i \in 1 .. N + 1 /\ i + 1 \in 1 .. N + 1
      BY <2>0, HostFacts
    <3>2. Preceding(u, h) = U(i) /\ Preceding(u, h) + u[h] = U(i + 1)
      BY <1>1, <3>1
    <3>3. F[h] = ((x * (Preceding(u, h) + u[h])) \div w) - ((x * Preceding(u, h)) \div w)
      BY <3>1 DEF Spread
    <3> HIDE DEF F, U, h
    <3>4. F[h] = ((x * U(i + 1)) \div w) - ((x * U(i)) \div w)
      BY <3>2, <3>3
    <3> QED BY <3>1, <3>4 DEF h
  <2>5. SumOf(F) = G[N + 1] - G[1]
    <3> HIDE DEF F, G
    <3> QED BY <1>3, <2>3, <2>4, HostsTelescope
  <2>6. G[N + 1] = x /\ G[1] = 0
    <3>1. (x * w) \div w = x /\ (x * 0) \div w = 0
      <4>1. x * 0 = 0 * w
        OBVIOUS
      <4> QED BY <4>1, DivOfProduct
    <3>2. N + 1 \in 1 .. N + 1 /\ 1 \in 1 .. N + 1
      BY <2>0
    <3> HIDE DEF U
    <3> QED BY <2>1, <3>1, <3>2
  <2> HIDE DEF F, G
  <2> QED BY <2>5, <2>6
<1> QED BY <1>2, <1>3, <1>4

-----------------------------------------------------------------------------
(***************************************************************************)
(* Buckets in their order: an interval is cut at their boundaries.         *)
(***************************************************************************)
LEMMA BucketFacts ==
  /\ IsFiniteSet(Starts) /\ Starts \in SUBSET Times /\ Times \in SUBSET Nat
  /\ \A t \in Times : BucketStart(t) \in Starts
  /\ \A t \in Times, s \in Starts : BucketStart(t) = s <=> s <= t /\ t < s + Bucket
<1> USE TimeAssumption
<1>1. Starts \in SUBSET Times /\ Times \in SUBSET Nat /\ IsFiniteSet(Times)
  BY FS_Interval DEF Starts, Times
<1>2. IsFiniteSet(Starts)
  BY <1>1, FS_Subset
<1>3. ASSUME NEW t \in Times
      PROVE  /\ BucketStart(t) \in Starts
             /\ BucketStart(t) <= t /\ t < BucketStart(t) + Bucket
  <2> DEFINE q == t \div Bucket
  <2>1. t \in Nat /\ Bucket \in Nat \ {0}
    BY DEF Times
  <2>2. /\ q \in Nat /\ t % Bucket \in 0 .. Bucket - 1
        /\ t = Bucket * q + (t % Bucket)
    BY <2>1
  <2>3. \A k \in Nat : (k * Bucket) % Bucket = 0 /\ k * Bucket = Bucket * k /\ k * Bucket \in Nat
    BY <2>1
  <2>4. BucketStart(t) = q * Bucket /\ BucketStart(t) \in Times
    BY DEF BucketStart
  <2> HIDE DEF q
  <2> QED BY <2>1, <2>2, <2>3, <2>4 DEF Starts
<1>4. ASSUME NEW t \in Times, NEW s \in Starts, s <= t, t < s + Bucket
      PROVE  BucketStart(t) = s
  <2>1. t \in Nat /\ s \in Nat /\ Bucket \in Nat \ {0} /\ s % Bucket = 0
    BY DEF Times, Starts
  <2> DEFINE k == s \div Bucket
  <2>2. k \in Nat /\ s = Bucket * k
    BY <2>1
  <2>3. \A r \in 0 .. Bucket - 1 : (Bucket * k + r) \div Bucket = k
    <3> HIDE DEF k
    <3> QED BY <2>1, <2>2
  <2>4. t - s \in 0 .. Bucket - 1 /\ t = s + (t - s)
    BY <1>4, <2>1
  <2>5. t \div Bucket = k
    <3> HIDE DEF k
    <3> QED BY <2>2, <2>3, <2>4
  <2>6. Bucket * k = k * Bucket
    BY <2>1, <2>2
  <2> QED BY <2>2, <2>5, <2>6 DEF BucketStart
<1> QED BY <1>1, <1>2, <1>3, <1>4

LEMMA BucketsTelescope ==
  ASSUME NEW a \in Times, NEW b \in Times, a <= b, NEW g \in [Times -> Int]
  PROVE  LET cut == [s \in Starts |->
                       IF s + Bucket > a /\ s < b
                       THEN g[IF s + Bucket < b THEN s + Bucket ELSE b]
                              - g[IF s > a THEN s ELSE a]
                       ELSE 0]
         IN  cut \in [Starts -> Int] /\ SumOf(cut) = g[b] - g[a]
<1> DEFINE Part(s, e) == IF s + Bucket > a /\ s < e
                         THEN g[IF s + Bucket < e THEN s + Bucket ELSE e]
                                - g[IF s > a THEN s ELSE a]
                         ELSE 0
           P(e) == [s \in Starts |-> Part(s, e)]
           C == {e \in a .. b : SumOf(P(e)) # g[e] - g[a]}
<1>0. a \in Nat /\ b \in Nat /\ Bucket \in Nat \ {0} /\ a .. b \subseteq Times /\ Times \subseteq Nat
  BY TimeAssumption DEF Times
<1>1. ASSUME NEW e \in a .. b, NEW s \in Starts PROVE Part(s, e) \in Int
  <2>1. s \in Nat /\ e \in Times /\ a \in Times /\ s \in Times
    BY <1>0, BucketFacts
  <2>2. s < e /\ s + Bucket < e => s + Bucket \in Times
    BY <1>0, <2>1, TimeAssumption DEF Times
  <2> QED BY <1>0, <2>1, <2>2
<1>2. \A e \in a .. b : P(e) \in [Starts -> Int]
  BY <1>1
<1>3. C = {}
  <2> SUFFICES ASSUME C # {} PROVE FALSE
    OBVIOUS
  <2>1. PICK e \in C : \A m \in C : e <= m
    <3>1. C \in SUBSET Nat
      BY <1>0
    <3> HIDE DEF C
    <3> QED BY <3>1, SmallestNumber
  <2>2. e \in a .. b /\ SumOf(P(e)) # g[e] - g[a]
    OBVIOUS
  <2>3. e # a
    <3>1. ASSUME NEW s \in Starts PROVE Part(s, a) = 0
      <4>1. g[a] \in Int /\ s \in Nat
        BY <1>0, BucketFacts
      <4> QED BY <1>0, <4>1
    <3>2. P(a) \in [Starts -> Int] /\ \A s \in Starts : P(a)[s] = 0
      BY <3>1
    <3>3. SumOf(P(a)) = 0
      <4> HIDE DEF P
      <4> QED BY <3>2, BucketFacts, SumZero
    <3>4. g[a] - g[a] = 0
      BY <1>0
    <3> HIDE DEF P
    <3> QED BY <2>2, <3>3, <3>4
  <2> DEFINE d == e - 1
             z == BucketStart(d)
  <2>4. d \in a .. b /\ d \in Times /\ e \in Times /\ e = d + 1
    BY <1>0, <2>2, <2>3
  <2>5. SumOf(P(d)) = g[d] - g[a]
    <3>1. d \notin C
      <4> HIDE DEF C
      <4> QED BY <1>0, <2>1, <2>4
    <3> HIDE DEF P, d
    <3> QED BY <2>4, <3>1
  <2>6. z \in Starts /\ \A s \in Starts : z = s <=> s <= d /\ d < s + Bucket
    BY <2>4, BucketFacts
  <2>7. ASSUME NEW s \in Starts, s # z PROVE Part(s, e) = Part(s, d)
    <3>1. ~ (s <= d /\ d < s + Bucket)
      BY <2>6, <2>7
    <3>2. s \in Nat /\ d \in Nat
      BY <1>0, <2>4, BucketFacts
    <3> HIDE DEF d
    <3> QED BY <1>0, <2>4, <3>1, <3>2
  <2>8. Part(z, e) = Part(z, d) + g[e] - g[d]
    <3>1. z <= d /\ d < z + Bucket /\ z \in Nat /\ d \in Nat /\ a <= d
      <4> HIDE DEF d, z, C
      <4>1. z \in Starts /\ z <= d /\ d < z + Bucket
        BY <2>6
      <4>2. z \in Nat
        BY <4>1, BucketFacts
      <4> QED BY <1>0, <2>4, <4>1, <4>2
    <3>2. g[e] \in Int /\ g[d] \in Int /\ g[IF z > a THEN z ELSE a] \in Int
      BY <2>4, <2>6, BucketFacts
    <3> HIDE DEF d, z
    <3> QED BY <1>0, <2>4, <3>1, <3>2
  <2>9. SumOf(P(e)) = SumOf(P(d)) + P(e)[z] - P(d)[z]
    <3>1. P(e) \in [Starts -> Int] /\ P(d) \in [Starts -> Int]
      <4> HIDE DEF P, d
      <4> QED BY <1>2, <2>2, <2>4
    <3>2. \A s \in Starts \ {z} : P(e)[s] = P(d)[s]
      <4> HIDE DEF d, z, Part
      <4> QED BY <2>7
    <3>3. IsFiniteSet(Starts) /\ z \in Starts
      BY <2>6, BucketFacts
    <3> HIDE DEF P, d, z, C
    <3> DEFINE f1 == P(d)
               g1 == P(e)
    <3>4. f1 \in [Starts -> Int] /\ g1 \in [Starts -> Int]
      BY <3>1
    <3>5. \A s \in Starts \ {z} : g1[s] = f1[s]
      BY <3>2
    <3> HIDE DEF f1, g1
    <3>6. SumOf(g1) = SumOf(f1) + g1[z] - f1[z]
      BY <3>3, <3>4, <3>5, SumUpdate
    <3> QED BY <3>6 DEF f1, g1
  <2>10. P(e)[z] = Part(z, e) /\ P(d)[z] = Part(z, d)
    BY <2>6
  <2>11. /\ Part(z, d) \in Int /\ Part(z, e) \in Int
         /\ g[e] \in Int /\ g[d] \in Int /\ g[a] \in Int
    <3> HIDE DEF Part, d, z
    <3> QED BY <1>1, <2>2, <2>4, <2>6
  <2> HIDE DEF P, Part, d, z
  <2> QED BY <2>2, <2>5, <2>8, <2>9, <2>10, <2>11
<1>4. SumOf(P(b)) = g[b] - g[a]
  <2>1. b \in a .. b
    BY <1>0
  <2> HIDE DEF P
  <2> QED BY <1>3, <2>1
<1>5. b \in a .. b
  BY <1>0
<1> QED BY <1>2, <1>4, <1>5

\* The seconds of a span that fall into a bucket.
Seconds(span, s) == Right(span, s) - Left(span, s)

LEMMA OverlapFacts ==
  ASSUME NEW o \in Times, NEW f \in Times, NEW e \in Times, o <= f, f <= e,
         NEW span, span = [old |-> o, at |-> e, from |-> f],
         NEW s \in Overlapped(span)
  PROVE  /\ s \in Starts
         /\ Left(span, s) \in Times /\ Right(span, s) \in Times
         /\ o <= Left(span, s) /\ Left(span, s) <= Right(span, s)
         /\ Seconds(span, s) \in Nat
         /\ Right(span, s) <= e
<1>1. s \in Starts /\ s + Bucket > f /\ s < e
  BY DEF Overlapped
<1>2. /\ o \in Nat /\ f \in Nat /\ e \in Nat /\ s \in Nat /\ Bucket \in Nat \ {0}
      /\ s \in Times /\ Times = 0 .. MaxClock /\ MaxClock \in Nat
  BY <1>1, TimeAssumption, BucketFacts DEF Times
<1>3. Left(span, s) = IF s > f THEN s ELSE f
  BY DEF Left
<1>4. Right(span, s) = IF s + Bucket < e THEN s + Bucket ELSE e
  BY DEF Right
<1> QED BY <1>1, <1>2, <1>3, <1>4 DEF Seconds

LEMMA ShareFacts ==
  ASSUME NEW x \in Nat, NEW o \in Times, NEW f \in Times, NEW e \in Times,
         o <= f, f <= e, o < e,
         NEW span, span = [old |-> o, at |-> e, from |-> f]
  PROVE  LET part == [s \in Starts |-> IF s \in Overlapped(span)
                                       THEN Share(x, span, s) ELSE 0]
         IN  /\ \A s \in Overlapped(span) : Share(x, span, s) \in Nat
             /\ part \in [Starts -> Nat]
             /\ f = o => SumOf(part) = x
<1> DEFINE w == e - o
           up(t) == (x * (t - o)) \div w
           g == [t \in Times |-> up(t)]
           part == [s \in Starts |-> IF s \in Overlapped(span)
                                     THEN Share(x, span, s) ELSE 0]
<1>0. o \in Nat /\ f \in Nat /\ e \in Nat /\ w \in Nat \ {0} /\ Times \subseteq Nat
  BY TimeAssumption DEF Times
<1>1. ASSUME NEW t \in Times
      PROVE  t - o \in Int /\ x * (t - o) \in Int /\ up(t) \in Int
  <2>1. t - o \in Int /\ x * (t - o) \in Int
    BY <1>0
  <2> HIDE DEF w
  <2> QED BY <1>0, <2>1
<1>2. g \in [Times -> Int] /\ \A t \in Times : g[t] = up(t)
  <2> HIDE DEF up
  <2> QED BY <1>1
<1>3. \A s \in Overlapped(span) : Share(x, span, s) = up(Right(span, s)) - up(Left(span, s))
  BY DEF Share
<1>4. ASSUME NEW s \in Overlapped(span) PROVE Share(x, span, s) \in Nat
  <2> DEFINE r == Right(span, s)
             l == Left(span, s)
  <2>1. r \in Times /\ l \in Times /\ l <= r
    BY OverlapFacts
  <2> HIDE DEF r, l
  <2>2. /\ x * (l - o) \in Int /\ x * (r - o) \in Int /\ x * (l - o) <= x * (r - o)
    <3>1. l - o \in Int /\ r - o \in Int /\ l - o <= r - o
      BY <1>0, <2>1
    <3> QED BY <3>1, ProductMonotone
  <2>3. up(l) \in Int /\ up(r) \in Int /\ up(l) <= up(r)
    <3> HIDE DEF w
    <3> QED BY <1>0, <2>2, DivMonotone
  <2> HIDE DEF up
  <2> QED BY <1>3, <2>3 DEF r, l
<1>5. part \in [Starts -> Nat]
  BY <1>4
<1>6. ASSUME f = o PROVE SumOf(part) = x
  <2> DEFINE cut == [s \in Starts |->
                       IF s + Bucket > f /\ s < e
                       THEN g[IF s + Bucket < e THEN s + Bucket ELSE e]
                              - g[IF s > f THEN s ELSE f]
                       ELSE 0]
  <2>1. SumOf(cut) = g[e] - g[f]
    <3> HIDE DEF g
    <3> QED BY <1>2, BucketsTelescope
  <2>2. ASSUME NEW s \in Starts PROVE part[s] = cut[s]
    <3>1. s \in Overlapped(span) <=> s + Bucket > f /\ s < e
      BY DEF Overlapped
    <3>2. CASE s \in Overlapped(span)
      <4>1. part[s] = up(Right(span, s)) - up(Left(span, s))
        <5> HIDE DEF up
        <5> QED BY <1>3, <3>2
      <4>2. Right(span, s) \in Times /\ Left(span, s) \in Times
        BY <3>2, OverlapFacts
      <4>3. part[s] = g[Right(span, s)] - g[Left(span, s)]
        <5> HIDE DEF up, part
        <5> QED BY <1>2, <4>1, <4>2
      <4>4. cut[s] = g[Right(span, s)] - g[Left(span, s)]
        <5> HIDE DEF g
        <5> QED BY <3>1, <3>2 DEF Right, Left
      <4> QED BY <4>3, <4>4
    <3>3. CASE s \notin Overlapped(span)
      BY <3>1, <3>3
    <3> QED BY <3>2, <3>3
  <2>3. part = cut
    <3>1. part = [s \in Starts |-> part[s]] /\ cut = [s \in Starts |-> cut[s]]
      OBVIOUS
    <3> HIDE DEF part, cut
    <3> QED BY <2>2, <3>1
  <2>4. g[e] = x /\ g[f] = 0
    <3>1. up(e) = x
      <4> HIDE DEF w
      <4>1. e - o = w
        BY DEF w
      <4> QED BY <1>0, <4>1, DivOfProduct
    <3>2. up(o) = 0
      <4>1. x * (o - o) = 0
        BY <1>0
      <4>2. 0 \div w = 0
        BY <1>0
      <4> QED BY <4>1, <4>2
    <3> HIDE DEF up
    <3> QED BY <1>2, <1>6, <3>1, <3>2
  <2> HIDE DEF part, cut, g
  <2> QED BY <2>1, <2>3, <2>4
<1> QED BY <1>4, <1>5, <1>6

-----------------------------------------------------------------------------
(***************************************************************************)
(* More about sums.                                                        *)
(***************************************************************************)
LEMMA SumOnRest ==
  ASSUME NEW S, IsFiniteSet(S), NEW f, \A x \in S : f[x] \in Int,
         NEW R \in SUBSET S
  PROVE  /\ SumOn(f, R) \in Int
         /\ SumOn(f, {}) = 0
         /\ \A x \in R : /\ SumOn(f, R) = f[x] + SumOn(f, R \ {x})
                         /\ SumOn(f, R \ {x}) \in Int
<1>1. IsFiniteSet(R) /\ \A x \in R : IsFiniteSet(R \ {x})
  BY FS_Subset
<1>2. SumOn(f, R) \in Int
  BY <1>1, SumOnType
<1>3. SumOn(f, {}) = 0
  BY FS_EmptySet, SumUnfolds
<1>4. ASSUME NEW x \in R
      PROVE  /\ SumOn(f, R) = f[x] + SumOn(f, R \ {x})
             /\ SumOn(f, R \ {x}) \in Int
  <2>1. IsFiniteSet(R \ {x}) /\ \A y \in R \ {x} : f[y] \in Int
    BY <1>1
  <2> QED BY <1>1, <2>1, SumOnRemove, SumOnType
<1> QED BY <1>2, <1>3, <1>4

\* Terms that are zero may be left out.
LEMMA SumExtend ==
  ASSUME NEW S, IsFiniteSet(S), NEW T \in SUBSET S, NEW f \in [T -> Int],
         NEW g \in [S -> Int], \A x \in T : g[x] = f[x], \A x \in S \ T : g[x] = 0
  PROVE  SumOf(g) = SumOf(f)
<1> DEFINE C == {R \in SUBSET S : T \subseteq R /\ SumOn(g, R) # SumOn(g, T)}
<1>1. C = {}
  <2> SUFFICES ASSUME C # {} PROVE FALSE
    OBVIOUS
  <2>1. PICK R \in C : \A t \in SUBSET R : t # R => t \notin C
    <3> HIDE DEF C
    <3>1. C \in SUBSET SUBSET S
      BY DEF C
    <3> QED BY <3>1, SmallestSubset
  <2>2. PICK x \in R : x \notin T
    OBVIOUS
  <2>3. SumOn(g, R) = g[x] + SumOn(g, R \ {x}) /\ SumOn(g, R \ {x}) \in Int
    <3>1. R \in SUBSET S /\ \A y \in S : g[y] \in Int
      OBVIOUS
    <3> HIDE DEF C
    <3> QED BY <3>1, SumOnRest
  <2>4. g[x] = 0
    BY <2>2
  <2>5. R \ {x} \notin C
    <3> HIDE DEF C
    <3> QED BY <2>1
  <2>6. T \subseteq R \ {x} /\ R \ {x} \in SUBSET S
    BY <2>2
  <2>7. SumOn(g, R \ {x}) = SumOn(g, T)
    BY <2>5, <2>6
  <2>8. SumOn(g, R) # SumOn(g, T)
    OBVIOUS
  <2> QED BY <2>3, <2>4, <2>7, <2>8
<1>2. SumOn(g, S) = SumOn(g, T)
  BY <1>1
<1>3. IsFiniteSet(T)
  BY FS_Subset
<1>4. SumOn(g, T) = SumOn(f, T)
  BY <1>3, SumOnEqual
<1> QED BY <1>2, <1>3, <1>4, SumType

\* Rows and columns of a table have the same sum.
LEMMA SumSwap ==
  ASSUME NEW A, IsFiniteSet(A), NEW B, IsFiniteSet(B), NEW m \in [A -> [B -> Int]]
  PROVE  SumOf([a \in A |-> SumOf(m[a])])
           = SumOf([b \in B |-> SumOf([a \in A |-> m[a][b]])])
<1> DEFINE at(b) == [a \in A |-> m[a][b]]
           col == [b \in B |-> SumOf(at(b))]
           upTo(R) == [a \in A |-> SumOn(m[a], R)]
           C == {R \in SUBSET B : SumOf(upTo(R)) # SumOn(col, R)}
<1>1. \A b \in B : at(b) \in [A -> Int] /\ SumOf(at(b)) \in Int
  <2> TAKE b \in B
  <2>1. at(b) \in [A -> Int]
    OBVIOUS
  <2> HIDE DEF at
  <2> QED BY <2>1, SumType
<1>2. col \in [B -> Int]
  <2> HIDE DEF at
  <2> QED BY <1>1
<1>3. ASSUME NEW a \in A, NEW R \in SUBSET B
      PROVE  /\ SumOn(m[a], R) \in Int /\ SumOn(m[a], {}) = 0
             /\ \A x \in R : SumOn(m[a], R) = m[a][x] + SumOn(m[a], R \ {x})
  <2>1. \A x \in B : m[a][x] \in Int
    OBVIOUS
  <2> QED BY <2>1, SumOnRest
<1>4. \A R \in SUBSET B : upTo(R) \in [A -> Int]
  BY <1>3
<1>5. C = {}
  <2> SUFFICES ASSUME C # {} PROVE FALSE
    OBVIOUS
  <2>1. PICK R \in C : \A t \in SUBSET R : t # R => t \notin C
    <3> HIDE DEF C
    <3>1. C \in SUBSET SUBSET B
      BY DEF C
    <3> QED BY <3>1, SmallestSubset
  <2>2. R \in SUBSET B /\ SumOf(upTo(R)) # SumOn(col, R)
    <3> HIDE DEF upTo, col
    <3> QED OBVIOUS
  <2>3. CASE R = {}
    <3>1. \A a \in A : upTo({})[a] = 0
      BY <1>3
    <3>2. upTo({}) \in [A -> Int]
      BY <1>4
    <3> HIDE DEF upTo, col, C
    <3>3. SumOf(upTo({})) = 0
      BY <3>1, <3>2, SumZero
    <3>4. SumOn(col, {}) = 0
      BY <1>2, SumOnRest
    <3> QED BY <2>2, <2>3, <3>3, <3>4
  <2>4. CASE R # {}
    <3>1. PICK x \in R : TRUE
      BY <2>4
    <3> DEFINE r == R \ {x}
    <3>2. r \in SUBSET R /\ r # R /\ r \in SUBSET B /\ x \in B
      BY <2>2, <3>1
    <3>3. SumOf(upTo(r)) = SumOn(col, r)
      <4>1. r \notin C
        <5> HIDE DEF C, r
        <5> QED BY <2>1, <3>2
      <4> HIDE DEF upTo, col, r
      <4> QED BY <3>2, <4>1
    <3>4. \A a \in A : upTo(R)[a] = at(x)[a] + upTo(r)[a]
      BY <1>3, <2>2, <3>1
    <3>5. /\ upTo(R) \in [A -> Int] /\ upTo(r) \in [A -> Int] /\ at(x) \in [A -> Int]
          /\ SumOf(at(x)) \in Int
      <4> HIDE DEF upTo, at, r
      <4> QED BY <1>1, <1>4, <2>2, <3>2
    <3>6. SumOf(upTo(R)) = SumOf(at(x)) + SumOf(upTo(r))
      <4> HIDE DEF upTo, at, r
      <4> QED BY <3>4, <3>5, SumAdd
    <3>7. SumOn(col, R) = col[x] + SumOn(col, r)
      <4>1. \A b \in B : col[b] \in Int
        BY <1>2
      <4> HIDE DEF col, at, upTo, C
      <4>2. \A y \in R : SumOn(col, R) = col[y] + SumOn(col, R \ {y})
        BY <2>2, <4>1, SumOnRest
      <4> QED BY <3>1, <4>2
    <3>8. col[x] = SumOf(at(x))
      BY <3>2
    <3> HIDE DEF upTo, at, col, r
    <3> QED BY <2>2, <3>3, <3>6, <3>7, <3>8
  <2> QED BY <2>3, <2>4
<1>6. SumOf(upTo(B)) = SumOn(col, B)
  <2> HIDE DEF upTo, col
  <2> QED BY <1>5
<1>7. upTo(B) = [a \in A |-> SumOf(m[a])]
  <2>1. \A a \in A : m[a] \in [B -> Int] /\ SumOn(m[a], B) = SumOf(m[a])
    BY SumType
  <2> QED BY <2>1
<1>8. SumOf(col) = SumOn(col, B)
  <2> HIDE DEF col
  <2> QED BY <1>2, SumType
<1> HIDE DEF C
<1> QED BY <1>6, <1>7, <1>8

\* An inequality between the terms holds of the sums, with a slack for each term.
LEMMA SumLinear ==
  ASSUME NEW S, IsFiniteSet(S), NEW f \in [S -> Int], NEW g \in [S -> Int],
         NEW a \in Int, NEW b \in Int, NEW c \in Int,
         \A x \in S : a * f[x] <= b * g[x] + c
  PROVE  a * SumOf(f) <= b * SumOf(g) + c * Cardinality(S)
<1> DEFINE fails(R) == ~ (a * SumOn(f, R) <= b * SumOn(g, R) + c * Cardinality(R))
           C == {R \in SUBSET S : fails(R)}
<1>1. C = {}
  <2> SUFFICES ASSUME C # {} PROVE FALSE
    OBVIOUS
  <2>1. PICK R \in C : \A t \in SUBSET R : t # R => t \notin C
    <3> HIDE DEF C
    <3>1. C \in SUBSET SUBSET S
      BY DEF C
    <3> QED BY <3>1, SmallestSubset
  <2>2. R \in SUBSET S /\ fails(R) /\ IsFiniteSet(R)
    BY FS_Subset
  <2>3. \A x \in S : f[x] \in Int /\ g[x] \in Int
    OBVIOUS
  <2>4. CASE R = {}
    <3>1. SumOn(f, {}) = 0 /\ SumOn(g, {}) = 0 /\ Cardinality({}) = 0
      BY <2>2, <2>3, SumOnRest, FS_EmptySet
    <3>2. a * 0 <= b * 0 + c * 0
      OBVIOUS
    <3> HIDE DEF C
    <3> QED BY <2>2, <2>4, <3>1, <3>2
  <2>5. CASE R # {}
    <3>1. PICK x \in R : TRUE
      BY <2>5
    <3> DEFINE r == R \ {x}
               F == SumOn(f, r)
               G == SumOn(g, r)
               n == Cardinality(r)
    <3>2. /\ SumOn(f, R) = f[x] + F /\ F \in Int
          /\ SumOn(g, R) = g[x] + G /\ G \in Int
      <4> HIDE DEF C
      <4> QED BY <2>2, <2>3, <3>1, SumOnRest
    <3>3. Cardinality(R) = n + 1 /\ n \in Nat
      <4>1. Cardinality(r) = Cardinality(R) - 1
        BY <2>2, <3>1, FS_RemoveElement
      <4>2. Cardinality(R) \in Nat /\ Cardinality(r) \in Nat
        <5>1. IsFiniteSet(r)
          BY <2>2, FS_Subset
        <5> QED BY <2>2, <5>1, FS_CardinalityType
      <4> QED BY <4>1, <4>2
    <3>4. a * F <= b * G + c * n
      <4>1. r \notin C
        <5> HIDE DEF C
        <5> QED BY <2>1, <3>1
      <4>2. r \in SUBSET S
        BY <2>2
      <4> QED BY <4>1, <4>2
    <3>5. a * f[x] <= b * g[x] + c /\ f[x] \in Int /\ g[x] \in Int
      BY <2>2, <2>3, <3>1
    <3>6. \A p, q, k \in Int : k * (p + q) = k * p + k * q /\ k * p \in Int
      OBVIOUS
    <3>7. /\ a * (f[x] + F) = a * f[x] + a * F /\ b * (g[x] + G) = b * g[x] + b * G
          /\ c * (n + 1) = c * n + c
          /\ a * f[x] \in Int /\ a * F \in Int /\ b * g[x] \in Int /\ b * G \in Int
          /\ c * n \in Int
      <4> HIDE DEF C, F, G, n
      <4>1. c * (n + 1) = c * n + c * 1 /\ c * 1 = c
        BY <3>3, <3>6
      <4> QED BY <3>2, <3>3, <3>5, <3>6, <4>1
    <3>8. a * (f[x] + F) <= b * (g[x] + G) + c * (n + 1)
      <4> DEFINE p1 == a * f[x]  p2 == a * F  p3 == b * g[x]  p4 == b * G  p5 == c * n
      <4>1. /\ p1 \in Int /\ p2 \in Int /\ p3 \in Int /\ p4 \in Int /\ p5 \in Int
            /\ p1 <= p3 + c /\ p2 <= p4 + p5
        BY <3>4, <3>5, <3>7
      <4>2. /\ a * (f[x] + F) = p1 + p2 /\ b * (g[x] + G) = p3 + p4
            /\ c * (n + 1) = p5 + c
        BY <3>7
      <4> HIDE DEF p1, p2, p3, p4, p5
      <4>3. p1 + p2 <= (p3 + p4) + (p5 + c)
        BY <4>1
      <4> QED BY <4>2, <4>3
    <3> HIDE DEF C, F, G, n
    <3> QED BY <2>2, <3>2, <3>3, <3>8
  <2> QED BY <2>4, <2>5
<1>2. ~ fails(S)
  <2> HIDE DEF fails
  <2> QED BY <1>1
<1>3. SumOf(f) = SumOn(f, S) /\ SumOf(g) = SumOn(g, S)
  BY SumType
<1> QED BY <1>2, <1>3

LEMMA SumExclude ==
  ASSUME NEW S, IsFiniteSet(S), NEW f \in [S -> Int], NEW x \in S,
         NEW g \in [S \ {x} -> Int], \A y \in S \ {x} : g[y] = f[y]
  PROVE  SumOf(f) = f[x] + SumOf(g) /\ SumOf(g) \in Int
<1>1. IsFiniteSet(S \ {x})
  BY FS_Subset
<1>2. SumOn(g, S \ {x}) = SumOn(f, S \ {x})
  BY <1>1, SumOnEqual
<1>3. SumOn(f, S) = f[x] + SumOn(f, S \ {x})
  BY SumOnRemove
<1>4. SumOf(f) = SumOn(f, S) /\ SumOf(g) = SumOn(g, S \ {x}) /\ SumOf(g) \in Int
  BY <1>1, SumType
<1> QED BY <1>2, <1>3, <1>4

-----------------------------------------------------------------------------

\* A total was read from engine start b, not before start a.
ReadSince(total, a) == \E b \in Boots : a <= b /\ b <= marker /\ total <= totals[b]

EngineInv ==
  /\ marker \in 0 .. MaxBoots
  /\ totals \in [Boots -> Nat]
  /\ engine = "up" => marker \in Boots

\* The first read of the marker is never ahead of the counters, and both are of
\* starts that happened.
TurnInv ==
  /\ before \in 0 .. marker
  /\ reply.total \in Nat
  /\ collector # "before" => before \in Boots
  /\ collector = "listing" =>
       /\ reply.boot \in Boots /\ before <= reply.boot /\ reply.boot <= marker
       /\ reply.total <= totals[reply.boot]
  /\ collector = "after" => ReadSince(reply.total, before)

StateInv(state) ==
  /\ state.epoch \in 0 .. marker
  /\ state.epoch # 0 => state.total \in Nat /\ state.total <= totals[state.epoch]

SamplerInv ==
  EngineInv /\ TurnInv /\ StateInv(cursor) /\ StateInv(domain_state)

\* Starts only follow one another, and the counter of a start only grows.
EngineGrows ==
  /\ marker' \in 0 .. MaxBoots /\ marker <= marker'
  /\ totals' \in [Boots -> Nat]
  /\ \A b \in Boots : totals[b] <= totals'[b]
  /\ engine' = "up" => marker' \in Boots

LEMMA EngineStepGrows ==
  ASSUME SamplerInv, [Next]_vars PROVE EngineGrows
<1>1. SamplerAssumption /\ EngineInv  BY SamplerAssumption DEF SamplerInv
<1>2. CASE Start
  BY <1>1, <1>2 DEF Start, SamplerAssumption, EngineInv, EngineGrows, Boots
<1>3. CASE \E nest \in SUBSET Conns : Relay(nest)
  <2>1. /\ totals' = [totals EXCEPT ![marker] = @ + 1]
        /\ marker' = marker /\ engine' = engine /\ engine = "up"
    BY <1>3 DEF Relay
  <2> QED  BY <1>1, <2>1 DEF EngineInv, EngineGrows, SamplerAssumption, Boots
<1>4. CASE /\ marker' = marker /\ totals' = totals
           /\ engine' = engine \/ engine' = "down"
  BY <1>1, <1>4 DEF SamplerAssumption, EngineInv, EngineGrows, Boots
<1>5. CASE Die  BY <1>4, <1>5 DEF Die
<1>6. CASE \E c \in Conns, h \in Hosts \ {Unattributed} : Open(c, h) \/ Sniff(c, h)
  BY <1>4, <1>6 DEF Open, Sniff
<1>7. CASE \E c \in Conns : Close(c)
  BY <1>4, <1>7 DEF Close
<1>8. CASE CollectorNext
  <2>1. UNCHANGED engineVars
    BY <1>8 DEF CollectorNext, CollectorKill, ReadBefore, FetchBegin, FetchEnd,
       FetchFails, FetchTotal, Record, ClockNotAdvanced, SampleFails
  <2> QED  BY <1>4, <2>1 DEF engineVars
<1>9. CASE Tick \/ UNCHANGED vars
  BY <1>4, <1>9 DEF Tick, vars, engineVars
<1> QED
  BY <1>2, <1>3, <1>5, <1>6, <1>7, <1>8, <1>9 DEF Next, EngineNext

\* What the engine does never invalidates what was read from it before.
LEMMA ReadingsStayValid ==
  ASSUME SamplerInv, EngineGrows, UNCHANGED turnVars,
         UNCHANGED <<cursor, domain_state>>
  PROVE  SamplerInv'
<1>1. EngineInv'  BY DEF EngineGrows, EngineInv
<1>2. TurnInv'
  <2>1. ASSUME ReadSince(reply.total, before) PROVE ReadSince(reply.total, before)'
    <3>1. PICK b \in Boots : before <= b /\ b <= marker /\ reply.total <= totals[b]
      BY <2>1 DEF ReadSince
    <3>2. b <= marker' /\ reply.total <= totals'[b]
      BY <3>1, SamplerAssumption
         DEF SamplerInv, EngineInv, EngineGrows, TurnInv, Boots, SamplerAssumption
    <3> QED  BY <3>1, <3>2 DEF ReadSince, turnVars
  <2>2. ASSUME collector = "listing" PROVE reply.total <= totals'[reply.boot]
    BY <2>2, SamplerAssumption
       DEF SamplerInv, EngineInv, EngineGrows, TurnInv, Boots, SamplerAssumption
  <2> QED
    BY <2>1, <2>2, SamplerAssumption
       DEF SamplerInv, EngineInv, EngineGrows, TurnInv, turnVars, Boots,
           SamplerAssumption
<1>3. StateInv(cursor)' /\ StateInv(domain_state)'
  <2>1. ASSUME NEW state, StateInv(state)
        PROVE  /\ state.epoch \in 0 .. marker'
               /\ state.epoch # 0 =>
                    state.total \in Nat /\ state.total <= totals'[state.epoch]
    <3>1. state.epoch \in 0 .. marker'
      BY <2>1, SamplerAssumption
         DEF StateInv, SamplerInv, EngineInv, EngineGrows, SamplerAssumption
    <3>2. ASSUME state.epoch # 0
          PROVE  state.total \in Nat /\ state.total <= totals'[state.epoch]
      <4>1. state.epoch \in Boots /\ totals[state.epoch] \in Nat
                                  /\ totals'[state.epoch] \in Nat
        BY <2>1, <3>2, SamplerAssumption
           DEF StateInv, SamplerInv, EngineInv, EngineGrows, Boots, SamplerAssumption
      <4> QED  BY <2>1, <3>2, <4>1 DEF StateInv, EngineGrows
    <3> QED  BY <3>1, <3>2
  <2> QED  BY <2>1 DEF SamplerInv, StateInv
<1> QED  BY <1>1, <1>2, <1>3 DEF SamplerInv

-----------------------------------------------------------------------------
\* Each step of a turn of collect() takes only valid readings over.
LEMMA TurnKeepsInv ==
  ASSUME SamplerInv, CollectorNext PROVE SamplerInv'
<1> USE SamplerAssumption DEF Boots
<1>0. /\ EngineInv /\ TurnInv /\ StateInv(cursor) /\ StateInv(domain_state)
      /\ UNCHANGED engineVars
  BY DEF SamplerInv, CollectorNext, CollectorKill, ReadBefore, FetchBegin,
     FetchEnd, FetchFails, FetchTotal, Record, ClockNotAdvanced, SampleFails
<1>1. EngineInv'  BY <1>0 DEF EngineInv, engineVars
<1>2. ASSUME UNCHANGED <<cursor, domain_state>>
      PROVE  StateInv(cursor)' /\ StateInv(domain_state)'
  BY <1>0, <1>2 DEF StateInv, engineVars
<1>3. ASSUME collector' = "before", before' = 0, reply' = NoReply
      PROVE  TurnInv'
  BY <1>0, <1>3 DEF TurnInv, EngineInv, engineVars, NoReply, SamplerAssumption
<1>4. CASE CollectorKill
  BY <1>0, <1>1, <1>2, <1>3, <1>4 DEF CollectorKill, SamplerInv, ledgerVars
<1>5. CASE ReadBefore
  <2>1. TurnInv'
    BY <1>0, <1>5 DEF ReadBefore, TurnInv, EngineInv, engineVars, SamplerAssumption
  <2> QED  BY <1>1, <1>2, <1>5, <2>1 DEF ReadBefore, SamplerInv, ledgerVars
<1>6. CASE FetchBegin
  <2>1. reply'.boot = marker /\ reply'.total = totals[marker]
    BY <1>6 DEF FetchBegin
  <2>2. TurnInv'
    BY <1>0, <1>6, <2>1
       DEF FetchBegin, TurnInv, EngineInv, SamplerAssumption, engineVars
  <2> QED  BY <1>1, <1>2, <1>6, <2>2 DEF FetchBegin, SamplerInv, ledgerVars
<1>7. CASE FetchEnd
  <2>1. reply'.total = reply.total /\ collector' = "after" /\ before' = before
    BY <1>7 DEF FetchEnd
  <2>2. ReadSince(reply.total, before)'
    BY <1>0, <1>7, <2>1 DEF FetchEnd, TurnInv, ReadSince, engineVars
  <2>3. TurnInv'
    BY <1>0, <1>7, <2>1, <2>2 DEF FetchEnd, TurnInv, engineVars
  <2> QED  BY <1>1, <1>2, <1>7, <2>3 DEF FetchEnd, SamplerInv, ledgerVars
<1>8. CASE FetchFails
  <2>1. TurnInv'
    BY <1>0, <1>8 DEF FetchFails, TurnInv, engineVars, NoReply
  <2> QED  BY <1>1, <1>2, <1>8, <2>1 DEF FetchFails, SamplerInv, ledgerVars
<1>9. CASE FetchTotal
  <2>1. /\ reply'.total = totals[marker] /\ collector' = "after"
        /\ before' = before /\ marker \in Boots /\ before <= marker
    BY <1>0, <1>9 DEF FetchTotal, NoReply, EngineInv, TurnInv, SamplerAssumption
  <2>2. ReadSince(reply.total, before)'
    BY <1>0, <2>1 DEF ReadSince, engineVars, EngineInv, SamplerAssumption
  <2>3. TurnInv'
    BY <1>0, <1>9, <2>1, <2>2 DEF FetchTotal, TurnInv, engineVars, EngineInv
  <2> QED  BY <1>1, <1>2, <1>9, <2>3 DEF FetchTotal, SamplerInv, ledgerVars
<1>10. CASE Record
  <2>1. /\ before = marker /\ marker \in Boots /\ reply.total \in Nat
        /\ ReadSince(reply.total, before)
    BY <1>0, <1>10 DEF Record, SameSource, TurnInv
  <2>2. reply.total <= totals[before]
    BY <2>1, <1>0 DEF ReadSince, EngineInv, SamplerAssumption
  <2>3. \A at : StateInv(Sample(at))
    BY <1>0, <2>1, <2>2 DEF StateInv, Sample, EngineInv, SamplerAssumption
  <2>4. cursor' = Sample(Unix(now))  BY <1>10 DEF Record
  <2>5. domain_state' = domain_state \/ domain_state' = Sample(Unix(now))
    BY <1>10 DEF Record, RecordDomains
  <2>6. StateInv(cursor)' /\ StateInv(domain_state)'
    BY <1>0, <2>3, <2>4, <2>5 DEF StateInv, engineVars
  <2> QED  BY <1>1, <1>3, <1>10, <2>6 DEF Record, EndTurn, SamplerInv
<1>11. CASE ClockNotAdvanced \/ SampleFails
  BY <1>1, <1>2, <1>3, <1>11
     DEF ClockNotAdvanced, SampleFails, PruneAlone, EndTurn, SamplerInv
<1> QED
  BY <1>4, <1>5, <1>6, <1>7, <1>8, <1>9, <1>10, <1>11 DEF CollectorNext

LEMMA InitSamplerInv == Init => SamplerInv
  BY SamplerAssumption
     DEF Init, SamplerInv, EngineInv, TurnInv, StateInv, NoCursor, NoReply, Boots,
         SamplerAssumption

\* For any number of connections, hosts, bytes, restarts and failed requests: no
\* total that was read of one engine start becomes the cursor of another.
THEOREM EpochsAreNeverMixed == Spec => []CursorIsOfItsEpoch
<1>1. SamplerInv /\ [Next]_vars => SamplerInv'
  <2> SUFFICES ASSUME SamplerInv, [Next]_vars PROVE SamplerInv'  OBVIOUS
  <2>1. EngineGrows  BY EngineStepGrows
  <2>2. CASE CollectorNext  BY <2>2, TurnKeepsInv
  <2>3. CASE EngineNext \/ Tick \/ UNCHANGED vars
    <3>1. UNCHANGED turnVars /\ UNCHANGED <<cursor, domain_state>>
      BY <2>3 DEF EngineNext, Start, Die, Open, Sniff, Relay, Close, Tick, vars,
         ledgerVars
    <3> QED  BY <2>1, <3>1, ReadingsStayValid
  <2> QED  BY <2>2, <2>3 DEF Next
<1>2. SamplerInv => CursorIsOfItsEpoch
  BY DEF SamplerInv, StateInv, CursorIsOfItsEpoch
<1> QED  BY InitSamplerInv, <1>1, <1>2, PTL DEF Spec

-----------------------------------------------------------------------------
(***************************************************************************)
(* Types.  TypeOK says that nothing negative is ever stored: what is       *)
(* attributed to hosts never exceeds the budget it is taken from.          *)
(***************************************************************************)
RowType == [bytes: Nat, observed: Nat, estimated: Nat, resets: Nat]
SampleType == [at: Times \cup {-1}, total: 0 .. MaxBytes, epoch: 0 .. MaxBoots]
ListType == [listed: BOOLEAN, ids: SUBSET Conns,
             bytes: [Conns -> 0 .. MaxBytes], host: [Conns -> Hosts]]

ReplyType ==
  reply \in [boot: 0 .. MaxBoots, total: 0 .. MaxBytes, list: ListType]

\* No connection is listed under the name that stands for the rest.
NameInv ==
  \A c \in Conns : /\ conns[c].host # Unattributed
                   /\ reply.list.host[c] # Unattributed

\* No connection counts a byte that the engine did not count.
ConnInv == \A c \in Conns : conns[c].bytes <= SumOf(totals)

\* Only before the first sample is there no time of one.
FirstInv == cursor.at = -1 => cursor = NoCursor

TypeInv == TypeOK /\ ReplyType /\ NameInv /\ ConnInv /\ FirstInv

LEMMA SamplerFacts ==
  /\ Interval \in Nat \ {0} /\ MaxBytes \in Nat /\ MaxBoots \in Nat /\ MaxFaults \in Nat
  /\ Unattributed \in Hosts /\ IpOnly \in Hosts /\ IpOnly # Unattributed
  /\ IsFiniteSet(Conns) /\ IsFiniteSet(Boots)
  /\ \A t \in Times : t \in Nat /\ Cutoff(t) \in Times /\ Unix(t) \in Times
  /\ \A t \in Times \ {0} : Cutoff(t) < t
  /\ 0 \in Times
<1> USE SamplerAssumption, TimeAssumption
<1>1. IsFiniteSet(Boots)
  BY FS_Interval DEF Boots
<1>2. \A t \in Times : t \in Nat /\ Cutoff(t) \in Times /\ Unix(t) \in Times
  <2> HIDE DEF Cutoff
  <2> QED BY DEF Times
<1>3. 0 \in Times
  BY DEF Times
<1> QED BY <1>1, <1>2, <1>3

LEMMA SpanFacts ==
  ASSUME NEW prev, prev.at \in Times, NEW at \in Times, prev.at < at
  PROVE  LET f == Span(prev, at).from
         IN  /\ Span(prev, at) = [old |-> prev.at, at |-> at, from |-> f]
             /\ f \in Times /\ prev.at <= f /\ f < at /\ f <= at
             /\ Cutoff(at) = 0 => f = prev.at
<1>1. /\ Cutoff(at) \in Times /\ at \in Nat /\ prev.at \in Nat
      /\ Cutoff(at) \in Nat /\ Cutoff(at) < at
  <2>1. at \in Nat /\ prev.at \in Nat /\ at # 0
    BY SamplerFacts
  <2> HIDE DEF Cutoff
  <2> QED BY <2>1, SamplerFacts
<1>2. Span(prev, at) = [old |-> prev.at, at |-> at,
                        from |-> IF prev.at > Cutoff(at) THEN prev.at ELSE Cutoff(at)]
  BY DEF Span
<1> HIDE DEF Cutoff
<1> QED BY <1>1, <1>2

LEMMA AddedType ==
  ASSUME NEW table \in [Starts -> RowType], NEW prev, prev.at \in Times,
         NEW at \in Times, prev.at < at, NEW x \in Nat
  PROVE  Added(table, prev, at, x) \in [Starts -> RowType]
<1> DEFINE span == Span(prev, at)
           f == span.from
<1>1. /\ span = [old |-> prev.at, at |-> at, from |-> f]
      /\ f \in Times /\ prev.at <= f /\ f <= at
  BY SpanFacts
<1>2. ASSUME NEW s \in Overlapped(span)
      PROVE  Right(span, s) - Left(span, s) \in Nat /\ Share(x, span, s) \in Nat
  <2> HIDE DEF span
  <2>1. Seconds(span, s) \in Nat
    BY <1>1, OverlapFacts
  <2>2. \A q \in Overlapped(span) : Share(x, span, q) \in Nat
    BY <1>1, ShareFacts
  <2> QED BY <2>1, <2>2 DEF Seconds
<1>3. ASSUME NEW s \in Starts PROVE Added(table, prev, at, x)[s] \in RowType
  <2>1. CASE s \in Overlapped(span)
    <3>1. table[s] \in RowType
      OBVIOUS
    <3>2. Added(table, prev, at, x)[s] =
            LET seconds == Right(span, s) - Left(span, s)
                old == table[s]
            IN  [bytes     |-> old.bytes + Share(x, span, s),
                 observed  |-> old.observed + (IF Estimated(prev, at) THEN 0 ELSE seconds),
                 estimated |-> old.estimated + (IF Estimated(prev, at) THEN seconds ELSE 0),
                 resets    |-> old.resets + (IF IsReset(prev) /\ Left(span, s) = span.from
                                             THEN 1 ELSE 0)]
      BY <2>1 DEF Added
    <3> HIDE DEF span
    <3> QED BY <1>2, <2>1, <3>1, <3>2 DEF RowType
  <2>2. CASE s \notin Overlapped(span)
    BY <2>2 DEF Added
  <2> QED BY <2>1, <2>2
<1>4. Added(table, prev, at, x) = [s \in Starts |-> Added(table, prev, at, x)[s]]
  BY DEF Added
<1> QED BY <1>3, <1>4

LEMMA DeltaType ==
  ASSUME ReplyType, NEW prev \in SampleType
  PROVE  Delta(prev) \in Nat /\ Delta(prev) <= reply.total
<1>1. reply.total \in 0 .. MaxBytes /\ prev.total \in 0 .. MaxBytes /\ MaxBytes \in Nat
  BY SamplerFacts DEF ReplyType, SampleType
<1> QED BY <1>1 DEF Delta, IsReset

LEMMA UsedFacts ==
  ASSUME TypeInv, NEW at
  PROVE  Used(at) \in [Hosts -> Nat] /\ Used(at)[Unattributed] = 0
<1>1. ASSUME NEW c \in Conns PROVE Billable(c, at) \in Nat
  <2>1. /\ reply.list.bytes[c] \in Nat /\ domain_cursor[c].bytes \in Nat
    BY SamplerFacts DEF TypeInv, TypeOK, ReplyType, ListType
  <2> QED BY <2>1 DEF Billable
<1>2. reply.list.ids \in SUBSET Conns
  BY DEF TypeInv, ReplyType, ListType
<1>3. ASSUME NEW S \in SUBSET Conns PROVE SumOf([c \in S |-> Billable(c, at)]) \in Nat
  <2>1. [c \in S |-> Billable(c, at)] \in [S -> Nat] /\ IsFiniteSet(S)
    BY <1>1, SamplerFacts, FS_Subset
  <2> QED BY <2>1, SumNonnegative
<1>4. ASSUME NEW h \in Hosts PROVE Used(at)[h] \in Nat
  <2>1. {c \in reply.list.ids : reply.list.host[c] = h} \in SUBSET Conns
    BY <1>2
  <2> QED BY <1>3, <2>1 DEF Used
<1>5. Used(at)[Unattributed] = 0
  <2>1. {c \in reply.list.ids : reply.list.host[c] = Unattributed} = {}
    BY <1>2 DEF TypeInv, NameInv
  <2> DEFINE f == [c \in {} |-> Billable(c, at)]
  <2>2. f \in [{} -> Int] /\ IsFiniteSet({}) /\ \A x \in {} : f[x] = 0
    BY FS_EmptySet
  <2>3. SumOf(f) = 0
    <3> HIDE DEF f
    <3> QED BY <2>2, SumZero
  <2>4. Unattributed \in Hosts
    BY SamplerFacts
  <2> QED BY <2>1, <2>3, <2>4 DEF Used
<1>6. Used(at) = [h \in Hosts |-> Used(at)[h]]
  BY DEF Used
<1> QED BY <1>4, <1>5, <1>6

LEMMA CappedFacts ==
  ASSUME NEW used \in [Hosts -> Nat], used[Unattributed] = 0, NEW budget \in Nat
  PROVE  /\ Capped(used, budget) \in [Hosts -> Nat]
         /\ Capped(used, budget)[Unattributed] = 0
         /\ SumOf(Capped(used, budget)) \in Nat
         /\ SumOf(Capped(used, budget)) <= budget
<1> DEFINE w == SumOf(used)
<1>1. w \in Nat /\ Unattributed \in Hosts /\ IsFiniteSet(Hosts)
  BY HostFacts, SamplerFacts, SumNonnegative
<1>2. CASE w > budget
  <2>1. Capped(used, budget) = Spread(budget, used, w)
    BY <1>2 DEF Capped
  <2>2. w \in Nat \ {0}
    BY <1>1, <1>2
  <2>3. /\ Spread(budget, used, w) \in [Hosts -> Nat]
        /\ SumOf(Spread(budget, used, w)) = budget
    <3> HIDE DEF w
    <3> QED BY <2>2, SpreadFacts DEF w
  <2>4. Spread(budget, used, w)[Unattributed] = 0
    <3> DEFINE P == Preceding(used, Unattributed)
    <3>1. P \in Nat
      BY <1>1, PrecedingIsBelow
    <3>2. P + used[Unattributed] = P /\ (budget * P) \div w \in Int
      <4>1. budget * P \in Nat
        BY <3>1
      <4> HIDE DEF P, w
      <4> QED BY <2>2, <3>1, <4>1, DivOfNatural
    <3>3. Spread(budget, used, w)[Unattributed] =
            (budget * (P + used[Unattributed])) \div w - (budget * P) \div w
      BY <1>1 DEF Spread
    <3> HIDE DEF P, w
    <3> QED BY <3>2, <3>3
  <2> HIDE DEF w
  <2> QED BY <2>1, <2>3, <2>4
<1>3. CASE ~ (w > budget)
  <2>1. Capped(used, budget) = used
    BY <1>3 DEF Capped
  <2> QED BY <1>1, <1>3, <2>1
<1> QED BY <1>2, <1>3

\* What no named host is given goes to Unattributed: the budget is used up.
LEMMA AttributedFacts ==
  ASSUME NEW used \in [Hosts -> Nat], used[Unattributed] = 0, NEW budget \in Nat
  PROVE  /\ Attributed(used, budget) \in [Hosts -> Nat]
         /\ SumOf(Attributed(used, budget)) = budget
<1> DEFINE f == Capped(used, budget)
           g == Attributed(used, budget)
<1>1. /\ f \in [Hosts -> Nat] /\ f[Unattributed] = 0
      /\ SumOf(f) \in Nat /\ SumOf(f) <= budget
  BY CappedFacts
<1>2. Unattributed \in Hosts /\ IsFiniteSet(Hosts)
  BY HostFacts, SamplerFacts
<1>3. g = [f EXCEPT ![Unattributed] = budget - SumOf(f)]
  BY DEF Attributed
<1> HIDE DEF f, g
<1>4. /\ g \in [Hosts -> Nat] /\ g[Unattributed] = budget - SumOf(f)
      /\ \A h \in Hosts \ {Unattributed} : g[h] = f[h]
  BY <1>1, <1>2, <1>3
<1>5. f \in [Hosts -> Int] /\ g \in [Hosts -> Int]
  BY <1>1, <1>4
<1>6. SumOf(g) = SumOf(f) + g[Unattributed] - f[Unattributed]
  BY <1>2, <1>4, <1>5, SumUpdate
<1>7. SumOf(g) = budget
  BY <1>1, <1>4, <1>6
<1> QED BY <1>4, <1>7 DEF g

\* What one snapshot adds to the rows of a bucket, and of a host.
DomainPart(at, budget, s) ==
  IF budget = 0 THEN [h \in Hosts |-> 0]
  ELSE Spread(Share(budget, Span(domain_state, at), s),
              Attributed(Used(at), budget), budget)

LEMMA DomainPartFacts ==
  ASSUME TypeInv, NEW at \in Times, domain_state.at \in Times, domain_state.at < at,
         NEW budget \in Nat, NEW s \in Overlapped(Span(domain_state, at))
  PROVE  /\ DomainPart(at, budget, s) \in [Hosts -> Nat]
         /\ SumOf(DomainPart(at, budget, s))
              = Share(budget, Span(domain_state, at), s)
<1> DEFINE span == Span(domain_state, at)
           x == Share(budget, span, s)
           usage == Attributed(Used(at), budget)
<1>1. /\ span = [old |-> domain_state.at, at |-> at, from |-> span.from]
      /\ span.from \in Times /\ domain_state.at <= span.from /\ span.from <= at
  BY SpanFacts
<1>2. x \in Nat
  <2>1. \A q \in Overlapped(span) : Share(budget, span, q) \in Nat
    <3> HIDE DEF span, x, usage
    <3> QED BY <1>1, ShareFacts
  <2> QED BY <2>1
<1>3. usage \in [Hosts -> Nat] /\ SumOf(usage) = budget
  BY UsedFacts, AttributedFacts
<1>4. CASE budget = 0
  <2> DEFINE z == [h \in Hosts |-> 0]
  <2>1. z \in [Hosts -> Nat] /\ z \in [Hosts -> Int] /\ \A h \in Hosts : z[h] = 0
    OBVIOUS
  <2>2. SumOf(z) = 0
    <3> HIDE DEF z
    <3> QED BY <2>1, HostFacts, SumZero
  <2>3. x = 0
    <3> DEFINE d == span.at - span.old
    <3>0. d \in Nat \ {0} /\ span.old \in Nat
      <4>1. at \in Nat /\ domain_state.at \in Nat
        BY SamplerFacts
      <4>2. span.at = at /\ span.old = domain_state.at
        BY <1>1
      <4> QED BY <4>1, <4>2
    <3>1. \A t \in Times : (0 * (t - span.old)) \div d = 0
      <4> TAKE t \in Times
      <4>1. t \in Nat
        BY SamplerFacts
      <4>2. 0 * (t - span.old) = 0
        BY <3>0, <4>1
      <4>3. 0 \div d = 0
        <5> HIDE DEF d
        <5> QED BY <3>0
      <4> QED BY <4>2, <4>3
    <3>2. Right(span, s) \in Times /\ Left(span, s) \in Times
      <4>1. s \in Overlapped(span)
        OBVIOUS
      <4> HIDE DEF span, x, usage
      <4> QED BY <1>1, <4>1, OverlapFacts
    <3>3. x = (0 * (Right(span, s) - span.old)) \div d
                - (0 * (Left(span, s) - span.old)) \div d
      BY <1>4 DEF Share
    <3> HIDE DEF x, span, d
    <3> QED BY <3>1, <3>2, <3>3
  <2> QED BY <1>4, <2>1, <2>2, <2>3 DEF DomainPart
<1>5. CASE budget # 0
  <2>1. DomainPart(at, budget, s) = Spread(x, usage, budget)
    BY <1>5 DEF DomainPart
  <2>2. budget \in Nat \ {0}
    BY <1>5
  <2> HIDE DEF x, usage
  <2>3. /\ Spread(x, usage, budget) \in [Hosts -> Nat]
        /\ SumOf(Spread(x, usage, budget)) = x
    BY <1>2, <1>3, <2>2, SpreadFacts
  <2> QED BY <2>1, <2>3 DEF x
<1> QED BY <1>4, <1>5

LEMMA DomainAddedFacts ==
  ASSUME TypeInv, NEW at \in Times, domain_state.at \in Times, domain_state.at < at,
         NEW budget \in Nat
  PROVE  /\ DomainAdded(at, budget) \in [Starts -> [Hosts -> Nat]]
         /\ \A s \in Starts, h \in Hosts :
              DomainAdded(at, budget)[s][h] =
                domain_buckets[s][h] + (IF s \in Overlapped(Span(domain_state, at))
                                        THEN DomainPart(at, budget, s)[h] ELSE 0)
<1>1. \A s \in Starts, h \in Hosts :
        DomainAdded(at, budget)[s][h] =
          domain_buckets[s][h] + (IF s \in Overlapped(Span(domain_state, at))
                                  THEN DomainPart(at, budget, s)[h] ELSE 0)
  BY DEF DomainAdded, DomainPart
<1>2. domain_buckets \in [Starts -> [Hosts -> Nat]]
  BY DEF TypeInv, TypeOK
<1>3. ASSUME NEW s \in Starts, NEW h \in Hosts
      PROVE  DomainAdded(at, budget)[s][h] \in Nat
  <2>1. domain_buckets[s][h] \in Nat
    BY <1>2
  <2>2. s \in Overlapped(Span(domain_state, at)) => DomainPart(at, budget, s)[h] \in Nat
    BY DomainPartFacts
  <2> QED BY <1>1, <2>1, <2>2
<1>4. DomainAdded(at, budget) =
        [s \in Starts |-> [h \in Hosts |-> DomainAdded(at, budget)[s][h]]]
  BY DEF DomainAdded
<1> QED BY <1>1, <1>3, <1>4

LEMMA PrunedType ==
  ASSUME NEW t, NEW R, NEW table \in [Starts -> R], NEW empty \in R
  PROVE  Pruned(table, empty, t) \in [Starts -> R]
BY DEF Pruned

-----------------------------------------------------------------------------
LEMMA InitTypes == Init => TypeInv
<1> SUFFICES ASSUME Init PROVE TypeInv
  OBVIOUS
<1>1. TypeOK
  <2>1. /\ NoCursor \in SampleType /\ EmptyRow \in RowType
        /\ Unopened \in [open: BOOLEAN, host: Hosts, began: Times \cup {-1},
                         bytes: 0 .. MaxBytes]
        /\ Unseen \in [seen: BOOLEAN, host: Hosts, bytes: Nat]
    BY SamplerFacts
       DEF NoCursor, SampleType, EmptyRow, RowType, Unopened, Unseen
  <2>2. /\ totals \in [Boots -> 0 .. MaxBytes] /\ sampled \in [Boots -> 0 .. MaxBytes]
        /\ domain_buckets \in [Starts -> [Hosts -> Nat]]
        /\ marker \in 0 .. MaxBoots /\ before \in 0 .. MaxBoots
        /\ faults \in 0 .. MaxFaults /\ now \in Times /\ crossed \in Nat
    BY SamplerFacts DEF Init
  <2>3. /\ reply.boot \in 0 .. MaxBoots /\ reply.total \in 0 .. MaxBytes
        /\ reply.list.ids \subseteq Conns
    BY SamplerFacts DEF Init, NoReply, NoList
  <2>4. /\ conns \in [Conns -> [open: BOOLEAN, host: Hosts, began: Times \cup {-1},
                                bytes: 0 .. MaxBytes]]
        /\ domain_cursor \in [Conns -> [seen: BOOLEAN, host: Hosts, bytes: Nat]]
        /\ buckets \in [Starts -> RowType] /\ domain_sampling \in [Starts -> RowType]
        /\ cursor \in SampleType /\ domain_state \in SampleType /\ baseline \in SampleType
    BY <2>1 DEF Init
  <2>5. /\ engine \in {"down", "up"} /\ fellBack \in BOOLEAN
        /\ collector \in {"before", "fetch", "listing", "total", "after"}
    BY DEF Init
  <2> QED BY <2>2, <2>3, <2>4, <2>5 DEF TypeOK, RowType, SampleType
<1>2. ReplyType
  BY SamplerFacts DEF Init, ReplyType, ListType, NoReply, NoList
<1>3. NameInv
  BY SamplerFacts DEF Init, NameInv, Unopened, NoReply, NoList
<1>4. SumOf(totals) \in Nat
  <2>1. totals \in [Boots -> Nat]
    BY DEF Init
  <2> QED BY <2>1, SamplerFacts, SumNonnegative
<1>5. ConnInv
  BY <1>4 DEF Init, ConnInv, Unopened
<1>6. FirstInv
  BY DEF Init, FirstInv
<1> QED BY <1>1, <1>2, <1>3, <1>5, <1>6 DEF TypeInv

LEMMA EngineKeepsTypes ==
  ASSUME TypeInv, SamplerInv, EngineNext PROVE TypeInv'
<1>0. /\ TypeOK /\ ReplyType /\ NameInv /\ ConnInv /\ FirstInv
      /\ UNCHANGED <<now, turnVars, ledgerVars, historyVars, faults>>
  BY DEF TypeInv, EngineNext, Start, Die, Open, Sniff, Relay, Close
<1>1. ReplyType' /\ FirstInv'
  BY <1>0 DEF ReplyType, FirstInv, turnVars, ledgerVars
<1>2. totals \in [Boots -> Nat] /\ SumOf(totals) \in Nat
      /\ \A b \in Boots : totals[b] <= SumOf(totals)
  <2>1. totals \in [Boots -> Nat]
    BY SamplerFacts DEF TypeInv, TypeOK
  <2> QED BY <2>1, SamplerFacts, SumNonnegative
<1>3. ASSUME /\ marker' \in 0 .. MaxBoots /\ engine' \in {"down", "up"}
             /\ totals' \in [Boots -> 0 .. MaxBytes]
             /\ conns' \in [Conns -> [open: BOOLEAN, host: Hosts,
                                      began: Times \cup {-1}, bytes: 0 .. MaxBytes]]
      PROVE  TypeOK'
  BY <1>0, <1>3 DEF TypeOK, turnVars, ledgerVars, historyVars
<1> DEFINE ConnType == [open: BOOLEAN, host: Hosts, began: Times \cup {-1},
                        bytes: 0 .. MaxBytes]
<1>4. conns \in [Conns -> ConnType] /\ totals \in [Boots -> 0 .. MaxBytes]
      /\ marker \in 0 .. MaxBoots /\ engine \in {"down", "up"} /\ now \in Times
  BY <1>0 DEF TypeOK
<1>5. CASE Start
  <2>1. marker' \in 0 .. MaxBoots
    BY <1>4, <1>5, SamplerFacts DEF Start
  <2>2. UNCHANGED <<totals, conns>> /\ engine' \in {"down", "up"}
    BY <1>5 DEF Start
  <2> QED BY <1>0, <1>1, <1>3, <1>4, <2>1, <2>2 DEF TypeInv, NameInv, ConnInv, turnVars
\* Bytes stay, and every connection keeps a name of its own.
<1>6. ASSUME UNCHANGED <<marker, totals>>, engine' \in {"down", "up"},
             conns' \in [Conns -> ConnType],
             \A c \in Conns : conns'[c].bytes \in {0, conns[c].bytes}
                                /\ conns'[c].host # Unattributed
      PROVE  TypeInv'
  <2>1. NameInv'
    BY <1>0, <1>6 DEF NameInv, turnVars
  <2>2. ConnInv'
    BY <1>0, <1>2, <1>4, <1>6 DEF ConnInv
  <2> QED BY <1>1, <1>3, <1>4, <1>6, <2>1, <2>2 DEF TypeInv
<1>7. CASE Die
  BY <1>0, <1>4, <1>6, <1>7 DEF Die, NameInv
<1>8. CASE \E c \in Conns, h \in Hosts \ {Unattributed} : Open(c, h) \/ Sniff(c, h)
  <2>1. PICK c \in Conns, h \in Hosts \ {Unattributed} : Open(c, h) \/ Sniff(c, h)
    BY <1>8
  <2>2. CASE Open(c, h)
    <3>1. Unix(now) \in Times
      BY <1>4, SamplerFacts
    <3>2. conns' = [conns EXCEPT ![c] = [open |-> TRUE, host |-> h,
                                         began |-> Unix(now), bytes |-> 0]]
      BY <2>2 DEF Open
    <3>3. conns' \in [Conns -> ConnType]
      BY <1>4, <3>1, <3>2, SamplerFacts
    <3>4. \A d \in Conns : conns'[d].bytes \in {0, conns[d].bytes}
                             /\ conns'[d].host # Unattributed
      BY <1>0, <1>4, <3>2 DEF NameInv
    <3>5. UNCHANGED <<marker, totals, engine>>
      BY <2>2 DEF Open
    <3> QED BY <1>4, <1>6, <3>3, <3>4, <3>5
  <2>3. CASE Sniff(c, h)
    BY <1>0, <1>4, <1>6, <2>3 DEF Sniff, NameInv
  <2> QED BY <2>1, <2>2, <2>3
<1>9. CASE \E nest \in SUBSET Conns : Relay(nest)
  <2>1. PICK nest \in SUBSET Conns : Relay(nest)
    BY <1>9
  <2>2. /\ marker \in Boots /\ SumOf(totals) < MaxBytes
        /\ totals' = [totals EXCEPT ![marker] = @ + 1]
        /\ UNCHANGED <<marker, engine>>
    BY <2>1 DEF Relay, SamplerInv, EngineInv
  <2>3. totals' \in [Boots -> 0 .. MaxBytes]
    BY <1>2, <1>4, <2>2, SamplerFacts
  <2>4. SumOf(totals') = SumOf(totals) + 1
    <3>1. /\ totals \in [Boots -> Int] /\ totals' \in [Boots -> Int]
          /\ totals'[marker] = totals[marker] + 1 /\ totals[marker] \in Int
          /\ \A b \in Boots \ {marker} : totals'[b] = totals[b]
      BY <1>2, <2>2
    <3>2. SumOf(totals') = SumOf(totals) + totals'[marker] - totals[marker]
      <4>1. IsFiniteSet(Boots) /\ marker \in Boots
        BY <2>2, SamplerFacts
      <4> QED BY <3>1, <4>1, SumUpdate
    <3> QED BY <1>2, <3>1, <3>2
  <2>5. \A c \in Conns :
          conns'[c] = IF c \in nest THEN [conns[c] EXCEPT !.bytes = @ + 1]
                      ELSE conns[c]
    BY <2>1 DEF Relay
  <2>6. \A c \in Conns : /\ conns'[c].bytes \in Nat
                         /\ conns'[c].bytes <= SumOf(totals) + 1
                         /\ conns'[c].host = conns[c].host
                         /\ conns'[c].open = conns[c].open
                         /\ conns'[c].began = conns[c].began
    <3> TAKE c \in Conns
    <3>1. conns[c] \in ConnType /\ conns[c].bytes \in Nat
      BY <1>4, SamplerFacts
    <3>2. conns[c].bytes <= SumOf(totals)
      BY <1>0 DEF ConnInv
    <3>3. CASE c \in nest
      <4>1. conns'[c] = [conns[c] EXCEPT !.bytes = @ + 1]
        BY <2>5, <3>3
      <4> QED BY <1>2, <3>1, <3>2, <4>1
    <3>4. CASE c \notin nest
      <4>1. conns'[c] = conns[c]
        BY <2>5, <3>4
      <4> QED BY <1>2, <3>1, <3>2, <4>1
    <3> QED BY <3>3, <3>4
  <2>7. conns' \in [Conns -> ConnType]
    <3>1. ASSUME NEW c \in Conns PROVE conns'[c] \in ConnType
      <4>1. conns[c] \in ConnType
        BY <1>4
      <4>2. conns'[c].bytes \in 0 .. MaxBytes
        BY <1>2, <2>2, <2>6, SamplerFacts
      <4> QED BY <2>5, <4>1, <4>2
    <3>2. conns' = [c \in Conns |-> conns'[c]]
      BY <2>1 DEF Relay
    <3> QED BY <3>1, <3>2
  <2>8. NameInv' /\ ConnInv'
    BY <1>0, <2>4, <2>6 DEF NameInv, ConnInv, turnVars
  <2> QED BY <1>1, <1>3, <1>4, <2>2, <2>3, <2>7, <2>8 DEF TypeInv
<1>10. CASE \E c \in Conns : Close(c)
  <2>1. PICK c \in Conns : Close(c)
    BY <1>10
  <2>2. /\ conns' = [conns EXCEPT ![c].open = FALSE]
        /\ UNCHANGED <<marker, totals, engine>>
    BY <2>1 DEF Close
  <2>3. conns' \in [Conns -> ConnType]
    BY <1>4, <2>2
  <2>4. \A d \in Conns : conns'[d].bytes \in {0, conns[d].bytes}
                           /\ conns'[d].host # Unattributed
    BY <1>0, <1>4, <2>2 DEF NameInv
  <2> QED BY <1>4, <1>6, <2>2, <2>3, <2>4
<1> QED BY <1>5, <1>7, <1>8, <1>9, <1>10 DEF EngineNext

LEMMA OverlapIsNotEmpty ==
  ASSUME NEW prev, prev.at \in Times, NEW at \in Times, prev.at < at
  PROVE  Overlapped(Span(prev, at)) # {}
<1> DEFINE f == Span(prev, at).from
           t == at - 1
<1>1. f \in Times /\ f < at /\ Span(prev, at).at = at
  BY SpanFacts
<1>2. at \in Nat /\ prev.at \in Nat /\ f \in Nat /\ t \in Times /\ Bucket \in Nat \ {0}
  <2>1. at \in Nat /\ prev.at \in Nat /\ f \in Nat
    BY <1>1, SamplerFacts
  <2> QED BY <2>1, TimeAssumption DEF Times
<1> DEFINE s == BucketStart(t)
<1>3. s \in Starts /\ s <= t /\ t < s + Bucket /\ s \in Nat
  <2>1. s \in Starts /\ \A q \in Starts : s = q <=> q <= t /\ t < q + Bucket
    BY <1>2, BucketFacts
  <2> HIDE DEF s
  <2> QED BY <2>1, BucketFacts
<1> HIDE DEF s, f
<1>4. s < at /\ s + Bucket > f
  BY <1>1, <1>2, <1>3
<1> QED BY <1>1, <1>3, <1>4 DEF Overlapped, f

LEMMA NoReplyType ==
  /\ NoReply \in [boot: 0 .. MaxBoots, total: 0 .. MaxBytes, list: ListType]
  /\ \A c \in Conns : NoReply.list.host[c] # Unattributed
  /\ NoReply.list.ids = {} /\ NoReply.total = 0 /\ NoReply.list.listed = FALSE
BY SamplerFacts DEF ListType, NoReply, NoList

LEMMA EmptyTypes ==
  /\ EmptyRow \in RowType /\ NoUsage \in [Hosts -> Nat]
  /\ Unseen \in [seen: BOOLEAN, host: Hosts, bytes: Nat]
BY SamplerFacts DEF EmptyRow, RowType, NoUsage, Unseen

\* The transaction of a sample keeps the types.
LEMMA RecordKeepsTypes ==
  ASSUME TypeInv, Record PROVE TypeInv'
<1> DEFINE at == Unix(now)
           CursorType == [Conns -> [seen: BOOLEAN, host: Hosts, bytes: Nat]]
<1>0. /\ TypeOK /\ ReplyType /\ NameInv /\ ConnInv /\ FirstInv
      /\ UNCHANGED <<now, engineVars, faults>> /\ at \in Times /\ cursor.at < at
      /\ before \in 0 .. MaxBoots /\ EndTurn
  BY SamplerFacts DEF TypeInv, Record, TypeOK
<1>1. /\ cursor \in SampleType /\ domain_state \in SampleType /\ baseline \in SampleType
      /\ buckets \in [Starts -> RowType] /\ domain_sampling \in [Starts -> RowType]
      /\ domain_buckets \in [Starts -> [Hosts -> Nat]]
      /\ domain_cursor \in CursorType
      /\ sampled \in [Boots -> 0 .. MaxBytes] /\ crossed \in Nat /\ fellBack \in BOOLEAN
  BY <1>0 DEF TypeOK, SampleType, RowType
<1>2. Sample(at) \in SampleType
  <2>1. reply.total \in 0 .. MaxBytes
    BY <1>0 DEF ReplyType
  <2> HIDE DEF at
  <2> QED BY <1>0, <2>1 DEF Sample, SampleType
<1>3. \A prev \in SampleType : prev.at # -1 => prev.at \in Times
  BY DEF SampleType
<1>4. buckets' \in [Starts -> RowType]
  <2> DEFINE b == Added(buckets, cursor, at, Delta(cursor))
  <2>1. cursor # NoCursor => b \in [Starts -> RowType]
    <3> SUFFICES ASSUME cursor # NoCursor PROVE b \in [Starts -> RowType]
      OBVIOUS
    <3>1. cursor.at \in Times /\ Delta(cursor) \in Nat
      BY <1>0, <1>1, <1>3, DeltaType DEF FirstInv
    <3> HIDE DEF at
    <3> QED BY <1>0, <1>1, <3>1, AddedType
  <2>2. buckets' = Pruned(IF cursor = NoCursor THEN buckets ELSE b, EmptyRow, at)
    BY DEF Record
  <2> HIDE DEF b, at
  <2> QED BY <1>1, <2>1, <2>2, EmptyTypes, PrunedType
<1>5. /\ domain_state' \in SampleType /\ domain_cursor' \in CursorType
      /\ domain_buckets' \in [Starts -> [Hosts -> Nat]]
      /\ domain_sampling' \in [Starts -> RowType] /\ crossed' \in Nat
  <2> DEFINE budget == Delta(domain_state)
             first == domain_state.at = -1
             x == Clipped(Used(at), budget)
  <2>1. budget \in Nat
    BY <1>0, <1>1, DeltaType
  <2>2. x \in Nat
    <3>1. SumOf(Used(at)) \in Nat
      <4>1. Used(at) \in [Hosts -> Nat]
        BY UsedFacts
      <4> QED BY <4>1, HostFacts, SumNonnegative
    <3> HIDE DEF budget, at
    <3> QED BY <2>1, <3>1 DEF Clipped
  <2>3. ASSUME NEW f \in CursorType, NEW state PROVE PrunedCursor(f, state, at) \in CursorType
    BY EmptyTypes DEF PrunedCursor
  <2>4. RecordDomains(at)
    BY DEF Record
  <2>5. CASE ~ (reply.list.listed /\ domain_state.at < at)
    <3>1. /\ domain_cursor' = PrunedCursor(domain_cursor, domain_state, at)
          /\ domain_buckets' = Pruned(domain_buckets, NoUsage, at)
          /\ domain_sampling' = Pruned(domain_sampling, EmptyRow, at)
          /\ UNCHANGED <<domain_state, crossed>>
      BY <2>4, <2>5 DEF RecordDomains
    <3> HIDE DEF CursorType
    <3> QED BY <1>1, <2>3, <3>1, EmptyTypes, PrunedType
  <2>6. CASE reply.list.listed /\ domain_state.at < at
    <3>1. /\ domain_state' = Sample(at)
          /\ domain_cursor' = PrunedCursor(Snapshot, Sample(at), at)
          /\ domain_buckets' = Pruned(IF first THEN domain_buckets
                                      ELSE DomainAdded(at, budget), NoUsage, at)
          /\ domain_sampling' =
               Pruned(IF first THEN domain_sampling
                      ELSE Added(domain_sampling, domain_state, at, x), EmptyRow, at)
          /\ crossed' = IF first THEN crossed
                        ELSE crossed + Cardinality(Overlapped(Span(domain_state, at))) - 1
      BY <2>4, <2>6 DEF RecordDomains
    <3>2. Snapshot \in CursorType
      <4>1. reply.list \in ListType
        BY <1>0 DEF ReplyType
      <4>2. ASSUME NEW c \in Conns
            PROVE  (IF c \in reply.list.ids
                    THEN [seen |-> TRUE, host |-> reply.list.host[c],
                          bytes |-> reply.list.bytes[c]]
                    ELSE Unseen) \in [seen: BOOLEAN, host: Hosts, bytes: Nat]
        <5>1. reply.list.host[c] \in Hosts /\ reply.list.bytes[c] \in Nat
          BY <4>1, SamplerFacts DEF ListType
        <5> QED BY <5>1, EmptyTypes
      <4> QED BY <4>2 DEF Snapshot
    <3>3. CASE first
      <4> HIDE DEF CursorType
      <4> QED BY <1>1, <1>2, <2>3, <3>1, <3>2, <3>3, EmptyTypes, PrunedType
    <3>4. CASE ~first
      <4>1. domain_state.at \in Times
        BY <1>1, <1>3, <3>4
      <4>2. DomainAdded(at, budget) \in [Starts -> [Hosts -> Nat]]
        <5> HIDE DEF at, budget
        <5> QED BY <1>0, <2>1, <2>6, <4>1, DomainAddedFacts
      <4>3. Added(domain_sampling, domain_state, at, x) \in [Starts -> RowType]
        <5> HIDE DEF at, x
        <5> QED BY <1>0, <1>1, <2>2, <2>6, <4>1, AddedType
      <4>4. crossed' \in Nat
        <5> DEFINE span == Span(domain_state, at)
        <5>1. Overlapped(span) # {}
          BY <1>0, <2>6, <4>1, OverlapIsNotEmpty
        <5>2. IsFiniteSet(Overlapped(span))
          <6>1. Overlapped(span) \in SUBSET Starts
            BY DEF Overlapped
          <6> QED BY <6>1, BucketFacts, FS_Subset
        <5>3. Cardinality(Overlapped(span)) \in Nat \ {0}
          <6> HIDE DEF span
          <6> QED BY <5>1, <5>2, FS_CardinalityType, FS_EmptySet
        <5>4. crossed' = crossed + Cardinality(Overlapped(span)) - 1
          BY <3>1, <3>4
        <5> DEFINE n == Cardinality(Overlapped(span))
        <5>5. n \in Nat \ {0} /\ crossed' = crossed + n - 1 /\ crossed \in Nat
          BY <1>1, <5>3, <5>4
        <5> HIDE DEF n
        <5> QED BY <5>5
      <4> HIDE DEF CursorType, x, budget, at
      <4> QED BY <1>2, <2>3, <3>1, <3>2, <3>4, <4>2, <4>3, <4>4, EmptyTypes, PrunedType
    <3> QED BY <3>3, <3>4
  <2> QED BY <2>5, <2>6
<1>6. /\ cursor' = Sample(at) /\ collector' = "before" /\ before' = 0 /\ reply' = NoReply
      /\ sampled' \in [Boots -> 0 .. MaxBytes] /\ baseline' \in SampleType
      /\ fellBack' \in BOOLEAN
  <2>1. reply.total \in 0 .. MaxBytes /\ reply.list.listed \in BOOLEAN
    BY <1>0 DEF ReplyType, ListType
  <2>2. /\ cursor' = Sample(at) /\ sampled' = [sampled EXCEPT ![before] = reply.total]
        /\ baseline' = IF cursor = NoCursor THEN Sample(at) ELSE baseline
        /\ fellBack' = (fellBack \/ ~reply.list.listed)
        /\ collector' = "before" /\ before' = 0 /\ reply' = NoReply
    BY DEF Record, EndTurn
  <2> HIDE DEF at
  <2> QED BY <1>1, <1>2, <2>1, <2>2
<1>7. TypeOK'
  <2>1. /\ 0 \in 0 .. MaxBoots /\ reply'.boot \in 0 .. MaxBoots
        /\ reply'.total \in 0 .. MaxBytes /\ reply'.list.ids \subseteq Conns
    BY <1>6, NoReplyType, SamplerFacts
  <2> HIDE DEF at
  <2> QED BY <1>0, <1>2, <1>4, <1>5, <1>6, <2>1 DEF TypeOK, engineVars, RowType, SampleType
<1>8. ReplyType' /\ NameInv' /\ ConnInv'
  BY <1>0, <1>6, NoReplyType DEF ReplyType, NameInv, ConnInv, engineVars
<1>9. FirstInv'
  <2>1. cursor'.at = at /\ at # -1
    <3>1. at \in Nat
      BY <1>0, SamplerFacts
    <3> HIDE DEF at
    <3> QED BY <1>6, <3>1 DEF Sample
  <2> QED BY <2>1 DEF FirstInv
<1> QED BY <1>7, <1>8, <1>9 DEF TypeInv

LEMMA CollectorKeepsTypes ==
  ASSUME TypeInv, SamplerInv, CollectorNext PROVE TypeInv'
<1>0. TypeOK /\ ReplyType /\ NameInv /\ ConnInv /\ FirstInv
  BY DEF TypeInv
<1> DEFINE ReplySet == [boot: 0 .. MaxBoots, total: 0 .. MaxBytes, list: ListType]
           Named(r) == \A c \in Conns : r.list.host[c] # Unattributed
           Steps == {"before", "fetch", "listing", "total", "after"}
\* The steps of a turn before its transaction only change the reading.
<1>1. ASSUME UNCHANGED <<now, engineVars, ledgerVars, historyVars>>,
             faults' \in 0 .. MaxFaults, collector' \in Steps, before' \in 0 .. MaxBoots,
             reply' \in ReplySet, Named(reply')
      PROVE  TypeInv'
  <2>1. TypeOK'
    <3>1. /\ reply'.boot \in 0 .. MaxBoots /\ reply'.total \in 0 .. MaxBytes
          /\ reply'.list.ids \subseteq Conns
      BY <1>1 DEF ListType
    <3> QED BY <1>0, <1>1, <3>1 DEF TypeOK, engineVars, ledgerVars, historyVars
  <2>2. ReplyType' /\ NameInv' /\ ConnInv' /\ FirstInv'
    BY <1>0, <1>1 DEF ReplyType, NameInv, ConnInv, FirstInv, engineVars, ledgerVars
  <2> QED BY <2>1, <2>2 DEF TypeInv
<1>2. /\ NoReply \in ReplySet /\ Named(NoReply) /\ 0 \in 0 .. MaxBoots
      /\ reply \in ReplySet /\ Named(reply) /\ faults \in 0 .. MaxFaults
      /\ before \in 0 .. MaxBoots /\ marker \in 0 .. MaxBoots
      /\ faults < MaxFaults => faults + 1 \in 0 .. MaxFaults
  BY <1>0, NoReplyType, SamplerFacts DEF TypeOK, ReplyType, NameInv
<1>3. /\ marker \in Boots => totals[marker] \in 0 .. MaxBytes
      /\ engine = "up" => marker \in Boots
  BY <1>0 DEF TypeOK, SamplerInv, EngineInv
<1>4. CASE CollectorKill
  BY <1>1, <1>2, <1>4 DEF CollectorKill, CanFail, Fault
<1>5. CASE ReadBefore
  BY <1>1, <1>2, <1>5 DEF ReadBefore
<1>6. CASE FetchBegin
  <2> DEFINE ids == {c \in Conns : conns[c].open}
             list == [NoList EXCEPT !.listed = TRUE, !.ids = ids]
  <2>1. reply' = [boot |-> marker, total |-> totals[marker], list |-> list]
    BY <1>6 DEF FetchBegin
  <2>2. NoList \in ListType /\ \A c \in Conns : NoList.host[c] # Unattributed
    BY SamplerFacts DEF NoList, ListType
  <2>3. list \in ListType /\ \A c \in Conns : list.host[c] # Unattributed
    <3>1. ids \in SUBSET Conns
      OBVIOUS
    <3> HIDE DEF ids
    <3> QED BY <2>2, <3>1 DEF ListType
  <2>4. totals[marker] \in 0 .. MaxBytes
    BY <1>3, <1>6 DEF FetchBegin
  <2> HIDE DEF list
  <2>5. reply' \in ReplySet /\ Named(reply')
    BY <1>2, <2>1, <2>3, <2>4
  <2> QED BY <1>1, <1>2, <1>6, <2>5 DEF FetchBegin
<1>7. CASE FetchEnd
  <2> DEFINE B == [c \in Conns |-> IF c \in reply.list.ids THEN conns[c].bytes ELSE 0]
             H == [c \in Conns |-> IF c \in reply.list.ids THEN conns[c].host ELSE IpOnly]
  <2>1. reply' = [reply EXCEPT !.boot = 0, !.list.bytes = B, !.list.host = H]
    BY <1>7 DEF FetchEnd
  <2>2. B \in [Conns -> 0 .. MaxBytes]
    <3>1. \A c \in Conns : conns[c].bytes \in 0 .. MaxBytes
      BY <1>0 DEF TypeOK
    <3> QED BY <3>1, SamplerFacts
  <2>3. H \in [Conns -> Hosts] /\ \A c \in Conns : H[c] # Unattributed
    <3>1. \A c \in Conns : conns[c].host \in Hosts /\ conns[c].host # Unattributed
      BY <1>0 DEF TypeOK, NameInv
    <3> QED BY <3>1, SamplerFacts
  <2> HIDE DEF B, H
  <2>4. reply' \in ReplySet /\ Named(reply')
    <3>1. reply.list \in ListType
      BY <1>2
    <3>2. [reply.list EXCEPT !.bytes = B, !.host = H] \in ListType
      BY <2>2, <2>3, <3>1 DEF ListType
    <3> QED BY <1>2, <2>1, <2>2, <2>3, <3>1 DEF ListType
  <2> QED BY <1>1, <1>2, <1>7, <2>4 DEF FetchEnd
<1>8. CASE FetchFails
  BY <1>1, <1>2, <1>8 DEF FetchFails, CanFail, Fault
<1>9. CASE FetchTotal
  <2>1. reply' = [NoReply EXCEPT !.total = totals[marker]] /\ totals[marker] \in 0 .. MaxBytes
    BY <1>3, <1>9 DEF FetchTotal
  <2>2. reply' \in ReplySet /\ Named(reply')
    <3>1. reply' \in ReplySet /\ reply'.list = NoReply.list
      BY <1>2, <2>1
    <3> QED BY <1>2, <3>1
  <2> QED BY <1>1, <1>2, <1>9, <2>2 DEF FetchTotal
<1>10. CASE Record
  BY <1>10, RecordKeepsTypes
<1>11. CASE ClockNotAdvanced \/ SampleFails
  <2> DEFINE at == Unix(now)
             CursorType == [Conns -> [seen: BOOLEAN, host: Hosts, bytes: Nat]]
  <2>1. /\ PruneAlone /\ EndTurn /\ UNCHANGED <<now, engineVars>>
        /\ faults' \in 0 .. MaxFaults
    BY <1>2, <1>11 DEF ClockNotAdvanced, SampleFails, CanFail, Fault
  <2>2. /\ buckets \in [Starts -> RowType] /\ domain_sampling \in [Starts -> RowType]
        /\ domain_buckets \in [Starts -> [Hosts -> Nat]] /\ domain_cursor \in CursorType
    BY <1>0 DEF TypeOK, RowType
  <2>3. /\ buckets' \in [Starts -> RowType] /\ domain_sampling' \in [Starts -> RowType]
        /\ domain_buckets' \in [Starts -> [Hosts -> Nat]]
    BY <2>1, <2>2, EmptyTypes, PrunedType DEF PruneAlone
  <2>4. domain_cursor' \in CursorType
    BY <2>1, <2>2, EmptyTypes DEF PruneAlone, PrunedCursor
  <2>5. /\ collector' = "before" /\ before' = 0 /\ reply' = NoReply
        /\ UNCHANGED <<cursor, domain_state, historyVars>>
    BY <2>1 DEF EndTurn, PruneAlone
  <2>6. TypeOK'
    <3>1. /\ reply'.boot \in 0 .. MaxBoots /\ reply'.total \in 0 .. MaxBytes
          /\ reply'.list.ids \subseteq Conns
      BY <1>2, <2>5 DEF ListType
    <3> QED BY <1>0, <1>2, <2>1, <2>3, <2>4, <2>5, <3>1
            DEF TypeOK, engineVars, historyVars, RowType
  <2>7. ReplyType' /\ NameInv' /\ ConnInv' /\ FirstInv'
    BY <1>0, <1>2, <2>1, <2>5 DEF ReplyType, NameInv, ConnInv, FirstInv, engineVars
  <2> QED BY <2>6, <2>7 DEF TypeInv
<1> QED
  BY <1>4, <1>5, <1>6, <1>7, <1>8, <1>9, <1>10, <1>11 DEF CollectorNext

LEMMA NextTypes ==
  ASSUME TypeInv, SamplerInv, [Next]_vars PROVE TypeInv'
<1>1. CASE EngineNext
  BY <1>1, EngineKeepsTypes
<1>2. CASE CollectorNext
  BY <1>2, CollectorKeepsTypes
<1>3. CASE Tick \/ UNCHANGED vars
  <2>1. /\ UNCHANGED <<engineVars, turnVars, ledgerVars, historyVars, faults>>
        /\ now' \in Times
    <3>1. now \in Times /\ (now < MaxClock => now + 1 \in Times)
      BY TimeAssumption DEF TypeInv, TypeOK, Times
    <3> QED BY <1>3, <3>1 DEF Tick, vars
  <2>2. TypeOK'
    BY <2>1 DEF TypeInv, TypeOK, engineVars, turnVars, ledgerVars, historyVars
  <2>3. ReplyType' /\ NameInv' /\ ConnInv' /\ FirstInv'
    BY <2>1 DEF TypeInv, ReplyType, NameInv, ConnInv, FirstInv, engineVars, turnVars,
       ledgerVars
  <2> QED BY <2>2, <2>3 DEF TypeInv
<1> QED BY <1>1, <1>2, <1>3 DEF Next

LEMMA NextSamplerInv ==
  ASSUME SamplerInv, [Next]_vars PROVE SamplerInv'
<1>1. EngineGrows  BY EngineStepGrows
<1>2. CASE CollectorNext  BY <1>2, TurnKeepsInv
<1>3. CASE EngineNext \/ Tick \/ UNCHANGED vars
  <2>1. UNCHANGED turnVars /\ UNCHANGED <<cursor, domain_state>>
    BY <1>3 DEF EngineNext, Start, Die, Open, Sniff, Relay, Close, Tick, vars,
       ledgerVars
  <2> QED  BY <1>1, <2>1, ReadingsStayValid
<1> QED  BY <1>2, <1>3 DEF Next

IInv == TypeInv /\ SamplerInv

LEMMA Invariance == Spec => []IInv
<1>1. Init => IInv
  BY InitTypes, InitSamplerInv DEF IInv
<1>2. IInv /\ [Next]_vars => IInv'
  BY NextTypes, NextSamplerInv DEF IInv
<1> QED BY <1>1, <1>2, PTL DEF Spec

(***************************************************************************)
(* Every variable keeps its type: no row of any table is ever negative, for*)
(* any hosts, connections and intervals, whatever restarts and fails.      *)
(***************************************************************************)
THEOREM SamplerTypeOK == Spec => []TypeOK
<1>1. IInv => TypeOK
  BY DEF IInv, TypeInv
<1> QED BY <1>1, Invariance, PTL

-----------------------------------------------------------------------------
(***************************************************************************)
(* While the horizon expires nothing, prune leaves every table alone.      *)
(***************************************************************************)
NothingExpires == \A t \in Times : Cutoff(t) = 0

LEMMA NothingIsPruned ==
  ASSUME NothingExpires, NEW t \in Times
  PROVE  /\ \A R, empty : \A table \in [Starts -> R] : Pruned(table, empty, t) = table
         /\ \A f, state : state.at \in Times \cup {-1} => PrunedCursor(f, state, t) = f
<1>1. Cutoff(t) = 0 /\ \A s \in Starts : s \in Nat
  BY BucketFacts DEF NothingExpires
<1>2. ASSUME NEW R, NEW empty, NEW table \in [Starts -> R]
      PROVE  Pruned(table, empty, t) = table
  <2>1. \A s \in Starts : ~ (s < Cutoff(t))
    BY <1>1
  <2> HIDE DEF Cutoff
  <2> QED BY <2>1 DEF Pruned
<1>3. ASSUME NEW f, NEW state, state.at \in Times \cup {-1}
      PROVE  PrunedCursor(f, state, t) = f
  <2>1. \A u \in Times : ~ (u < Cutoff(t))
    BY <1>1, SamplerFacts
  <2> HIDE DEF Cutoff
  <2> QED BY <1>3, <2>1 DEF PrunedCursor
<1> QED BY <1>2, <1>3

\* Between samples the tables stay as they are.
LEMMA PruneAloneIsIdle ==
  ASSUME NothingExpires, TypeInv, PruneAlone
  PROVE  UNCHANGED <<ledgerVars, historyVars>>
<1>1. /\ now \in Times /\ Unix(now) \in Times
      /\ buckets \in [Starts -> RowType] /\ domain_sampling \in [Starts -> RowType]
      /\ domain_buckets \in [Starts -> [Hosts -> Nat]]
      /\ domain_state.at \in Times \cup {-1}
  BY SamplerFacts DEF TypeInv, TypeOK, RowType
<1>2. /\ Pruned(buckets, EmptyRow, Unix(now)) = buckets
      /\ Pruned(domain_sampling, EmptyRow, Unix(now)) = domain_sampling
      /\ Pruned(domain_buckets, NoUsage, Unix(now)) = domain_buckets
      /\ PrunedCursor(domain_cursor, domain_state, Unix(now)) = domain_cursor
  BY <1>1, NothingIsPruned
<1> QED BY <1>2 DEF PruneAlone, ledgerVars, historyVars

LEMMA OnlyRecordWrites ==
  ASSUME NothingExpires, IInv, [Next]_vars
  PROVE  Record \/ UNCHANGED <<ledgerVars, historyVars>>
<1>1. CASE ClockNotAdvanced \/ SampleFails
  BY <1>1, PruneAloneIsIdle DEF ClockNotAdvanced, SampleFails, IInv
<1>2. CASE \/ CollectorKill \/ ReadBefore \/ FetchBegin \/ FetchEnd \/ FetchFails
           \/ FetchTotal
  BY <1>2 DEF CollectorKill, ReadBefore, FetchBegin, FetchEnd, FetchFails, FetchTotal
<1>3. CASE EngineNext \/ Tick \/ UNCHANGED vars
  BY <1>3 DEF EngineNext, Start, Die, Open, Sniff, Relay, Close, Tick, vars
<1> QED BY <1>1, <1>2, <1>3 DEF Next, CollectorNext

\* What a transaction writes when nothing expires.
LEMMA RecordWrites ==
  ASSUME NothingExpires, IInv, Record
  PROVE  LET at == Unix(now)
             budget == Delta(domain_state)
         IN  /\ at \in Times /\ cursor.at < at /\ before \in Boots
             /\ cursor' = Sample(at)
             /\ buckets' = IF cursor = NoCursor THEN buckets
                           ELSE Added(buckets, cursor, at, Delta(cursor))
             /\ sampled' = [sampled EXCEPT ![before] = reply.total]
             /\ baseline' = IF cursor = NoCursor THEN Sample(at) ELSE baseline
             /\ fellBack' = (fellBack \/ ~reply.list.listed)
             /\ IF reply.list.listed /\ domain_state.at < at
                THEN /\ domain_state' = Sample(at)
                     /\ domain_cursor' = Snapshot
                     /\ domain_buckets' =
                          IF domain_state.at = -1 THEN domain_buckets
                          ELSE DomainAdded(at, budget)
                     /\ domain_sampling' =
                          IF domain_state.at = -1 THEN domain_sampling
                          ELSE Added(domain_sampling, domain_state, at,
                                     Clipped(Used(at), budget))
                     /\ crossed' =
                          IF domain_state.at = -1 THEN crossed
                          ELSE crossed + Cardinality(Overlapped(Span(domain_state, at))) - 1
                ELSE UNCHANGED <<domain_state, domain_cursor, domain_buckets,
                                 domain_sampling, crossed>>
<1> DEFINE at == Unix(now)
           budget == Delta(domain_state)
<1>1. /\ TypeInv /\ now \in Times /\ at \in Times /\ cursor.at < at /\ before \in Boots
      /\ cursor \in SampleType /\ domain_state \in SampleType
      /\ domain_state.at \in Times \cup {-1}
      /\ buckets \in [Starts -> RowType] /\ domain_sampling \in [Starts -> RowType]
      /\ domain_buckets \in [Starts -> [Hosts -> Nat]]
  BY SamplerFacts
     DEF IInv, TypeInv, TypeOK, RowType, SampleType, Record, SamplerInv, TurnInv
<1>2. cursor # NoCursor => cursor.at \in Times /\ Delta(cursor) \in Nat
  BY <1>1, DeltaType DEF TypeInv, FirstInv, SampleType
<1>3. budget \in Nat /\ Clipped(Used(at), budget) \in Nat
  <2>1. budget \in Nat
    BY <1>1, DeltaType DEF TypeInv
  <2>2. SumOf(Used(at)) \in Nat
    <3>1. Used(at) \in [Hosts -> Nat]
      BY <1>1, UsedFacts
    <3> QED BY <3>1, HostFacts, SumNonnegative
  <2> HIDE DEF budget, at
  <2> QED BY <2>1, <2>2 DEF Clipped
<1>4. cursor # NoCursor => Added(buckets, cursor, at, Delta(cursor)) \in [Starts -> RowType]
  <2> HIDE DEF at
  <2> QED BY <1>1, <1>2, AddedType
<1>5. domain_state.at # -1 /\ domain_state.at < at
        => /\ Added(domain_sampling, domain_state, at, Clipped(Used(at), budget))
                \in [Starts -> RowType]
           /\ DomainAdded(at, budget) \in [Starts -> [Hosts -> Nat]]
  <2> HIDE DEF at, budget
  <2> QED BY <1>1, <1>3, AddedType, DomainAddedFacts
<1>6. \A R, empty : \A table \in [Starts -> R] : Pruned(table, empty, at) = table
  BY <1>1, NothingIsPruned
<1>7. \A f, state : state.at \in Times \cup {-1} => PrunedCursor(f, state, at) = f
  BY <1>1, NothingIsPruned
<1>8. buckets' = IF cursor = NoCursor THEN buckets
                 ELSE Added(buckets, cursor, at, Delta(cursor))
  <2>1. buckets' = Pruned(IF cursor = NoCursor THEN buckets
                          ELSE Added(buckets, cursor, at, Delta(cursor)), EmptyRow, at)
    BY DEF Record
  <2> HIDE DEF at
  <2> QED BY <1>1, <1>4, <1>6, <2>1
<1>9. RecordDomains(at)
  BY DEF Record
<1>10. CASE ~ (reply.list.listed /\ domain_state.at < at)
  <2>1. /\ domain_cursor' = PrunedCursor(domain_cursor, domain_state, at)
        /\ domain_buckets' = Pruned(domain_buckets, NoUsage, at)
        /\ domain_sampling' = Pruned(domain_sampling, EmptyRow, at)
        /\ UNCHANGED <<domain_state, crossed>>
    BY <1>9, <1>10 DEF RecordDomains
  <2>2. UNCHANGED <<domain_state, domain_cursor, domain_buckets, domain_sampling, crossed>>
    <3> HIDE DEF at
    <3> QED BY <1>1, <1>6, <1>7, <2>1
  <2>3. /\ cursor' = Sample(at) /\ sampled' = [sampled EXCEPT ![before] = reply.total]
        /\ baseline' = IF cursor = NoCursor THEN Sample(at) ELSE baseline
        /\ fellBack' = (fellBack \/ ~reply.list.listed)
    BY DEF Record
  <2> QED BY <1>1, <1>8, <1>10, <2>2, <2>3
<1>11. CASE reply.list.listed /\ domain_state.at < at
  <2>1. /\ domain_state' = Sample(at)
        /\ domain_cursor' = PrunedCursor(Snapshot, Sample(at), at)
        /\ domain_buckets' = Pruned(IF domain_state.at = -1 THEN domain_buckets
                                    ELSE DomainAdded(at, budget), NoUsage, at)
        /\ domain_sampling' =
             Pruned(IF domain_state.at = -1 THEN domain_sampling
                    ELSE Added(domain_sampling, domain_state, at,
                               Clipped(Used(at), budget)), EmptyRow, at)
        /\ crossed' = IF domain_state.at = -1 THEN crossed
                      ELSE crossed + Cardinality(Overlapped(Span(domain_state, at))) - 1
    BY <1>9, <1>11 DEF RecordDomains
  <2>2. domain_cursor' = Snapshot
    <3>1. Sample(at).at \in Times \cup {-1}
      BY <1>1 DEF Sample
    <3> HIDE DEF at
    <3> QED BY <1>7, <2>1, <3>1
  <2>3. domain_buckets' = IF domain_state.at = -1 THEN domain_buckets
                          ELSE DomainAdded(at, budget)
    <3> HIDE DEF at, budget
    <3> QED BY <1>1, <1>5, <1>6, <1>11, <2>1
  <2>4. domain_sampling' = IF domain_state.at = -1 THEN domain_sampling
                           ELSE Added(domain_sampling, domain_state, at,
                                      Clipped(Used(at), budget))
    <3> HIDE DEF at, budget
    <3> QED BY <1>1, <1>5, <1>6, <1>11, <2>1
  <2>5. /\ cursor' = Sample(at) /\ sampled' = [sampled EXCEPT ![before] = reply.total]
        /\ baseline' = IF cursor = NoCursor THEN Sample(at) ELSE baseline
        /\ fellBack' = (fellBack \/ ~reply.list.listed)
    BY DEF Record
  <2> HIDE DEF at, budget
  <2> QED BY <1>1, <1>8, <1>11, <2>1, <2>2, <2>3, <2>4, <2>5 DEF at, budget
<1> QED BY <1>10, <1>11

-----------------------------------------------------------------------------
(***************************************************************************)
(* A total is never read of an engine start after a smaller one was        *)
(* recorded of it.                                                         *)
(***************************************************************************)
ReadAbove(state, b) == b = state.epoch => state.total <= reply.total

FloorInv(state) ==
  /\ collector = "listing" => ReadAbove(state, reply.boot)
  /\ collector = "after" =>
       \E b \in Boots : /\ before <= b /\ b <= marker /\ reply.total <= totals[b]
                        /\ ReadAbove(state, b)

FloorsInv == FloorInv(cursor) /\ FloorInv(domain_state)

LEMMA FloorStep ==
  ASSUME SamplerInv, FloorsInv, [Next]_vars PROVE FloorsInv'
<1> USE DEF FloorsInv, FloorInv, ReadAbove
<1>1. EngineGrows
  BY EngineStepGrows
<1>2. CASE Record \/ SampleFails \/ ClockNotAdvanced \/ CollectorKill
  BY <1>2 DEF Record, EndTurn, SampleFails, ClockNotAdvanced, CollectorKill
<1>3. CASE ReadBefore \/ FetchFails
  BY <1>3 DEF ReadBefore, FetchFails
<1>4. CASE FetchBegin
  <2>1. /\ reply'.boot = marker /\ reply'.total = totals[marker] /\ marker \in Boots
        /\ collector' = "listing" /\ UNCHANGED <<cursor, domain_state>>
    BY <1>4 DEF FetchBegin, ledgerVars, SamplerInv, EngineInv
  <2>2. \A state : StateInv(state) /\ marker = state.epoch => state.total <= totals[marker]
    BY <2>1, SamplerAssumption DEF StateInv, Boots, SamplerAssumption
  <2> QED BY <2>1, <2>2 DEF SamplerInv
<1>5. CASE FetchEnd
  <2>1. /\ reply'.total = reply.total /\ collector' = "after" /\ collector = "listing"
        /\ UNCHANGED <<before, marker, totals, cursor, domain_state>>
    BY <1>5 DEF FetchEnd, ledgerVars, engineVars
  <2> QED BY <2>1 DEF SamplerInv, TurnInv
<1>6. CASE FetchTotal
  <2>1. /\ reply'.total = totals[marker] /\ marker \in Boots /\ collector' = "after"
        /\ UNCHANGED <<before, marker, totals, cursor, domain_state>>
    BY <1>6 DEF FetchTotal, NoReply, ledgerVars, engineVars, SamplerInv, EngineInv
  <2>2. \A state : StateInv(state) /\ marker = state.epoch => state.total <= totals[marker]
    BY <2>1, SamplerAssumption DEF StateInv, Boots, SamplerAssumption
  <2>3. before <= marker /\ totals[marker] <= totals[marker]
    BY <2>1, SamplerAssumption
       DEF SamplerInv, TurnInv, EngineInv, Boots, SamplerAssumption
  <2>4. \A state : StateInv(state) =>
          /\ before <= marker /\ marker <= marker /\ totals[marker] <= totals[marker]
          /\ marker = state.epoch => state.total <= totals[marker]
    BY <2>2, <2>3, SamplerAssumption
       DEF SamplerInv, EngineInv, SamplerAssumption
  <2> QED BY <2>1, <2>4 DEF SamplerInv
<1>7. CASE UNCHANGED <<turnVars, cursor, domain_state>>
  <2>1. ASSUME NEW b \in Boots, b <= marker, reply.total <= totals[b]
        PROVE  b <= marker' /\ reply.total <= totals'[b]
    BY <1>1, <2>1, SamplerAssumption
       DEF SamplerInv, EngineInv, TurnInv, EngineGrows, Boots, SamplerAssumption
  <2> QED BY <1>7, <2>1 DEF turnVars
<1>8. CASE EngineNext \/ Tick \/ UNCHANGED vars
  BY <1>7, <1>8
     DEF EngineNext, Start, Die, Open, Sniff, Relay, Close, Tick, vars, ledgerVars
<1> QED BY <1>2, <1>3, <1>4, <1>5, <1>6, <1>8 DEF Next, CollectorNext

\* When a sample is recorded, its counter restarted exactly if the epoch changed.
LEMMA RecordedDelta ==
  ASSUME SamplerInv, Record, NEW state, StateInv(state), FloorInv(state)
  PROVE  /\ before = marker /\ before \in Boots /\ state.epoch <= before
         /\ IsReset(state) <=> before # state.epoch
         /\ Delta(state) = IF before = state.epoch THEN reply.total - state.total
                           ELSE reply.total
<1>1. /\ before = marker /\ before \in Boots /\ collector = "after"
      /\ reply.total \in Nat /\ MaxBoots \in Nat
  BY SamplerAssumption
     DEF Record, SameSource, SamplerInv, TurnInv, SamplerAssumption
<1>2. state.epoch <= before /\ state.epoch \in 0 .. before
  BY <1>1 DEF StateInv, Boots
<1>3. ReadAbove(state, before)
  BY <1>1, SamplerAssumption DEF FloorInv, Boots, SamplerAssumption
<1>4. before = state.epoch => state.total \in Nat
  BY <1>1 DEF StateInv, Boots
<1>5. IsReset(state) <=> before # state.epoch
  BY <1>1, <1>3, <1>4 DEF IsReset, ReadAbove
<1> QED BY <1>1, <1>2, <1>5 DEF Delta

-----------------------------------------------------------------------------
(***************************************************************************)
(* The ledger of bytes.                                                    *)
(***************************************************************************)
LEMMA ColumnType ==
  ASSUME NEW table \in [Starts -> RowType], NEW field, \A row \in RowType : row[field] \in Nat
  PROVE  /\ [s \in Starts |-> table[s][field]] \in [Starts -> Nat]
         /\ [s \in Starts |-> table[s][field]] \in [Starts -> Int]
         /\ Column(table, field) \in Nat
<1>1. [s \in Starts |-> table[s][field]] \in [Starts -> Nat]
  OBVIOUS
<1>2. [s \in Starts |-> table[s][field]] \in [Starts -> Int]
  BY <1>1
<1>3. IsFiniteSet(Starts)
  BY BucketFacts
<1> QED BY <1>1, <1>2, <1>3, SumNonnegative DEF Column

LEMMA AddedColumn ==
  ASSUME NEW table \in [Starts -> RowType], NEW prev, prev.at \in Times,
         NEW at \in Times, prev.at < at, Cutoff(at) = 0, NEW x \in Nat
  PROVE  Column(Added(table, prev, at, x), "bytes") = Column(table, "bytes") + x
<1> DEFINE span == Span(prev, at)
           new == Added(table, prev, at, x)
           part == [s \in Starts |-> IF s \in Overlapped(span)
                                     THEN Share(x, span, s) ELSE 0]
           old == [s \in Starts |-> table[s]["bytes"]]
           sum == [s \in Starts |-> new[s]["bytes"]]
<1>1. /\ span = [old |-> prev.at, at |-> at, from |-> prev.at]
  <2> HIDE DEF Cutoff
  <2> QED BY SpanFacts
<1>2. /\ part \in [Starts -> Nat] /\ SumOf(part) = x
      /\ \A s \in Overlapped(span) : Share(x, span, s) \in Nat
  <2>1. prev.at <= at /\ prev.at <= prev.at
    BY SamplerFacts
  <2> HIDE DEF span
  <2> QED BY <1>1, <2>1, ShareFacts
<1>3. new \in [Starts -> RowType]
  BY AddedType
<1>4. /\ old \in [Starts -> Int] /\ sum \in [Starts -> Int]
      /\ Column(table, "bytes") = SumOf(old) /\ Column(new, "bytes") = SumOf(sum)
  <2>1. \A row \in RowType : row["bytes"] \in Nat
    BY DEF RowType
  <2> HIDE DEF new
  <2>2. old \in [Starts -> Int] /\ sum \in [Starts -> Int]
    BY <1>3, <2>1, ColumnType
  <2>3. \A t : Column(t, "bytes") = SumOf([s \in Starts |-> t[s]["bytes"]])
    BY DEF Column
  <2> QED BY <2>2, <2>3
<1>5. ASSUME NEW s \in Starts PROVE sum[s] = old[s] + part[s]
  <2>1. table[s]["bytes"] \in Nat
    BY DEF RowType
  <2>2. s \in Overlapped(span) => new[s].bytes = table[s].bytes + Share(x, span, s)
    BY DEF Added
  <2>3. s \notin Overlapped(span) => new[s] = table[s]
    BY DEF Added
  <2> HIDE DEF new, span
  <2> QED BY <2>1, <2>2, <2>3
<1>6. IsFiniteSet(Starts) /\ part \in [Starts -> Int]
  BY <1>2, BucketFacts
<1> HIDE DEF old, sum, part, new
<1>7. SumOf(sum) = SumOf(old) + SumOf(part)
  BY <1>4, <1>5, <1>6, SumAdd
<1> QED BY <1>2, <1>4, <1>7 DEF new

\* sampled holds what the cursor says of the engine start it is of, and nothing
\* of the starts after it; before the first sample the ledger is empty.
BilledInv ==
  /\ cursor = NoCursor => /\ sampled = [b \in Boots |-> 0]
                          /\ buckets = [s \in Starts |-> EmptyRow]
  /\ \A b \in Boots : b > cursor.epoch => sampled[b] = 0
  /\ cursor # NoCursor => /\ cursor.epoch \in Boots
                          /\ sampled[cursor.epoch] = cursor.total
                          /\ BilledIsSampled

LEMMA BilledStep ==
  ASSUME NothingExpires, IInv, FloorsInv, BilledInv, Record
  PROVE  BilledInv'
<1> DEFINE at == Unix(now)
<1>1. /\ at \in Times /\ cursor.at < at /\ before \in Boots
      /\ cursor' = Sample(at)
      /\ buckets' = IF cursor = NoCursor THEN buckets
                    ELSE Added(buckets, cursor, at, Delta(cursor))
      /\ sampled' = [sampled EXCEPT ![before] = reply.total]
      /\ baseline' = IF cursor = NoCursor THEN Sample(at) ELSE baseline
  BY RecordWrites
<1>2. /\ cursor.epoch <= before
      /\ Delta(cursor) = IF before = cursor.epoch THEN reply.total - cursor.total
                         ELSE reply.total
  BY RecordedDelta DEF IInv, SamplerInv, FloorsInv
<1>3. /\ TypeInv /\ cursor \in SampleType /\ baseline \in SampleType
      /\ buckets \in [Starts -> RowType]
      /\ sampled \in [Boots -> 0 .. MaxBytes] /\ reply.total \in 0 .. MaxBytes
      /\ MaxBytes \in Nat /\ MaxBoots \in Nat /\ IsFiniteSet(Boots)
      /\ cursor.epoch \in 0 .. MaxBoots
  BY SamplerFacts DEF IInv, TypeInv, TypeOK, SampleType, RowType
<1>4. /\ sampled' \in [Boots -> Int] /\ sampled \in [Boots -> Int]
      /\ sampled'[before] = reply.total
      /\ \A b \in Boots \ {before} : sampled'[b] = sampled[b]
  BY <1>1, <1>3
<1>5. SumOf(sampled') = SumOf(sampled) + reply.total - sampled[before]
  <2>1. SumOf(sampled') = SumOf(sampled) + sampled'[before] - sampled[before]
    <3>1. before \in Boots /\ IsFiniteSet(Boots)
      BY <1>1, <1>3
    <3>2. ASSUME NEW f \in [Boots -> Int], NEW g \in [Boots -> Int],
                 \A b \in Boots \ {before} : g[b] = f[b]
          PROVE  SumOf(g) = SumOf(f) + g[before] - f[before]
      BY <3>1, <3>2, SumUpdate
    <3> QED BY <1>4, <3>2
  <2> QED BY <1>4, <2>1
<1>6. SumOf(sampled) \in Int
  BY <1>3, <1>4, SumType
<1>7. /\ cursor'.epoch = before /\ cursor'.total = reply.total
      /\ Sample(at).total = reply.total /\ cursor' # NoCursor
  BY <1>1 DEF Sample, NoCursor, Boots
<1>8. \A b \in Boots : b > cursor'.epoch => sampled'[b] = 0
  BY <1>1, <1>2, <1>3, <1>4, <1>7 DEF BilledInv, Boots
<1>9. BilledIsSampled'
  <2>1. CASE cursor = NoCursor
    <3>1. sampled[before] = 0 /\ SumOf(sampled) = 0
      <4>1. \A b \in Boots : sampled[b] = 0
        BY <2>1 DEF BilledInv
      <4> QED BY <1>1, <1>3, <1>4, <4>1, SumZero
    <3>2. Column(buckets, "bytes") = 0
      <4> DEFINE f == [s \in Starts |-> buckets[s]["bytes"]]
      <4>1. f \in [Starts -> Int] /\ \A s \in Starts : f[s] = 0
        BY <2>1 DEF BilledInv, EmptyRow
      <4>2. IsFiniteSet(Starts)
        BY BucketFacts
      <4>3. Column(buckets, "bytes") = SumOf(f)
        BY DEF Column
      <4> HIDE DEF f
      <4> QED BY <4>1, <4>2, <4>3, SumZero
    <3>3. buckets' = buckets /\ baseline'.total = reply.total
      BY <1>1, <1>7, <2>1
    <3>4. Column(buckets, "bytes")' = Column(buckets, "bytes")
      BY <3>3 DEF Column
    <3> QED BY <1>3, <1>5, <3>1, <3>2, <3>3, <3>4 DEF BilledIsSampled
  <2>2. CASE cursor # NoCursor
    <3>1. cursor.at \in Times /\ Delta(cursor) \in Nat /\ Cutoff(at) = 0
      BY <1>1, <1>3, <2>2, DeltaType DEF TypeInv, FirstInv, SampleType, NothingExpires
    <3>2. buckets' = Added(buckets, cursor, at, Delta(cursor)) /\ baseline' = baseline
      BY <1>1, <2>2
    <3>3. Column(Added(buckets, cursor, at, Delta(cursor)), "bytes")
            = Column(buckets, "bytes") + Delta(cursor)
      <4> HIDE DEF at
      <4> QED BY <1>1, <1>3, <3>1, AddedColumn
    <3>4. Column(buckets, "bytes")' = Column(buckets, "bytes") + Delta(cursor)
      BY <3>2, <3>3 DEF Column
    <3>5. Column(buckets, "bytes") = SumOf(sampled) - baseline.total
      BY <2>2 DEF BilledInv, BilledIsSampled
    <3>6. Delta(cursor) = reply.total - sampled[before]
      <4>1. before = cursor.epoch \/ (before # cursor.epoch /\ sampled[before] = 0)
        BY <1>1, <1>2, <1>3 DEF BilledInv, Boots
      <4>2. before = cursor.epoch => sampled[before] = cursor.total
        BY <2>2 DEF BilledInv
      <4> QED BY <1>2, <1>3, <4>1, <4>2
    <3>7. baseline.total \in Int /\ sampled[before] \in Int /\ reply.total \in Int
      BY <1>1, <1>3, <1>4 DEF SampleType
    <3> QED BY <1>5, <1>6, <3>2, <3>4, <3>5, <3>6, <3>7 DEF BilledIsSampled
  <2> QED BY <2>1, <2>2
<1> QED BY <1>1, <1>4, <1>7, <1>8, <1>9 DEF BilledInv

-----------------------------------------------------------------------------
(***************************************************************************)
(* The ledger of seconds.                                                  *)
(***************************************************************************)
Of(s, first, last) == {t \in Times : first <= t /\ t < last /\ BucketStart(t) = s}

LEMMA OfFacts ==
  ASSUME NEW s \in Starts, NEW first \in Times, NEW mid \in Times, NEW last \in Times,
         first <= mid, mid <= last
  PROVE  /\ Cardinality(Of(s, first, last))
              = Cardinality(Of(s, first, mid)) + Cardinality(Of(s, mid, last))
         /\ Cardinality(Of(s, first, mid)) \in Nat
         /\ Cardinality(Of(s, mid, last)) \in Nat
<1>1. IsFiniteSet(Times) /\ \A t \in Times : t \in Nat
  BY FS_Interval, SamplerFacts, TimeAssumption DEF Times
<1>2. IsFiniteSet(Of(s, first, mid)) /\ IsFiniteSet(Of(s, mid, last))
  <2>1. Of(s, first, mid) \subseteq Times /\ Of(s, mid, last) \subseteq Times
    BY DEF Of
  <2> QED BY <1>1, <2>1, FS_Subset
<1>3. /\ Of(s, first, last) = Of(s, first, mid) \cup Of(s, mid, last)
      /\ Of(s, first, mid) \cap Of(s, mid, last) = {}
  <2>1. /\ first \in Nat /\ mid \in Nat /\ last \in Nat
        /\ \A t \in Times : t \in Nat
    BY <1>1
  <2>2. ASSUME NEW t
        PROVE  /\ t \in Of(s, first, last) <=> \/ t \in Of(s, first, mid)
                                               \/ t \in Of(s, mid, last)
               /\ ~ (t \in Of(s, first, mid) /\ t \in Of(s, mid, last))
    <3> DEFINE in == t \in Times /\ BucketStart(t) = s
    <3>1. \A a, b : t \in Of(s, a, b) <=> in /\ a <= t /\ t < b
      BY DEF Of
    <3>2. in => t \in Nat
      BY <2>1
    <3> HIDE DEF in
    <3> QED BY <2>1, <3>1, <3>2
  <2> QED BY <2>2
<1>5. Cardinality({}) = 0
  BY FS_EmptySet
<1>6. /\ Cardinality(Of(s, first, mid)) \in Nat /\ Cardinality(Of(s, mid, last)) \in Nat
  BY <1>2, FS_CardinalityType
<1> DEFINE m == Cardinality(Of(s, first, mid))
           n == Cardinality(Of(s, mid, last))
<1>7. Cardinality(Of(s, first, mid) \cup Of(s, mid, last))
        = m + n - Cardinality(Of(s, first, mid) \cap Of(s, mid, last))
  BY <1>2, FS_Union
<1>8. Cardinality(Of(s, first, last)) = m + n - 0
  BY <1>3, <1>5, <1>7
<1>9. m \in Nat /\ n \in Nat
  BY <1>6
<1> HIDE DEF m, n
<1>10. Cardinality(Of(s, first, last)) = m + n
  BY <1>8, <1>9
<1> QED BY <1>9, <1>10 DEF m, n

LEMMA OfIsInterval ==
  ASSUME NEW s \in Starts, NEW o \in Times, NEW e \in Times, o < e,
         NEW span, span = [old |-> o, at |-> e, from |-> o]
  PROVE  Cardinality(Of(s, o, e)) = IF s \in Overlapped(span) THEN Seconds(span, s) ELSE 0
<1>1. /\ \A t \in Times : t \in Nat
      /\ Bucket \in Nat \ {0} /\ s \in Times /\ o <= e /\ o <= o
      /\ \A t \in Times : BucketStart(t) = s <=> s <= t /\ t < s + Bucket
  BY BucketFacts, SamplerFacts, TimeAssumption
<1>2. s \in Overlapped(span) <=> s + Bucket > o /\ s < e
  BY DEF Overlapped
<1>3. \A t \in Times : t \in Of(s, o, e) <=> o <= t /\ t < e /\ s <= t /\ t < s + Bucket
  BY <1>1 DEF Of
<1>4. Of(s, o, e) \subseteq Times
  BY DEF Of
<1> HIDE DEF Of
<1>5. CASE s \notin Overlapped(span)
  <2>1. Of(s, o, e) = {}
    BY <1>1, <1>2, <1>3, <1>4, <1>5
  <2> QED BY <1>5, <2>1, FS_EmptySet
<1>6. CASE s \in Overlapped(span)
  <2> DEFINE l == Left(span, s)
             r == Right(span, s)
  <2>1. /\ l \in Times /\ r \in Times /\ l <= r /\ Seconds(span, s) = r - l
    BY <1>1, <1>6, OverlapFacts DEF Seconds
  <2>2. /\ l = IF s > o THEN s ELSE o
        /\ r = IF s + Bucket < e THEN s + Bucket ELSE e
    BY DEF Left, Right
  <2> HIDE DEF l, r
  <2>3. Of(s, o, e) = l .. (r - 1)
    <3>1. l \in Nat /\ r \in Nat /\ r - 1 \in Int
      BY <1>1, <2>1
    <3>2. ASSUME NEW t \in Of(s, o, e) PROVE t \in l .. (r - 1)
      <4>1. /\ t \in Times /\ t \in Nat /\ s \in Nat /\ e \in Nat /\ o \in Nat
            /\ o <= t /\ t < e /\ s <= t /\ t < s + Bucket
        BY <1>1, <1>3, <1>4, <3>2
      <4> QED BY <1>1, <2>2, <3>1, <4>1
    <3>3. ASSUME NEW t \in l .. (r - 1) PROVE t \in Of(s, o, e)
      <4>1. t \in Times
        BY <2>1, <3>1, <3>3, TimeAssumption DEF Times
      <4> QED BY <1>1, <1>3, <2>2, <3>1, <3>3, <4>1
    <3> QED BY <3>2, <3>3
  <2>4. l \in Nat /\ r \in Nat /\ r - 1 \in Int
    BY <1>1, <2>1
  <2>5. Cardinality(l .. (r - 1)) = IF l > r - 1 THEN 0 ELSE r - 1 - l + 1
    BY <2>4, FS_Interval
  <2>6. Cardinality(l .. (r - 1)) = r - l
    <3>1. (IF l > r - 1 THEN 0 ELSE r - 1 - l + 1) = r - l
      BY <2>1, <2>4
    <3> QED BY <2>5, <3>1
  <2> QED BY <1>6, <2>1, <2>3, <2>6
<1> QED BY <1>5, <1>6

LEMMA AddedSeconds ==
  ASSUME NEW table \in [Starts -> RowType], NEW prev, prev.at \in Times,
         NEW at \in Times, prev.at < at, Cutoff(at) = 0, NEW x, NEW s \in Starts
  PROVE  LET new == Added(table, prev, at, x)
         IN  new[s].observed + new[s].estimated
               = table[s].observed + table[s].estimated + Cardinality(Of(s, prev.at, at))
<1> DEFINE span == Span(prev, at)
           new == Added(table, prev, at, x)
<1>1. span = [old |-> prev.at, at |-> at, from |-> prev.at]
  <2> HIDE DEF Cutoff
  <2> QED BY SpanFacts
<1>2. Cardinality(Of(s, prev.at, at))
        = IF s \in Overlapped(span) THEN Seconds(span, s) ELSE 0
  <2> HIDE DEF span
  <2> QED BY <1>1, OfIsInterval
<1>3. table[s].observed \in Nat /\ table[s].estimated \in Nat
  BY DEF RowType
<1>4. CASE s \notin Overlapped(span)
  <2>1. new[s] = table[s]
    BY <1>4 DEF Added
  <2> DEFINE n == Cardinality(Of(s, prev.at, at))
  <2>2. n = 0
    BY <1>2, <1>4
  <2> HIDE DEF new, span, n
  <2>3. new[s].observed + new[s].estimated = table[s].observed + table[s].estimated + n
    BY <1>3, <2>1, <2>2
  <2> QED BY <2>3 DEF n, new
<1>5. CASE s \in Overlapped(span)
  <2>1. /\ new[s].observed = table[s].observed + (IF Estimated(prev, at) THEN 0
                                                  ELSE Seconds(span, s))
        /\ new[s].estimated = table[s].estimated + (IF Estimated(prev, at)
                                                    THEN Seconds(span, s) ELSE 0)
    BY <1>5 DEF Added, Seconds
  <2>2. Seconds(span, s) \in Nat
    <3>1. prev.at <= at /\ prev.at <= prev.at
      BY SamplerFacts
    <3> HIDE DEF span
    <3> QED BY <1>1, <1>5, <3>1, OverlapFacts
  <2> DEFINE n == Cardinality(Of(s, prev.at, at))
  <2>3. n = Seconds(span, s)
    BY <1>2, <1>5
  <2> HIDE DEF new, span, n
  <2>4. new[s].observed + new[s].estimated = table[s].observed + table[s].estimated + n
    BY <1>3, <2>1, <2>2, <2>3
  <2> QED BY <2>4 DEF n, new
<1> QED BY <1>4, <1>5

LEMMA AddedCoversOnce ==
  ASSUME NEW table \in [Starts -> RowType], NEW prev, prev.at \in Times,
         NEW at \in Times, prev.at < at, Cutoff(at) = 0, NEW x,
         NEW first \in Times, first <= prev.at, CoveredOnce(table, first, prev.at)
  PROVE  CoveredOnce(Added(table, prev, at, x), first, at)
<1> DEFINE new == Added(table, prev, at, x)
<1>1. ASSUME NEW s \in Starts
      PROVE  new[s].observed + new[s].estimated = Cardinality(Of(s, first, at))
  <2>1. new[s].observed + new[s].estimated
          = table[s].observed + table[s].estimated + Cardinality(Of(s, prev.at, at))
    BY AddedSeconds
  <2>2. table[s].observed + table[s].estimated = Cardinality(Of(s, first, prev.at))
    BY DEF CoveredOnce, Of
  <2>3. prev.at <= at
    BY SamplerFacts
  <2> HIDE DEF new
  <2> QED BY <2>1, <2>2, <2>3, OfFacts
<1> HIDE DEF new
<1> QED BY <1>1 DEF CoveredOnce, Of, new

\* While every sample had its connections, the snapshots are the samples.
SecondsInv ==
  /\ cursor = NoCursor => /\ baseline = NoCursor
                          /\ domain_sampling = [s \in Starts |-> EmptyRow]
  /\ cursor # NoCursor => baseline.at \in Times /\ baseline.at <= cursor.at
  /\ ~fellBack => domain_state = cursor
  /\ SecondsOnce

LEMMA EmptyCoversOnce ==
  ASSUME NEW first \in Times \cup {-1}
  PROVE  CoveredOnce([s \in Starts |-> EmptyRow], first, first)
<1>1. ASSUME NEW s \in Starts PROVE Cardinality(Of(s, first, first)) = 0
  <2>1. Of(s, first, first) = {}
    <3>1. first \in Int
      BY SamplerFacts
    <3>2. \A t \in Times : t \in Nat
      BY SamplerFacts
    <3>3. \A t \in Times : ~ (first <= t /\ t < first)
      BY <3>1, <3>2
    <3> QED BY <3>3 DEF Of
  <2> QED BY <2>1, FS_EmptySet
<1>2. EmptyRow.observed + EmptyRow.estimated = 0
  BY DEF EmptyRow
<1> QED BY <1>1, <1>2 DEF CoveredOnce, Of

LEMMA SecondsStep ==
  ASSUME NothingExpires, IInv, BilledInv, SecondsInv, Record
  PROVE  SecondsInv'
<1> DEFINE at == Unix(now)
           x == Clipped(Used(at), Delta(domain_state))
<1>1. /\ at \in Times /\ cursor.at < at
      /\ cursor' = Sample(at)
      /\ buckets' = IF cursor = NoCursor THEN buckets
                    ELSE Added(buckets, cursor, at, Delta(cursor))
      /\ baseline' = IF cursor = NoCursor THEN Sample(at) ELSE baseline
      /\ fellBack' = (fellBack \/ ~reply.list.listed)
      /\ IF reply.list.listed /\ domain_state.at < at
         THEN /\ domain_state' = Sample(at)
              /\ domain_sampling' = IF domain_state.at = -1 THEN domain_sampling
                                    ELSE Added(domain_sampling, domain_state, at, x)
         ELSE UNCHANGED <<domain_state, domain_sampling>>
  BY RecordWrites
<1>2. /\ cursor.at \in Times \cup {-1}
      /\ cursor.at = -1 => cursor = NoCursor
      /\ NoCursor.at = -1
      /\ buckets \in [Starts -> RowType] /\ domain_sampling \in [Starts -> RowType]
      /\ Cutoff(at) = 0 /\ Sample(at).at = at /\ Sample(at) # NoCursor
      /\ \A t \in Times : t \in Nat
  <2> HIDE DEF at
  <2> QED BY <1>1, SamplerFacts
     DEF IInv, TypeInv, TypeOK, FirstInv, RowType, NoCursor, Sample, NothingExpires
<1> HIDE DEF at, x, Cutoff
<1>3. baseline'.at \in Times /\ baseline'.at <= at
  BY <1>1, <1>2 DEF SecondsInv
<1>4. CoveredOnce(buckets', baseline'.at, at)
  <2>1. CASE cursor = NoCursor
    <3>1. buckets' = [s \in Starts |-> EmptyRow] /\ baseline'.at = at
      BY <1>1, <1>2, <2>1 DEF BilledInv
    <3> QED BY <1>1, <3>1, EmptyCoversOnce
  <2>2. CASE cursor # NoCursor
    <3>1. /\ buckets' = Added(buckets, cursor, at, Delta(cursor))
          /\ baseline' = baseline /\ cursor.at \in Times
          /\ baseline.at \in Times /\ baseline.at <= cursor.at
          /\ CoveredOnce(buckets, baseline.at, cursor.at)
      BY <1>1, <1>2, <2>2 DEF SecondsInv, SecondsOnce
    <3> QED BY <1>1, <1>2, <3>1, AddedCoversOnce
  <2> QED BY <2>1, <2>2
<1>5. ASSUME ~fellBack'
      PROVE  domain_state' = cursor' /\ CoveredOnce(domain_sampling', baseline'.at, at)
  <2>1. /\ ~fellBack /\ reply.list.listed /\ domain_state = cursor
        /\ domain_state' = Sample(at)
        /\ domain_sampling' = IF cursor.at = -1 THEN domain_sampling
                              ELSE Added(domain_sampling, cursor, at, x)
    BY <1>1, <1>5 DEF SecondsInv
  <2>2. CASE cursor = NoCursor
    <3>1. domain_sampling' = [s \in Starts |-> EmptyRow] /\ baseline'.at = at
      BY <1>1, <1>2, <2>1, <2>2 DEF SecondsInv
    <3> QED BY <1>1, <2>1, <3>1, EmptyCoversOnce
  <2>3. CASE cursor # NoCursor
    <3>1. /\ domain_sampling' = Added(domain_sampling, cursor, at, x)
          /\ baseline' = baseline /\ cursor.at \in Times
          /\ baseline.at \in Times /\ baseline.at <= cursor.at
          /\ CoveredOnce(domain_sampling, baseline.at, cursor.at)
      BY <1>1, <1>2, <2>1, <2>3 DEF SecondsInv, SecondsOnce
    <3> QED BY <1>1, <1>2, <2>1, <3>1, AddedCoversOnce
  <2> QED BY <2>2, <2>3
<1>6. cursor'.at = at /\ cursor' # NoCursor
  BY <1>1, <1>2
<1> QED BY <1>3, <1>4, <1>5, <1>6 DEF SecondsInv, SecondsOnce, CoveredOnce

-----------------------------------------------------------------------------
LedgerInv == IInv /\ FloorsInv /\ BilledInv /\ SecondsInv

LEMMA LedgerInit == Init => LedgerInv
<1> SUFFICES ASSUME Init PROVE LedgerInv
  OBVIOUS
<1>1. IInv
  BY InitTypes, InitSamplerInv DEF IInv
<1>2. /\ collector = "before" /\ cursor = NoCursor /\ domain_state = NoCursor
      /\ sampled = [b \in Boots |-> 0] /\ buckets = [s \in Starts |-> EmptyRow]
      /\ domain_sampling = [s \in Starts |-> EmptyRow] /\ baseline = NoCursor
  BY DEF Init
<1>3. FloorsInv /\ BilledInv
  BY <1>2 DEF FloorsInv, FloorInv, BilledInv
<1>4. SecondsInv
  <2>1. CoveredOnce([s \in Starts |-> EmptyRow], -1, -1)
    BY EmptyCoversOnce
  <2> QED BY <1>2, <2>1 DEF SecondsInv, SecondsOnce, NoCursor
<1> QED BY <1>1, <1>3, <1>4 DEF LedgerInv

LEMMA LedgerStep ==
  ASSUME NothingExpires, LedgerInv, [Next]_vars PROVE LedgerInv'
<1>1. IInv'
  BY NextTypes, NextSamplerInv DEF LedgerInv, IInv
<1>2. FloorsInv'
  BY FloorStep DEF LedgerInv, IInv
<1>3. BilledInv' /\ SecondsInv'
  <2>1. CASE Record
    BY <2>1, BilledStep, SecondsStep DEF LedgerInv
  <2>2. CASE UNCHANGED <<ledgerVars, historyVars>>
    BY <2>2 DEF LedgerInv, BilledInv, BilledIsSampled, Column, SecondsInv, SecondsOnce,
       CoveredOnce, ledgerVars, historyVars
  <2> QED BY <2>1, <2>2, OnlyRecordWrites DEF LedgerInv
<1> QED BY <1>1, <1>2, <1>3 DEF LedgerInv

LEMMA LedgerInvariance ==
  ASSUME NothingExpires PROVE Spec => []LedgerInv
<1>1. LedgerInv /\ [Next]_vars => LedgerInv'
  BY LedgerStep
<1> QED BY LedgerInit, <1>1, PTL DEF Spec

\* While the horizon expires nothing: whatever restarts, failed samples and kills
\* happen, and wherever the samples fall on the buckets, the gateway's buckets
\* hold every byte that was sampled, and none of them twice.
THEOREM EveryByteIsBilledOnce ==
  ASSUME NothingExpires PROVE Spec => []BilledIsSampled
<1>1. LedgerInv => BilledIsSampled
  BY DEF LedgerInv, BilledInv, BilledIsSampled
<1> QED BY <1>1, LedgerInvariance, PTL

\* While the horizon expires nothing: every second between the first sample and
\* the latest is covered exactly once and in its bucket, as observed or as
\* estimated; the same for the snapshots while each sample had one.
THEOREM EverySecondIsCoveredOnce ==
  ASSUME NothingExpires PROVE Spec => []SecondsOnce
<1>1. LedgerInv => SecondsOnce
  BY DEF LedgerInv, SecondsInv
<1> QED BY <1>1, LedgerInvariance, PTL

-----------------------------------------------------------------------------
(***************************************************************************)
(* The hosts within the gateway.                                           *)
(***************************************************************************)
TotalsOf(table) == [s \in Starts |-> SumOf(table[s])]

LEMMA TotalsType ==
  ASSUME NEW table \in [Starts -> [Hosts -> Nat]]
  PROVE  /\ TotalsOf(table) \in [Starts -> Nat] /\ TotalsOf(table) \in [Starts -> Int]
         /\ SumOf(TotalsOf(table)) \in Nat
<1>1. \A s \in Starts : SumOf(table[s]) \in Nat
  BY HostFacts, SumNonnegative
<1>2. TotalsOf(table) \in [Starts -> Nat]
  BY <1>1 DEF TotalsOf
<1>3. IsFiniteSet(Starts)
  BY BucketFacts
<1> QED BY <1>2, <1>3, SumNonnegative

\* What DomainAdded shares out among the hosts is the budget, and of each bucket
\* the same share as the gateway's table gets.
LEMMA DomainAddedTotals ==
  ASSUME TypeInv, NEW at \in Times, domain_state.at \in Times, domain_state.at < at,
         Cutoff(at) = 0, NEW budget \in Nat
  PROVE  LET span == Span(domain_state, at)
             new == DomainAdded(at, budget)
         IN  /\ \A s \in Starts :
                  SumOf(new[s]) = SumOf(domain_buckets[s])
                    + (IF s \in Overlapped(span) THEN Share(budget, span, s) ELSE 0)
             /\ SumOf(TotalsOf(new)) = SumOf(TotalsOf(domain_buckets)) + budget
<1> DEFINE span == Span(domain_state, at)
           new == DomainAdded(at, budget)
           share == [s \in Starts |-> IF s \in Overlapped(span)
                                      THEN Share(budget, span, s) ELSE 0]
<1>1. /\ domain_buckets \in [Starts -> [Hosts -> Nat]]
      /\ new \in [Starts -> [Hosts -> Nat]]
      /\ \A s \in Starts, h \in Hosts :
           new[s][h] = domain_buckets[s][h] + (IF s \in Overlapped(span)
                                               THEN DomainPart(at, budget, s)[h] ELSE 0)
  BY DomainAddedFacts DEF TypeInv, TypeOK
<1>2. /\ share \in [Starts -> Nat] /\ SumOf(share) = budget
  <2>1. /\ span = [old |-> domain_state.at, at |-> at, from |-> domain_state.at]
        /\ domain_state.at <= at /\ domain_state.at <= domain_state.at
    <3> HIDE DEF Cutoff
    <3> QED BY SpanFacts, SamplerFacts
  <2> HIDE DEF span
  <2> QED BY <2>1, ShareFacts
<1>3. ASSUME NEW s \in Starts
      PROVE  SumOf(new[s]) = SumOf(domain_buckets[s]) + share[s]
  <2>1. new[s] \in [Hosts -> Int] /\ domain_buckets[s] \in [Hosts -> Int]
    <3> HIDE DEF new
    <3> QED BY <1>1
  <2>2. CASE s \in Overlapped(span)
    <3> DEFINE part == DomainPart(at, budget, s)
    <3>1. part \in [Hosts -> Nat] /\ SumOf(part) = Share(budget, span, s)
      BY <2>2, DomainPartFacts
    <3>2. part \in [Hosts -> Int] /\ \A h \in Hosts : new[s][h] = domain_buckets[s][h] + part[h]
      BY <1>1, <2>2, <3>1
    <3> HIDE DEF part, new, span
    <3>3. SumOf(new[s]) = SumOf(domain_buckets[s]) + SumOf(part)
      BY <2>1, <3>2, HostFacts, SumAdd
    <3> QED BY <2>2, <3>1, <3>3
  <2>3. CASE s \notin Overlapped(span)
    <3>1. \A h \in Hosts : domain_buckets[s][h] \in Nat
      BY <1>1
    <3>2. \A h \in Hosts : new[s][h] = domain_buckets[s][h]
      BY <1>1, <2>3, <3>1
    <3>3. new[s] = domain_buckets[s]
      <4> HIDE DEF new
      <4> QED BY <2>1, <3>2
    <3>4. SumOf(domain_buckets[s]) \in Int
      BY <2>1, HostFacts, SumType
    <3> HIDE DEF new, span
    <3> QED BY <2>3, <3>3, <3>4
  <2> QED BY <2>2, <2>3
<1>4. SumOf(TotalsOf(new)) = SumOf(TotalsOf(domain_buckets)) + SumOf(share)
  <2>1. /\ TotalsOf(new) \in [Starts -> Int]
        /\ TotalsOf(domain_buckets) \in [Starts -> Int]
    <3> HIDE DEF new
    <3> QED BY <1>1, TotalsType
  <2>2. \A s \in Starts : TotalsOf(new)[s] = TotalsOf(domain_buckets)[s] + share[s]
    <3> HIDE DEF new, share
    <3> QED BY <1>3 DEF TotalsOf
  <2>3. share \in [Starts -> Int] /\ IsFiniteSet(Starts)
    BY <1>2, BucketFacts
  <2> HIDE DEF new, share
  <2> QED BY <2>1, <2>2, <2>3, SumAdd
<1> QED BY <1>2, <1>3, <1>4

\* What was sampled since the latest snapshot of connections, of the engine start
\* that was sampled last.
Pending ==
  IF cursor.epoch = domain_state.epoch THEN cursor.total - domain_state.total
  ELSE cursor.total

HostsInv ==
  /\ domain_state.at = -1 => domain_buckets = [s \in Starts |-> [h \in Hosts |-> 0]]
  /\ domain_state.at # -1 =>
       /\ cursor # NoCursor
       /\ domain_state.epoch \in Boots /\ domain_state.epoch <= cursor.epoch
       /\ domain_state.epoch = cursor.epoch => domain_state.total <= cursor.total
       /\ SumOf(TotalsOf(domain_buckets)) + Pending <= Column(buckets, "bytes")
  /\ ~fellBack => \A s \in Starts : SumOf(domain_buckets[s]) = buckets[s].bytes

LEMMA HostsStep ==
  ASSUME NothingExpires, LedgerInv, HostsInv, Record
  PROVE  HostsInv'
<1> DEFINE at == Unix(now)
           D == SumOf(TotalsOf(domain_buckets))
           C == Column(buckets, "bytes")
           delta == Delta(cursor)
           budget == Delta(domain_state)
<1>0. IInv /\ FloorsInv /\ BilledInv /\ SecondsInv /\ TypeInv
  BY DEF LedgerInv, IInv
<1>1. /\ at \in Times /\ cursor.at < at /\ before \in Boots
      /\ cursor' = Sample(at)
      /\ buckets' = IF cursor = NoCursor THEN buckets
                    ELSE Added(buckets, cursor, at, delta)
      /\ fellBack' = (fellBack \/ ~reply.list.listed)
      /\ IF reply.list.listed /\ domain_state.at < at
         THEN /\ domain_state' = Sample(at)
              /\ domain_buckets' = IF domain_state.at = -1 THEN domain_buckets
                                   ELSE DomainAdded(at, budget)
         ELSE UNCHANGED <<domain_state, domain_buckets>>
  BY <1>0, RecordWrites
<1>2. /\ cursor.at \in Times \cup {-1} /\ domain_state.at \in Times \cup {-1}
      /\ cursor.at = -1 <=> cursor = NoCursor
      /\ cursor.total \in Nat /\ domain_state.total \in Nat /\ reply.total \in Nat
      /\ cursor.epoch \in Nat /\ domain_state.epoch \in Nat /\ before \in Nat
      /\ Cutoff(at) = 0
      /\ Sample(at).at = at /\ Sample(at).total = reply.total /\ Sample(at).epoch = before
      /\ Sample(at) # NoCursor /\ at # -1
      /\ buckets \in [Starts -> RowType]
      /\ domain_buckets \in [Starts -> [Hosts -> Nat]]
  <2>1. at # -1 /\ NoCursor.at = -1 /\ Cutoff(at) = 0
    <3> HIDE DEF at, Cutoff
    <3> QED BY <1>1, SamplerFacts DEF NoCursor, NothingExpires
  <2>2. before \in Nat
    BY <1>1, SamplerFacts DEF Boots
  <2> HIDE DEF at, Cutoff
  <2> QED BY <1>0, <1>1, <2>1, <2>2, SamplerFacts
          DEF TypeInv, TypeOK, FirstInv, RowType, Sample
<1>3. /\ cursor.epoch <= before /\ domain_state.epoch <= before
      /\ delta = IF before = cursor.epoch THEN reply.total - cursor.total
                 ELSE reply.total
      /\ budget = IF before = domain_state.epoch THEN reply.total - domain_state.total
                  ELSE reply.total
  BY <1>0, RecordedDelta DEF IInv, SamplerInv, FloorsInv
<1>4. delta \in Nat /\ budget \in Nat
  <2>1. cursor \in SampleType /\ domain_state \in SampleType /\ ReplyType
    BY <1>0 DEF TypeInv, TypeOK, SampleType
  <2> QED BY <2>1, DeltaType
<1>5. C \in Nat /\ D \in Nat
  <2>1. \A row \in RowType : row["bytes"] \in Nat
    BY DEF RowType
  <2> QED BY <1>2, <2>1, ColumnType, TotalsType
<1>6. /\ Column(buckets', "bytes") = IF cursor = NoCursor THEN C ELSE C + delta
      /\ Column(buckets', "bytes") \in Nat
  <2>1. CASE cursor # NoCursor
    <3>1. cursor.at \in Times
      BY <1>2, <2>1
    <3>2. Column(Added(buckets, cursor, at, delta), "bytes") = C + delta
      <4> HIDE DEF at, delta
      <4> QED BY <1>1, <1>2, <1>4, <3>1, AddedColumn
    <3>3. buckets' = Added(buckets, cursor, at, delta)
      BY <1>1, <2>1
    <3> HIDE DEF C, delta, at
    <3> QED BY <1>4, <1>5, <2>1, <3>2, <3>3
  <2>2. CASE cursor = NoCursor
    <3>1. buckets' = buckets
      BY <1>1, <2>2
    <3> QED BY <1>5, <2>2, <3>1
  <2> QED BY <2>1, <2>2
<1>7. /\ cursor'.at = at /\ cursor'.total = reply.total /\ cursor'.epoch = before
      /\ cursor' # NoCursor
  BY <1>1, <1>2
<1>8. CASE ~ (reply.list.listed /\ domain_state.at < at)
  <2>1. domain_state' = domain_state /\ domain_buckets' = domain_buckets
    BY <1>1, <1>8
  <2>2. fellBack'
    <3>1. ASSUME ~fellBack' PROVE FALSE
      <4>1. ~fellBack /\ reply.list.listed
        BY <1>1, <3>1
      <4>2. domain_state = cursor
        BY <1>0, <4>1 DEF SecondsInv
      <4> QED BY <1>1, <1>8, <4>1, <4>2
    <3> QED BY <3>1
  <2>3. ASSUME domain_state.at # -1
        PROVE  /\ domain_state.epoch \in Boots /\ domain_state.epoch <= before
               /\ domain_state.epoch = before => domain_state.total <= reply.total
               /\ D + (IF before = domain_state.epoch
                       THEN reply.total - domain_state.total ELSE reply.total)
                    <= Column(buckets', "bytes")
    <3>1. /\ cursor # NoCursor /\ domain_state.epoch \in Boots
          /\ domain_state.epoch <= cursor.epoch
          /\ domain_state.epoch = cursor.epoch => domain_state.total <= cursor.total
          /\ D + (IF cursor.epoch = domain_state.epoch
                  THEN cursor.total - domain_state.total ELSE cursor.total) <= C
      BY <2>3 DEF HostsInv, Pending
    <3> HIDE DEF C, D, delta, budget, at
    <3> QED BY <1>2, <1>3, <1>4, <1>5, <1>6, <3>1
  <2> HIDE DEF at
  <2> QED BY <1>7, <2>1, <2>2, <2>3 DEF HostsInv, Pending
<1>9. CASE reply.list.listed /\ domain_state.at < at
  <2>1. domain_state' = Sample(at)
    BY <1>1, <1>9
  <2>2. ASSUME SumOf(TotalsOf(domain_buckets')) <= Column(buckets', "bytes"),
               SumOf(TotalsOf(domain_buckets')) \in Nat,
               ~fellBack' => \A s \in Starts : SumOf(domain_buckets'[s]) = buckets'[s].bytes
        PROVE  HostsInv'
    <3>1. /\ domain_state'.at # -1 /\ cursor' # NoCursor
          /\ domain_state'.epoch \in Boots /\ domain_state'.epoch <= cursor'.epoch
          /\ domain_state'.total <= cursor'.total
          /\ domain_state'.epoch = cursor'.epoch
      <4> HIDE DEF at
      <4> QED BY <1>1, <1>2, <1>7, <2>1
    <3>2. Pending' = 0
      BY <1>2, <1>7, <2>1 DEF Pending
    <3> QED BY <1>6, <2>2, <3>1, <3>2 DEF HostsInv
  <2>3. CASE domain_state.at = -1
    <3>1. domain_buckets' = domain_buckets
      BY <1>1, <1>9, <2>3
    <3>2. D = 0
      <4> DEFINE z == [h \in Hosts |-> 0]
                 Z == [s \in Starts |-> z]
      <4>1. z \in [Hosts -> Int] /\ \A h \in Hosts : z[h] = 0
        OBVIOUS
      <4>2. SumOf(z) = 0
        <5> HIDE DEF z
        <5> QED BY <4>1, HostFacts, SumZero
      <4>3. TotalsOf(Z) \in [Starts -> Int] /\ \A s \in Starts : TotalsOf(Z)[s] = 0
        <5>1. Z \in [Starts -> [Hosts -> Nat]]
          OBVIOUS
        <5>2. \A s \in Starts : Z[s] = z
          OBVIOUS
        <5> HIDE DEF Z, z
        <5> QED BY <4>2, <5>1, <5>2, TotalsType DEF TotalsOf
      <4>4. IsFiniteSet(Starts)
        BY BucketFacts
      <4>5. domain_buckets = Z
        BY <2>3 DEF HostsInv
      <4>6. SumOf(TotalsOf(Z)) = 0
        <5> HIDE DEF Z
        <5> QED BY <4>3, <4>4, SumZero
      <4> QED BY <4>5, <4>6
    <3>3. ASSUME ~fellBack'
          PROVE  \A s \in Starts : SumOf(domain_buckets'[s]) = buckets'[s].bytes
      <4>1. ~fellBack /\ domain_state = cursor
        BY <1>0, <1>1, <3>3 DEF SecondsInv
      <4>2. cursor = NoCursor
        BY <1>2, <2>3, <4>1
      <4>3. buckets' = buckets
        BY <1>1, <4>2
      <4> QED BY <3>1, <4>1, <4>3 DEF HostsInv
    <3>4. /\ SumOf(TotalsOf(domain_buckets')) <= Column(buckets', "bytes")
          /\ SumOf(TotalsOf(domain_buckets')) \in Nat
      <4> HIDE DEF C
      <4> QED BY <1>6, <3>1, <3>2
    <3> QED BY <2>2, <3>3, <3>4
  <2>4. CASE domain_state.at # -1
    <3>1. domain_buckets' = DomainAdded(at, budget) /\ domain_state.at \in Times
      BY <1>1, <1>2, <1>9, <2>4
    <3>2. /\ \A s \in Starts :
               SumOf(domain_buckets'[s]) = SumOf(domain_buckets[s])
                 + (IF s \in Overlapped(Span(domain_state, at))
                    THEN Share(budget, Span(domain_state, at), s) ELSE 0)
          /\ SumOf(TotalsOf(domain_buckets')) = D + budget
      <4> HIDE DEF at, budget, Cutoff
      <4> QED BY <1>0, <1>1, <1>2, <1>4, <1>9, <3>1, DomainAddedTotals
    <3>3. /\ cursor # NoCursor /\ domain_state.epoch \in Boots
          /\ domain_state.epoch <= cursor.epoch
          /\ domain_state.epoch = cursor.epoch => domain_state.total <= cursor.total
          /\ D + (IF cursor.epoch = domain_state.epoch
                  THEN cursor.total - domain_state.total ELSE cursor.total) <= C
      BY <2>4 DEF HostsInv, Pending
    <3>4. /\ SumOf(TotalsOf(domain_buckets')) <= Column(buckets', "bytes")
          /\ SumOf(TotalsOf(domain_buckets')) \in Nat
      <4> HIDE DEF C, D, delta, budget, at
      <4> QED BY <1>2, <1>3, <1>4, <1>5, <1>6, <3>2, <3>3
    <3>5. ASSUME ~fellBack', NEW s \in Starts
          PROVE  SumOf(domain_buckets'[s]) = buckets'[s].bytes
      <4>1. ~fellBack /\ domain_state = cursor
        BY <1>0, <1>1, <3>5 DEF SecondsInv
      <4>2. buckets' = Added(buckets, cursor, at, delta) /\ budget = delta
        BY <1>1, <3>3, <4>1
      <4>3. buckets'[s].bytes = buckets[s].bytes
              + (IF s \in Overlapped(Span(cursor, at))
                 THEN Share(delta, Span(cursor, at), s) ELSE 0)
        <5>1. buckets[s].bytes \in Nat
          BY <1>2 DEF RowType
        <5>2. CASE s \in Overlapped(Span(cursor, at))
          <6> HIDE DEF at, delta
          <6> QED BY <4>2, <5>2 DEF Added
        <5>3. CASE s \notin Overlapped(Span(cursor, at))
          <6>1. buckets'[s] = buckets[s]
            <7> HIDE DEF at, delta
            <7> QED BY <4>2, <5>3 DEF Added
          <6> QED BY <5>1, <5>3, <6>1
        <5> QED BY <5>2, <5>3
      <4>4. SumOf(domain_buckets[s]) = buckets[s].bytes
        BY <4>1 DEF HostsInv
      <4> HIDE DEF at, delta, budget
      <4> QED BY <3>2, <4>1, <4>2, <4>3, <4>4
    <3> QED BY <2>2, <3>4, <3>5
  <2> QED BY <2>3, <2>4
<1> QED BY <1>8, <1>9

LEMMA HostsStayWithin ==
  ASSUME IInv, HostsInv PROVE DomainsWithinGateway
<1>1. /\ domain_buckets \in [Starts -> [Hosts -> Nat]] /\ buckets \in [Starts -> RowType]
      /\ cursor.total \in Nat /\ domain_state.total \in Nat
      /\ domain_state.at \in Times \cup {-1}
  BY SamplerFacts DEF IInv, TypeInv, TypeOK, RowType
<1>2. \A s \in Starts, h \in Hosts : domain_buckets[s][h] >= 0
  BY <1>1
<1>3. /\ SumOf(TotalsOf(domain_buckets)) \in Nat /\ Column(buckets, "bytes") \in Nat
  <2>1. \A row \in RowType : row["bytes"] \in Nat
    BY DEF RowType
  <2> QED BY <1>1, <2>1, ColumnType, TotalsType
<1>4. SumOf(TotalsOf(domain_buckets)) <= Column(buckets, "bytes")
  <2>1. CASE domain_state.at = -1
    <3>1. \A s \in Starts : SumOf(domain_buckets[s]) = 0
      <4> TAKE s \in Starts
      <4>1. domain_buckets[s] \in [Hosts -> Int] /\ \A h \in Hosts : domain_buckets[s][h] = 0
        BY <1>1, <2>1 DEF HostsInv
      <4> QED BY <4>1, HostFacts, SumZero
    <3>2. /\ TotalsOf(domain_buckets) \in [Starts -> Int] /\ IsFiniteSet(Starts)
          /\ \A s \in Starts : TotalsOf(domain_buckets)[s] = 0
      BY <1>1, <3>1, TotalsType, BucketFacts DEF TotalsOf
    <3>3. SumOf(TotalsOf(domain_buckets)) = 0
      BY <3>2, SumZero
    <3> QED BY <1>3, <3>3
  <2>2. CASE domain_state.at # -1
    <3>1. /\ domain_state.epoch = cursor.epoch => domain_state.total <= cursor.total
          /\ SumOf(TotalsOf(domain_buckets)) + Pending <= Column(buckets, "bytes")
      BY <2>2 DEF HostsInv
    <3>2. Pending \in Nat
      BY <1>1, <3>1 DEF Pending
    <3> QED BY <1>3, <3>1, <3>2
  <2> QED BY <2>1, <2>2
<1>5. /\ \A s \in Starts : DomainTotal(s) = SumOf(domain_buckets[s])
      /\ [s \in Starts |-> DomainTotal(s)] = TotalsOf(domain_buckets)
  BY DEF DomainTotal, TotalsOf
<1>6. ~fellBack => \A s \in Starts : DomainTotal(s) = buckets[s].bytes
  BY <1>5 DEF HostsInv
<1> QED BY <1>2, <1>4, <1>5, <1>6 DEF DomainsWithinGateway

-----------------------------------------------------------------------------
(***************************************************************************)
(* What one sample bills to a host.                                        *)
(***************************************************************************)
LEMMA SlackUp ==
  ASSUME NEW w \in Nat \ {0}, NEW k \in Nat \ {0}, NEW f \in Int, NEW u \in Int,
         w * f <= u * w + (w - 1) * k
  PROVE  f <= u + k - 1
<1> SUFFICES ASSUME u + k <= f PROVE FALSE
  OBVIOUS
<1>1. w * (u + k) <= w * f /\ w * f \in Int
  BY ProductMonotone
<1>2. w * (u + k) = w * u + w * k /\ w * u = u * w /\ (w - 1) * k = w * k - k
  OBVIOUS
<1>3. w * u \in Int /\ w * k \in Int
  OBVIOUS
<1> DEFINE p == w * u  q == w * k  r == w * f
<1>4. /\ p \in Int /\ q \in Int /\ r \in Int
      /\ p + q <= r /\ r <= p + (q - k)
  BY <1>1, <1>2, <1>3
<1> HIDE DEF p, q, r
<1> QED BY <1>4

LEMMA SlackDown ==
  ASSUME NEW w \in Nat \ {0}, NEW k \in Nat \ {0}, NEW f \in Int, NEW u \in Int,
         u * w <= w * f + (w - 1) * k
  PROVE  u - (k - 1) <= f
<1> SUFFICES ASSUME f <= u - k PROVE FALSE
  OBVIOUS
<1>1. w * f <= w * (u - k) /\ w * f \in Int
  BY ProductMonotone
<1>2. w * (u - k) = w * u - w * k /\ w * u = u * w /\ (w - 1) * k = w * k - k
  OBVIOUS
<1>3. w * u \in Int /\ w * k \in Int
  OBVIOUS
<1> DEFINE p == w * u  q == w * k  r == w * f
<1>4. /\ p \in Int /\ q \in Int /\ r \in Int
      /\ r <= p - q /\ p <= r + (q - k)
  BY <1>1, <1>2, <1>3
<1> HIDE DEF p, q, r
<1> QED BY <1>4

\* What a sample adds to the row of one host, bucket by bucket.
Given(at, budget, h) ==
  [s \in Starts |-> IF s \in Overlapped(Span(domain_state, at))
                    THEN DomainPart(at, budget, s)[h] ELSE 0]

LEMMA GivenType ==
  ASSUME TypeInv, NEW at \in Times, domain_state.at \in Times, domain_state.at < at,
         NEW budget \in Nat, NEW h \in Hosts
  PROVE  /\ Given(at, budget, h) \in [Starts -> Nat]
         /\ Given(at, budget, h) \in [Starts -> Int]
         /\ SumOf(Given(at, budget, h)) \in Nat
<1>1. \A s \in Overlapped(Span(domain_state, at)) : DomainPart(at, budget, s)[h] \in Nat
  BY DomainPartFacts
<1>2. Given(at, budget, h) \in [Starts -> Nat]
  BY <1>1 DEF Given
<1>3. IsFiniteSet(Starts)
  BY BucketFacts
<1> QED BY <1>2, <1>3, SumNonnegative

\* All hosts together are given the budget.
LEMMA GivenTotal ==
  ASSUME TypeInv, NEW at \in Times, domain_state.at \in Times, domain_state.at < at,
         Cutoff(at) = 0, NEW budget \in Nat
  PROVE  SumOf([h \in Hosts |-> SumOf(Given(at, budget, h))]) = budget
<1> DEFINE span == Span(domain_state, at)
           m == [h \in Hosts |-> Given(at, budget, h)]
           share == [s \in Starts |-> IF s \in Overlapped(span)
                                      THEN Share(budget, span, s) ELSE 0]
<1>1. IsFiniteSet(Starts) /\ IsFiniteSet(Hosts)
  BY BucketFacts, HostFacts
<1>2. m \in [Hosts -> [Starts -> Int]]
  BY GivenType
<1>3. ASSUME NEW s \in Starts PROVE SumOf([h \in Hosts |-> m[h][s]]) = share[s]
  <2>1. CASE s \in Overlapped(span)
    <3>1. /\ DomainPart(at, budget, s) \in [Hosts -> Nat]
          /\ SumOf(DomainPart(at, budget, s)) = Share(budget, span, s)
      BY <2>1, DomainPartFacts
    <3>2. [h \in Hosts |-> m[h][s]] = DomainPart(at, budget, s)
      BY <2>1, <3>1 DEF Given
    <3> QED BY <2>1, <3>1, <3>2
  <2>2. CASE s \notin Overlapped(span)
    <3> DEFINE z == [h \in Hosts |-> m[h][s]]
    <3>1. z \in [Hosts -> Int] /\ \A h \in Hosts : z[h] = 0
      BY <2>2 DEF Given
    <3>2. SumOf(z) = 0
      <4> HIDE DEF z
      <4> QED BY <1>1, <3>1, SumZero
    <3> QED BY <2>2, <3>2
  <2> QED BY <2>1, <2>2
<1>4. SumOf([h \in Hosts |-> SumOf(m[h])])
        = SumOf([s \in Starts |-> SumOf([h \in Hosts |-> m[h][s]])])
  <2> HIDE DEF m
  <2> QED BY <1>1, <1>2, SumSwap
<1>5. [s \in Starts |-> SumOf([h \in Hosts |-> m[h][s]])] = share
  <2>1. \A s \in Starts : SumOf([h \in Hosts |-> m[h][s]]) = share[s]
    BY <1>3
  <2>2. share = [s \in Starts |-> share[s]]
    OBVIOUS
  <2> HIDE DEF m, share
  <2> QED BY <2>1, <2>2
<1>6. [h \in Hosts |-> SumOf(m[h])] = [h \in Hosts |-> SumOf(Given(at, budget, h))]
  OBVIOUS
<1>7. SumOf(share) = budget
  <2>1. /\ span = [old |-> domain_state.at, at |-> at, from |-> domain_state.at]
        /\ domain_state.at <= at /\ domain_state.at <= domain_state.at
    <3> HIDE DEF Cutoff
    <3> QED BY SpanFacts, SamplerFacts
  <2> HIDE DEF span
  <2> QED BY <2>1, ShareFacts
<1> HIDE DEF m, share
<1> QED BY <1>4, <1>5, <1>6, <1>7

\* One host is given its usage, but for one byte at each bucket boundary.
LEMMA GivenBounds ==
  ASSUME TypeInv, NEW at \in Times, domain_state.at \in Times, domain_state.at < at,
         Cutoff(at) = 0, NEW budget \in Nat, NEW h \in Hosts
  PROVE  LET k == Cardinality(Overlapped(Span(domain_state, at)))
             u == Attributed(Used(at), budget)[h]
         IN  /\ k \in Nat \ {0}
             /\ SumOf(Given(at, budget, h)) <= u + k - 1
             /\ u - (k - 1) <= SumOf(Given(at, budget, h))
<1> DEFINE span == Span(domain_state, at)
           T == Overlapped(span)
           k == Cardinality(T)
           usage == Attributed(Used(at), budget)
           u == usage[h]
           F == SumOf(Given(at, budget, h))
           part == [s \in T |-> DomainPart(at, budget, s)[h]]
           share == [s \in T |-> Share(budget, span, s)]
           all == [s \in Starts |-> IF s \in T THEN Share(budget, span, s) ELSE 0]
<1>1. /\ span = [old |-> domain_state.at, at |-> at, from |-> domain_state.at]
      /\ domain_state.at <= at /\ domain_state.at <= domain_state.at
  <2> HIDE DEF Cutoff
  <2> QED BY SpanFacts, SamplerFacts
<1>2. /\ \A s \in T : Share(budget, span, s) \in Nat
      /\ all \in [Starts -> Nat] /\ SumOf(all) = budget
  <2> HIDE DEF span
  <2> QED BY <1>1, ShareFacts
<1>3. T \in SUBSET Starts /\ T # {} /\ IsFiniteSet(Starts) /\ IsFiniteSet(T)
  <2>1. T \in SUBSET Starts
    BY DEF Overlapped
  <2>2. T # {}
    BY OverlapIsNotEmpty
  <2> HIDE DEF T
  <2> QED BY <2>1, <2>2, BucketFacts, FS_Subset
<1>4. k \in Nat \ {0}
  <2> HIDE DEF T
  <2> QED BY <1>3, FS_CardinalityType, FS_EmptySet
<1>5. share \in [T -> Int] /\ SumOf(share) = budget
  <2>1. /\ share \in [T -> Int] /\ all \in [Starts -> Int]
        /\ \A s \in T : all[s] = share[s]
        /\ \A s \in Starts \ T : all[s] = 0
    <3> HIDE DEF T, span
    <3> QED BY <1>2, <1>3
  <2> HIDE DEF T, share, all
  <2>2. SumOf(all) = SumOf(share)
    BY <1>3, <2>1, SumExtend
  <2> QED BY <1>2, <2>1, <2>2
<1>6. part \in [T -> Int] /\ SumOf(part) = F /\ F \in Nat
  <2> DEFINE g == Given(at, budget, h)
  <2>1. /\ \A s \in T : DomainPart(at, budget, s)[h] \in Nat
        /\ g \in [Starts -> Int] /\ F \in Nat
    BY GivenType, DomainPartFacts
  <2>2. part \in [T -> Int]
    BY <2>1
  <2>3. /\ \A s \in T : g[s] = part[s]
        /\ \A s \in Starts \ T : g[s] = 0
    <3>1. \A s \in Starts : g[s] = IF s \in T THEN DomainPart(at, budget, s)[h] ELSE 0
      BY DEF Given
    <3> HIDE DEF T, g
    <3> QED BY <1>3, <3>1
  <2> HIDE DEF T, part, g
  <2>4. SumOf(g) = SumOf(part)
    BY <1>3, <2>1, <2>2, <2>3, SumExtend
  <2> QED BY <2>1, <2>2, <2>4 DEF g
<1>7. usage \in [Hosts -> Nat] /\ SumOf(usage) = budget /\ u \in Nat
  BY UsedFacts, AttributedFacts
<1>8. CASE budget = 0
  <2>1. F = 0
    <3>1. \A s \in T : part[s] = 0
      BY <1>8 DEF DomainPart
    <3> HIDE DEF T, part, F
    <3> QED BY <1>3, <1>6, <3>1, SumZero
  <2>2. u = 0
    <3>1. u <= SumOf(usage)
      <4> HIDE DEF usage
      <4> QED BY <1>7, HostFacts, SumNonnegative
    <3> HIDE DEF u, usage
    <3> QED BY <1>7, <1>8, <3>1
  <2> HIDE DEF F, u, k
  <2>3. F <= u + k - 1 /\ u - (k - 1) <= F
    BY <1>4, <2>1, <2>2
  <2> QED BY <1>4, <2>3 DEF F, u, k
<1>9. CASE budget # 0
  <2>1. budget \in Nat \ {0} /\ budget - 1 \in Int /\ budget \in Int
    BY <1>9
  <2>2. ASSUME NEW s \in T
        PROVE  /\ budget * part[s] <= u * share[s] + (budget - 1)
               /\ u * share[s] <= budget * part[s] + (budget - 1)
    <3> DEFINE x == Share(budget, span, s)
    <3>1. part[s] = Spread(x, usage, budget)[h] /\ share[s] = x /\ x \in Nat
      BY <1>2, <1>9 DEF DomainPart
    <3> HIDE DEF x, usage
    <3>2. /\ budget * Spread(x, usage, budget)[h] <= x * usage[h] + (budget - 1)
          /\ x * usage[h] - (budget - 1) <= budget * Spread(x, usage, budget)[h]
      BY <1>7, <2>1, <3>1, SpreadFacts
    <3>3. x * u = u * x /\ x * u \in Int
      <4> HIDE DEF u
      <4> QED BY <1>7, <3>1
    <3>4. budget * part[s] \in Int
      <4>1. part[s] \in Int
        BY <1>6
      <4> HIDE DEF part
      <4> QED BY <4>1
    <3> DEFINE p == budget * part[s]  q == x * u
    <3>5. /\ p \in Int /\ q \in Int /\ p <= q + (budget - 1) /\ q - (budget - 1) <= p
      BY <3>1, <3>2, <3>3, <3>4
    <3>6. p = budget * part[s] /\ q = u * share[s]
      BY <3>1, <3>3
    <3> HIDE DEF p, q
    <3>7. p <= q + (budget - 1) /\ q <= p + (budget - 1)
      BY <2>1, <3>5
    <3> QED BY <3>6, <3>7
  <2>3. budget * F <= u * budget + (budget - 1) * k
    <3>1. \A s \in T : budget * part[s] <= u * share[s] + (budget - 1)
      BY <2>2
    <3>2. u \in Int
      BY <1>7
    <3> HIDE DEF T, part, share, u, F
    <3>3. budget * SumOf(part) <= u * SumOf(share) + (budget - 1) * Cardinality(T)
      BY <1>3, <1>5, <1>6, <2>1, <3>1, <3>2, SumLinear
    <3> QED BY <1>5, <1>6, <3>3
  <2>4. u * budget <= budget * F + (budget - 1) * k
    <3>1. \A s \in T : u * share[s] <= budget * part[s] + (budget - 1)
      BY <2>2
    <3>2. u \in Int
      BY <1>7
    <3> HIDE DEF T, part, share, u, F
    <3>3. u * SumOf(share) <= budget * SumOf(part) + (budget - 1) * Cardinality(T)
      BY <1>3, <1>5, <1>6, <2>1, <3>1, <3>2, SumLinear
    <3> QED BY <1>5, <1>6, <3>3
  <2>5. F \in Int /\ u \in Int
    BY <1>6, <1>7
  <2>6. F <= u + k - 1 /\ u - (k - 1) <= F
    <3> HIDE DEF F, u, k
    <3> QED BY <1>4, <2>1, <2>3, <2>4, <2>5, SlackUp, SlackDown
  <2> QED BY <1>4, <2>6
<1> QED BY <1>8, <1>9

-----------------------------------------------------------------------------
LEMMA CappedBelowUsed ==
  ASSUME NEW used \in [Hosts -> Nat], used[Unattributed] = 0, NEW budget \in Nat
  PROVE  /\ \A h \in Hosts : Capped(used, budget)[h] <= used[h]
         /\ SumOf(Capped(used, budget)) <= SumOf(used)
<1> DEFINE w == SumOf(used)
<1>1. w \in Nat /\ IsFiniteSet(Hosts)
  BY HostFacts, SumNonnegative
<1>2. Capped(used, budget) \in [Hosts -> Nat]
  BY CappedFacts
<1>3. ASSUME NEW h \in Hosts PROVE Capped(used, budget)[h] <= used[h]
  <2>1. CASE w > budget
    <3> DEFINE f == Spread(budget, used, w)[h]
    <3>1. w \in Nat \ {0}
      BY <1>1, <2>1
    <3>2. Capped(used, budget)[h] = f
      BY <2>1 DEF Capped
    <3>3. f \in Nat /\ w * f <= budget * used[h] + (w - 1)
      <4> HIDE DEF w
      <4>1. /\ Spread(budget, used, w) \in [Hosts -> Nat]
            /\ w * Spread(budget, used, w)[h] <= budget * used[h] + (w - 1)
        BY <3>1, SpreadFacts
      <4> QED BY <4>1
    <3>4. used[h] \in Nat
      OBVIOUS
    <3>5. f <= used[h] + 1 - 1
      <4> HIDE DEF w, f
      <4>1. used[h] * budget <= used[h] * w /\ used[h] * budget \in Int
        BY <1>1, <2>1, <3>4, ProductMonotone
      <4>2. used[h] * budget = budget * used[h] /\ (w - 1) * 1 = w - 1
        BY <3>1, <3>4
      <4> DEFINE p == used[h] * budget  q == used[h] * w  r == w * f
      <4>3. /\ p \in Int /\ q \in Int /\ r \in Int /\ p <= q /\ r <= p + (w - 1)
        BY <1>1, <3>3, <3>4, <4>1, <4>2
      <4>4. r <= q + (w - 1) * 1
        <5> HIDE DEF p, q, r
        <5> QED BY <3>1, <4>2, <4>3
      <4> QED BY <3>1, <3>3, <3>4, <4>4, SlackUp
    <3> HIDE DEF f
    <3> QED BY <3>2, <3>3, <3>4, <3>5
  <2>2. CASE ~ (w > budget)
    <3>1. Capped(used, budget)[h] = used[h] /\ used[h] \in Nat
      BY <2>2 DEF Capped
    <3> QED BY <3>1
  <2> QED BY <2>1, <2>2
<1>4. Capped(used, budget) \in [Hosts -> Int] /\ used \in [Hosts -> Int]
  BY <1>2
<1> QED BY <1>1, <1>3, <1>4, SumMonotone

\* A sample bills a host no more than its connections used, and all named hosts
\* together no more than was used, but for one byte at each bucket boundary.
LEMMA NamedGrowth ==
  ASSUME TypeInv, NEW at \in Times, domain_state.at \in Times, domain_state.at < at,
         Cutoff(at) = 0, NEW budget \in Nat
  PROVE  LET k == Cardinality(Overlapped(Span(domain_state, at)))
             given == [h \in Hosts \ {Unattributed} |-> SumOf(Given(at, budget, h))]
         IN  /\ k \in Nat \ {0}
             /\ \A h \in Hosts \ {Unattributed} : given[h] <= Used(at)[h] + k - 1
             /\ SumOf(given) <= SumOf(Used(at)) + k - 1
<1> DEFINE k == Cardinality(Overlapped(Span(domain_state, at)))
           given == [h \in Hosts \ {Unattributed} |-> SumOf(Given(at, budget, h))]
           every == [h \in Hosts |-> SumOf(Given(at, budget, h))]
           used == Used(at)
           capped == Capped(used, budget)
           usage == Attributed(used, budget)
<1>1. used \in [Hosts -> Nat] /\ used[Unattributed] = 0
  BY UsedFacts
<1>2. /\ capped \in [Hosts -> Nat] /\ SumOf(capped) \in Nat
      /\ \A h \in Hosts : capped[h] <= used[h]
      /\ SumOf(capped) <= SumOf(used)
  <2> HIDE DEF used
  <2> QED BY <1>1, CappedFacts, CappedBelowUsed
<1>3. /\ \A h \in Hosts \ {Unattributed} : usage[h] = capped[h]
      /\ usage[Unattributed] = budget - SumOf(capped)
  <2> HIDE DEF used
  <2> QED BY <1>2, SamplerFacts DEF Attributed
<1>4. ASSUME NEW h \in Hosts
      PROVE  /\ k \in Nat \ {0}
             /\ SumOf(Given(at, budget, h)) <= usage[h] + k - 1
             /\ usage[h] - (k - 1) <= SumOf(Given(at, budget, h))
             /\ SumOf(Given(at, budget, h)) \in Nat
  <2> HIDE DEF Cutoff
  <2> QED BY GivenBounds, GivenType
<1>5. k \in Nat \ {0}
  BY <1>4, SamplerFacts
<1>6. ASSUME NEW h \in Hosts \ {Unattributed} PROVE given[h] <= used[h] + k - 1
  <2>1. given[h] <= capped[h] + k - 1 /\ given[h] \in Nat
    BY <1>3, <1>4
  <2>2. capped[h] <= used[h] /\ capped[h] \in Nat /\ used[h] \in Nat
    BY <1>1, <1>2
  <2> HIDE DEF given, used, k, capped
  <2> QED BY <1>5, <2>1, <2>2
<1>7. SumOf(given) <= SumOf(used) + k - 1
  <2>1. /\ every \in [Hosts -> Int] /\ given \in [Hosts \ {Unattributed} -> Int]
        /\ \A h \in Hosts \ {Unattributed} : given[h] = every[h]
    BY <1>4
  <2>2. SumOf(every) = budget
    <3> HIDE DEF Cutoff
    <3> QED BY GivenTotal
  <2>3. every[Unattributed] = SumOf(Given(at, budget, Unattributed))
    BY SamplerFacts
  <2>4. budget - SumOf(capped) - (k - 1) <= every[Unattributed]
    <3>1. usage[Unattributed] - (k - 1) <= SumOf(Given(at, budget, Unattributed))
      BY <1>4, SamplerFacts
    <3> QED BY <1>3, <2>3, <3>1
  <2>5. every[Unattributed] \in Int
    BY <2>1, SamplerFacts
  <2>6. SumOf(used) \in Nat
    BY <1>1, HostFacts, SumNonnegative
  <2> HIDE DEF given, every, used, k, capped
  <2>7. SumOf(every) = every[Unattributed] + SumOf(given) /\ SumOf(given) \in Int
    <3>1. Unattributed \in Hosts /\ IsFiniteSet(Hosts)
      BY SamplerFacts, HostFacts
    <3> QED BY <2>1, <3>1, SumExclude
  <2> QED BY <1>2, <1>5, <2>2, <2>4, <2>5, <2>6, <2>7
<1> HIDE DEF given, k
<1> QED BY <1>5, <1>6, <1>7 DEF given, k

\* What is billable of a listed connection.
Bill(at, c) == IF c \in reply.list.ids THEN Billable(c, at) ELSE 0
BillTo(at, h, c) == IF reply.list.host[c] = h THEN Bill(at, c) ELSE 0

LEMMA BillType ==
  ASSUME TypeInv, NEW at
  PROVE  /\ \A c \in Conns : Bill(at, c) \in Nat
         /\ \A c \in Conns : \A h : BillTo(at, h, c) \in Nat
<1>1. ASSUME NEW c \in Conns PROVE Bill(at, c) \in Nat
  <2>1. reply.list.bytes[c] \in Nat /\ domain_cursor[c].bytes \in Nat
    BY SamplerFacts DEF TypeInv, TypeOK, ReplyType, ListType
  <2> QED BY <2>1 DEF Bill, Billable
<1> QED BY <1>1 DEF BillTo

\* The use of the hosts is that of the connections.
LEMMA UsedByConnection ==
  ASSUME TypeInv, NEW at
  PROVE  /\ \A h \in Hosts : Used(at)[h] <= SumOf([c \in Conns |-> BillTo(at, h, c)])
         /\ SumOf(Used(at)) <= SumOf([c \in Conns |-> Bill(at, c)])
<1> DEFINE m == [h \in Hosts |-> [c \in Conns |-> BillTo(at, h, c)]]
           rows == [h \in Hosts |-> SumOf(m[h])]
<1>1. m \in [Hosts -> [Conns -> Int]] /\ \A h \in Hosts : m[h] \in [Conns -> Nat]
  BY BillType
<1>2. IsFiniteSet(Conns) /\ IsFiniteSet(Hosts) /\ reply.list.ids \in SUBSET Conns
      /\ \A c \in Conns : reply.list.host[c] \in Hosts
  BY SamplerFacts, HostFacts DEF TypeInv, ReplyType, ListType
<1>3. Used(at) \in [Hosts -> Nat]
  BY UsedFacts
<1>4. ASSUME NEW h \in Hosts PROVE rows[h] \in Nat /\ Used(at)[h] <= rows[h]
  <2>1. SumOf(m[h]) \in Nat
    <3> HIDE DEF m
    <3> QED BY <1>1, <1>2, SumNonnegative
  <2>2. CASE IsReset(domain_state)
    <3>1. Used(at)[h] = 0
      BY <2>2 DEF Used
    <3> HIDE DEF m
    <3> QED BY <2>1, <3>1
  <2>3. CASE ~ IsReset(domain_state)
    <3> DEFINE T == {c \in reply.list.ids : reply.list.host[c] = h}
               f == [c \in T |-> Billable(c, at)]
    <3>1. Used(at)[h] = SumOf(f)
      BY <2>3 DEF Used
    <3>2. T \in SUBSET Conns
      BY <1>2
    <3>3. \A c \in T : f[c] = Bill(at, c)
      BY DEF Bill
    <3>4. f \in [T -> Int]
      <4>1. \A c \in T : f[c] \in Int
        BY <3>2, <3>3, BillType
      <4> HIDE DEF T
      <4> QED BY <4>1
    <3>5. \A c \in T : m[h][c] = f[c]
      BY <3>2, <3>3 DEF BillTo
    <3>6. \A c \in Conns \ T : m[h][c] = 0
      BY DEF Bill, BillTo
    <3>7. m[h] \in [Conns -> Int]
      BY <1>1
    <3> HIDE DEF T, f, m
    <3>8. SumOf(m[h]) = SumOf(f)
      BY <1>2, <3>2, <3>4, <3>5, <3>6, <3>7, SumExtend
    <3>9. rows[h] = SumOf(m[h])
      OBVIOUS
    <3> HIDE DEF rows
    <3> QED BY <2>1, <3>1, <3>8, <3>9
  <2> QED BY <2>2, <2>3
<1>5. SumOf(Used(at)) <= SumOf(rows)
  <2>1. rows \in [Hosts -> Int] /\ Used(at) \in [Hosts -> Int]
    <3>1. \A h \in Hosts : rows[h] \in Int
      BY <1>4
    <3> HIDE DEF m
    <3> QED BY <1>3, <3>1
  <2>2. \A h \in Hosts : Used(at)[h] <= rows[h]
    BY <1>4
  <2> HIDE DEF rows
  <2> QED BY <1>2, <2>1, <2>2, SumMonotone
<1>6. SumOf(rows) = SumOf([c \in Conns |-> SumOf([h \in Hosts |-> m[h][c]])])
  <2> HIDE DEF m
  <2> QED BY <1>1, <1>2, SumSwap
<1>7. ASSUME NEW c \in Conns PROVE SumOf([h \in Hosts |-> m[h][c]]) = Bill(at, c)
  <2> DEFINE z == [h \in Hosts |-> 0]
             col == [h \in Hosts |-> m[h][c]]
             g == reply.list.host[c]
  <2>1. z \in [Hosts -> Int] /\ col \in [Hosts -> Int] /\ g \in Hosts
    BY <1>1, <1>2
  <2>2. /\ \A h \in Hosts : z[h] = 0
        /\ \A h \in Hosts \ {g} : col[h] = z[h]
        /\ col[g] = Bill(at, c)
    BY <2>1 DEF BillTo
  <2>3. Bill(at, c) \in Nat
    BY BillType
  <2> HIDE DEF z, col, g
  <2>4. SumOf(z) = 0
    BY <1>2, <2>1, <2>2, SumZero
  <2>5. SumOf(col) = SumOf(z) + col[g] - z[g]
    BY <1>2, <2>1, <2>2, SumUpdate
  <2>6. z[g] = 0
    BY <2>1, <2>2
  <2>7. SumOf(col) = Bill(at, c)
    BY <2>2, <2>3, <2>4, <2>5, <2>6
  <2> QED BY <2>7 DEF col
<1>8. [c \in Conns |-> SumOf([h \in Hosts |-> m[h][c]])] = [c \in Conns |-> Bill(at, c)]
  <2> HIDE DEF m
  <2> QED BY <1>7
<1>9. \A h \in Hosts : rows[h] = SumOf([c \in Conns |-> BillTo(at, h, c)])
  OBVIOUS
<1>10. SumOf(Used(at)) <= SumOf([c \in Conns |-> Bill(at, c)])
  <2> HIDE DEF rows, m
  <2> QED BY <1>5, <1>6, <1>8
<1>11. \A h \in Hosts : Used(at)[h] <= SumOf([c \in Conns |-> BillTo(at, h, c)])
  <2> HIDE DEF rows, m
  <2> QED BY <1>4, <1>9
<1> QED BY <1>10, <1>11

-----------------------------------------------------------------------------
(***************************************************************************)
(* The hosts within their connections.  A connection is listed as long as  *)
(* it is open, under a name it keeps, with a counter that only grows; one  *)
(* that drops out of the table never comes back.                           *)
(***************************************************************************)
Seen(c) == domain_cursor[c].seen
Listed(c) == c \in reply.list.ids

ConnectionInv(c) ==
  /\ conns[c].began = -1 =>
       ~ conns[c].open /\ conns[c].bytes = 0 /\ ~ Seen(c) /\ ~ Listed(c)
  /\ Seen(c) => /\ domain_cursor[c].bytes <= conns[c].bytes
                /\ domain_cursor[c].host \in {IpOnly, conns[c].host}
  /\ reply.list.listed /\ conns[c].open /\ Seen(c) => Listed(c)
  /\ collector = "after" /\ Listed(c) =>
       /\ reply.list.bytes[c] <= conns[c].bytes
       /\ reply.list.host[c] \in {IpOnly, conns[c].host}
       /\ Seen(c) => /\ domain_cursor[c].bytes <= reply.list.bytes[c]
                     /\ domain_cursor[c].host \in {IpOnly, reply.list.host[c]}

ConnsInv ==
  /\ collector \notin {"listing", "after"} => reply.list = NoList
  /\ \A c \in Conns : ConnectionInv(c)

\* What a step may do to a connection, and to the list that is under way.
ConnGrows(c) ==
  /\ conns[c].bytes <= conns'[c].bytes
  /\ \/ conns'[c].host = conns[c].host
     \/ conns[c].host = IpOnly
     \/ conns[c].began = -1
  /\ \/ conns[c].began = -1 /\ conns'[c].began # -1
     \/ /\ conns'[c].began = conns[c].began
        /\ conns'[c].open => conns[c].open
        /\ conns'[c].bytes # conns[c].bytes => conns[c].open
  /\ c \in reply'.list.ids => Listed(c) \/ conns[c].open

LEMMA ConnTypes ==
  ASSUME TypeInv, NEW c \in Conns
  PROVE  /\ conns[c].open \in BOOLEAN /\ conns[c].bytes \in Nat /\ conns[c].host \in Hosts
         /\ conns[c].began \in Times \cup {-1}
         /\ domain_cursor[c].bytes \in Nat /\ domain_cursor[c].seen \in BOOLEAN
         /\ domain_cursor[c].host \in Hosts
         /\ reply.list.bytes[c] \in Nat /\ reply.list.host[c] \in Hosts
         /\ reply.list.ids \in SUBSET Conns /\ reply.list.listed \in BOOLEAN
         /\ now \in Times /\ Unix(now) # -1
<1>1. Unix(now) # -1 /\ now \in Times
  BY SamplerFacts DEF TypeInv, TypeOK
<1>2. /\ conns[c] \in [open: BOOLEAN, host: Hosts, began: Times \cup {-1},
                       bytes: 0 .. MaxBytes]
      /\ domain_cursor[c] \in [seen: BOOLEAN, host: Hosts, bytes: Nat]
  BY DEF TypeInv, TypeOK
<1>3. reply.list \in ListType /\ MaxBytes \in Nat
  BY SamplerFacts DEF TypeInv, ReplyType
<1> QED BY <1>1, <1>2, <1>3 DEF ListType

LEMMA EngineConns ==
  ASSUME TypeInv, ConnsInv, EngineNext
  PROVE  /\ UNCHANGED <<turnVars, ledgerVars, historyVars>>
         /\ \A c \in Conns : ConnGrows(c)
<1>1. UNCHANGED <<turnVars, ledgerVars, historyVars>>
  BY DEF EngineNext, Start, Die, Open, Sniff, Relay, Close
<1> USE DEF Listed
<1>2. ASSUME NEW c \in Conns PROVE ConnGrows(c)
  <2>1. /\ conns[c].bytes \in Nat /\ conns \in [Conns -> [open: BOOLEAN, host: Hosts,
              began: Times \cup {-1}, bytes: 0 .. MaxBytes]]
        /\ conns[c].bytes <= conns[c].bytes /\ conns[c].bytes <= conns[c].bytes + 1
        /\ reply' = reply /\ Unix(now) # -1
        /\ conns[c].began = -1 => conns[c].bytes = 0
    BY <1>1, ConnTypes DEF TypeInv, TypeOK, turnVars, ConnsInv, ConnectionInv
  <2>2. CASE Start
    BY <2>1, <2>2 DEF Start, ConnGrows
  <2>3. CASE Die
    <3>1. /\ conns'[c].bytes = conns[c].bytes /\ conns'[c].host = conns[c].host
          /\ conns'[c].began = conns[c].began /\ conns'[c].open = FALSE
      BY <2>1, <2>3 DEF Die
    <3> QED BY <2>1, <3>1 DEF ConnGrows
  <2>4. ASSUME NEW d \in Conns, NEW h \in Hosts, Open(d, h) PROVE ConnGrows(c)
    <3>1. d # c => conns'[c] = conns[c]
      BY <2>1, <2>4 DEF Open
    <3>2. d = c => /\ conns[c].began = -1 /\ conns'[c].began = Unix(now)
                   /\ conns'[c].bytes = 0
      BY <2>1, <2>4 DEF Open
    <3> QED BY <2>1, <3>1, <3>2 DEF ConnGrows
  <2>5. ASSUME NEW d \in Conns, NEW h \in Hosts, Sniff(d, h) PROVE ConnGrows(c)
    <3>1. d # c => conns'[c] = conns[c]
      BY <2>1, <2>5 DEF Sniff
    <3>2. d = c => /\ conns[c].host = IpOnly /\ conns'[c].began = conns[c].began
                   /\ conns'[c].bytes = conns[c].bytes /\ conns'[c].open = conns[c].open
      BY <2>1, <2>5 DEF Sniff
    <3> QED BY <2>1, <3>1, <3>2 DEF ConnGrows
  <2>6. ASSUME NEW nest \in SUBSET Conns, Relay(nest) PROVE ConnGrows(c)
    <3>1. c \notin nest => conns'[c] = conns[c]
      BY <2>1, <2>6 DEF Relay
    <3>2. c \in nest => /\ conns[c].open /\ conns'[c].host = conns[c].host
                        /\ conns'[c].began = conns[c].began
                        /\ conns'[c].bytes = conns[c].bytes + 1
                        /\ conns'[c].open = conns[c].open
      BY <2>1, <2>6 DEF Relay
    <3> QED BY <2>1, <3>1, <3>2 DEF ConnGrows
  <2>7. ASSUME NEW d \in Conns, Close(d) PROVE ConnGrows(c)
    <3>1. d # c => conns'[c] = conns[c]
      BY <2>1, <2>7 DEF Close
    <3>2. d = c => /\ conns'[c].host = conns[c].host /\ conns'[c].bytes = conns[c].bytes
                   /\ conns'[c].began = conns[c].began /\ conns'[c].open = FALSE
      BY <2>1, <2>7 DEF Close
    <3> QED BY <2>1, <3>1, <3>2 DEF ConnGrows
  <2> QED BY <2>2, <2>3, <2>4, <2>5, <2>6, <2>7 DEF EngineNext
<1> QED BY <1>1, <1>2

\* What the engine does keeps every reading of its connections valid.
LEMMA EngineKeepsConns ==
  ASSUME TypeInv, TypeInv', ConnsInv, UNCHANGED turnVars, UNCHANGED domain_cursor,
         \A c \in Conns : ConnGrows(c)
  PROVE  ConnsInv'
<1>1. reply' = reply /\ collector' = collector /\ domain_cursor' = domain_cursor
  BY DEF turnVars
<1>2. ASSUME NEW c \in Conns PROVE ConnectionInv(c)'
  <2>1. /\ conns[c].bytes \in Nat /\ conns'[c].bytes \in Nat
        /\ domain_cursor[c].bytes \in Nat /\ reply.list.bytes[c] \in Nat
    BY <1>1, ConnTypes DEF TypeInv, TypeOK
  <2>2. ConnGrows(c) /\ ConnectionInv(c)
    BY DEF ConnsInv
  <2> QED BY <1>1, <2>1, <2>2 DEF ConnGrows, ConnectionInv, Seen, Listed
<1> QED BY <1>1, <1>2 DEF ConnsInv

\* Each step of a turn lists only connections that are open, or none.
LEMMA TurnConns ==
  ASSUME TypeInv, ConnsInv, CollectorNext
  PROVE  \A c \in Conns : ConnGrows(c)
<1>1. conns' = conns
  BY DEF CollectorNext, CollectorKill, ReadBefore, FetchBegin, FetchEnd, FetchFails,
         FetchTotal, Record, ClockNotAdvanced, SampleFails, engineVars
<1>2. ASSUME NEW c \in Conns, Listed(c)' PROVE Listed(c) \/ conns[c].open
  <2>1. NoReply.list.ids = {} /\ NoList.ids = {}
    BY DEF NoReply, NoList
  <2>2. CASE FetchBegin
    <3>1. reply'.list.ids = {d \in Conns : conns[d].open}
      BY <2>2 DEF FetchBegin, NoList
    <3> QED BY <1>2, <3>1 DEF Listed
  <2>3. CASE FetchEnd
    <3>1. reply'.list.ids = reply.list.ids
      BY <2>3 DEF FetchEnd, TypeInv, ReplyType, ListType
    <3> QED BY <1>2, <3>1 DEF Listed
  <2>4. CASE ReadBefore
    BY <1>2, <2>4 DEF ReadBefore, Listed
  <2>5. CASE FetchTotal
    <3>1. reply'.list = NoList
      BY <2>5 DEF FetchTotal, NoReply
    <3> QED BY <1>2, <2>1, <3>1 DEF Listed
  <2>6. CASE CollectorKill \/ FetchFails \/ Record \/ ClockNotAdvanced \/ SampleFails
    <3>1. reply' = NoReply
      BY <2>6 DEF CollectorKill, FetchFails, Record, ClockNotAdvanced, SampleFails, EndTurn
    <3> QED BY <1>2, <2>1, <3>1 DEF Listed
  <2> QED BY <2>2, <2>3, <2>4, <2>5, <2>6 DEF CollectorNext
<1>3. \A c \in Conns : conns[c].bytes \in Nat
  BY ConnTypes
<1> QED BY <1>1, <1>2, <1>3 DEF ConnGrows, Listed

LEMMA TurnKeepsConns ==
  ASSUME NothingExpires, TypeInv, ConnsInv, CollectorNext, ~ Record
  PROVE  ConnsInv' /\ domain_cursor' = domain_cursor
<1>1. conns' = conns
  BY DEF CollectorNext, CollectorKill, ReadBefore, FetchBegin, FetchEnd, FetchFails,
         FetchTotal, ClockNotAdvanced, SampleFails, engineVars
<1>2. domain_cursor' = domain_cursor
  <2>1. CASE ClockNotAdvanced \/ SampleFails
    BY <2>1, PruneAloneIsIdle DEF ClockNotAdvanced, SampleFails, ledgerVars
  <2> QED BY <2>1 DEF CollectorNext, CollectorKill, ReadBefore, FetchBegin, FetchEnd,
         FetchFails, FetchTotal, ledgerVars
<1>3. /\ NoReply.list = NoList /\ NoList.ids = {} /\ NoList.listed = FALSE
  BY DEF NoReply, NoList
<1>4. ASSUME reply'.list = NoList PROVE ConnsInv'
  <2>1. ASSUME NEW c \in Conns PROVE ConnectionInv(c)'
    <3>1. ConnectionInv(c)
      BY DEF ConnsInv
    <3> QED BY <1>1, <1>2, <1>3, <1>4, <3>1 DEF ConnectionInv, Seen, Listed
  <2> QED BY <1>4, <2>1 DEF ConnsInv
<1>5. CASE CollectorKill \/ FetchFails \/ ClockNotAdvanced \/ SampleFails
  BY <1>2, <1>3, <1>4, <1>5
     DEF CollectorKill, FetchFails, ClockNotAdvanced, SampleFails, EndTurn
<1>6. CASE FetchTotal
  <2>1. reply'.list = NoList
    BY <1>6 DEF FetchTotal, NoReply
  <2> QED BY <1>2, <1>4, <2>1
<1>7. CASE ReadBefore
  <2>1. reply'.list = NoList
    BY <1>7 DEF ReadBefore, ConnsInv
  <2> QED BY <1>2, <1>4, <2>1
<1>8. CASE FetchBegin
  <2>1. /\ reply'.list.ids = {d \in Conns : conns[d].open}
        /\ collector' = "listing"
    BY <1>8 DEF FetchBegin, NoList
  <2>2. ASSUME NEW c \in Conns PROVE ConnectionInv(c)'
    <3>1. ConnectionInv(c)
      BY DEF ConnsInv
    <3>2. Listed(c)' <=> conns[c].open
      BY <2>1 DEF Listed
    <3> QED BY <1>1, <1>2, <2>1, <3>1, <3>2 DEF ConnectionInv, Seen
  <2> QED BY <1>2, <2>1, <2>2 DEF ConnsInv
<1>9. CASE FetchEnd
  <2>1. /\ reply'.list.ids = reply.list.ids
        /\ reply'.list.listed = reply.list.listed
        /\ reply'.list.bytes = [d \in Conns |-> IF d \in reply.list.ids
                                                THEN conns[d].bytes ELSE 0]
        /\ reply'.list.host = [d \in Conns |-> IF d \in reply.list.ids
                                               THEN conns[d].host ELSE IpOnly]
        /\ collector' = "after"
    BY <1>9 DEF FetchEnd, TypeInv, ReplyType, ListType
  <2>2. ASSUME NEW c \in Conns PROVE ConnectionInv(c)'
    <3>1. ConnectionInv(c)
      BY DEF ConnsInv
    <3>2. /\ Listed(c)' <=> Listed(c)
          /\ Listed(c) => /\ reply'.list.bytes[c] = conns[c].bytes
                          /\ reply'.list.host[c] = conns[c].host
      BY <2>1 DEF Listed
    <3>3. conns[c].bytes <= conns[c].bytes
      BY ConnTypes
    <3> QED BY <1>1, <1>2, <2>1, <3>1, <3>2, <3>3 DEF ConnectionInv, Seen
  <2> QED BY <1>2, <2>1, <2>2 DEF ConnsInv
<1> QED BY <1>2, <1>5, <1>6, <1>7, <1>8, <1>9 DEF CollectorNext

LEMMA RecordKeepsConns ==
  ASSUME NothingExpires, IInv, ConnsInv, Record
  PROVE  ConnsInv'
<1>1. /\ conns' = conns /\ reply' = NoReply /\ collector = "after"
  BY DEF Record, EndTurn, engineVars
<1>2. /\ NoReply.list = NoList /\ NoList.ids = {} /\ NoList.listed = FALSE
  BY DEF NoReply, NoList
<1>3. domain_cursor' = Snapshot \/ domain_cursor' = domain_cursor
  BY RecordWrites
<1>4. ASSUME NEW c \in Conns PROVE ConnectionInv(c)'
  <2>1. ConnectionInv(c) /\ ~ Listed(c)' /\ reply'.list.listed = FALSE
    BY <1>1, <1>2 DEF ConnsInv, Listed
  <2>2. CASE domain_cursor' = domain_cursor
    BY <1>1, <2>1, <2>2 DEF ConnectionInv, Seen
  <2>3. CASE domain_cursor' = Snapshot
    <3>1. Listed(c) => /\ domain_cursor'[c].host = reply.list.host[c]
                       /\ domain_cursor'[c].bytes = reply.list.bytes[c]
      BY <2>3 DEF Snapshot, Listed
    <3>2. ~ Listed(c) => domain_cursor'[c].seen = FALSE
      BY <2>3 DEF Snapshot, Listed, Unseen
    <3> QED BY <1>1, <2>1, <3>1, <3>2 DEF ConnectionInv, Seen
  <2> QED BY <1>3, <2>2, <2>3
<1> QED BY <1>1, <1>2, <1>4 DEF ConnsInv

-----------------------------------------------------------------------------
\* What may have been billed of connection c so far: what the latest snapshot saw
\* of it, everything if it is gone, nothing if it can still be billed whole.
Charge(c) ==
  IF Seen(c) THEN domain_cursor[c].bytes
  ELSE IF conns[c].open \/ Listed(c) THEN 0 ELSE conns[c].bytes

\* The part of it that may have been billed to host h.
ChargeTo(h, c) ==
  IF conns[c].host = h /\ (Seen(c) => domain_cursor[c].host = h) THEN Charge(c) ELSE 0

Named == Hosts \ {Unattributed}
Charged == SumOf([c \in Conns |-> Charge(c)])
ChargedTo(h) == SumOf([c \in Conns |-> ChargeTo(h, c)])

ChargeInv ==
  /\ \A h \in Named \ {IpOnly} : HostTotal(h) <= ChargedTo(h) + crossed
  /\ SumOf([h \in Named |-> HostTotal(h)]) <= Charged + crossed

LEMMA ChargeType ==
  ASSUME TypeInv
  PROVE  /\ [c \in Conns |-> Charge(c)] \in [Conns -> Int] /\ Charged \in Nat
         /\ \A c \in Conns : Charge(c) \in Nat
         /\ \A h : /\ [c \in Conns |-> ChargeTo(h, c)] \in [Conns -> Int]
                   /\ ChargedTo(h) \in Nat
                   /\ \A c \in Conns : ChargeTo(h, c) \in Nat
<1>1. \A c \in Conns : Charge(c) \in Nat
  BY ConnTypes DEF Charge
<1>2. \A h : \A c \in Conns : ChargeTo(h, c) \in Nat
  BY <1>1 DEF ChargeTo
<1>3. IsFiniteSet(Conns)
  BY SamplerFacts
<1>4. [c \in Conns |-> Charge(c)] \in [Conns -> Nat]
  BY <1>1
<1>5. \A h : [c \in Conns |-> ChargeTo(h, c)] \in [Conns -> Nat]
  BY <1>2
<1>6. Charged \in Nat
  BY <1>3, <1>4, SumNonnegative DEF Charged
<1>7. \A h : ChargedTo(h) \in Nat
  BY <1>3, <1>5, SumNonnegative DEF ChargedTo
<1> QED BY <1>1, <1>2, <1>4, <1>5, <1>6, <1>7

\* A step that leaves the table of connections alone takes nothing back.
LEMMA ChargesGrow ==
  ASSUME TypeInv, TypeInv', ConnsInv, UNCHANGED domain_cursor,
         \A c \in Conns : ConnGrows(c)
  PROVE  \A c \in Conns : /\ Charge(c) <= Charge(c)'
                          /\ \A h \in Named \ {IpOnly} : ChargeTo(h, c) <= ChargeTo(h, c)'
<1> SUFFICES ASSUME NEW c \in Conns
             PROVE  /\ Charge(c) <= Charge(c)'
                    /\ \A h \in Named \ {IpOnly} : ChargeTo(h, c) <= ChargeTo(h, c)'
  OBVIOUS
<1>1. /\ conns[c].bytes \in Nat /\ domain_cursor[c].bytes \in Nat
      /\ conns'[c].bytes \in Nat /\ Charge(c) \in Nat
      /\ ConnGrows(c) /\ ConnectionInv(c)
  BY ConnTypes, ChargeType DEF TypeInv, TypeOK, ConnsInv
<1>2. Seen(c)' <=> Seen(c)
  BY DEF Seen
<1>3. Charge(c)' \in Nat
  <2>1. Charge(c)' = IF Seen(c) THEN domain_cursor[c].bytes
                     ELSE IF conns'[c].open \/ Listed(c)' THEN 0 ELSE conns'[c].bytes
    BY <1>2 DEF Charge
  <2> QED BY <1>1, <2>1
<1>4. Charge(c) <= Charge(c)'
  <2>1. CASE Seen(c)
    BY <1>1, <1>2, <2>1 DEF Charge
  <2>2. CASE ~ Seen(c) /\ Charge(c) = 0
    BY <1>3, <2>2
  <2>3. CASE ~ Seen(c) /\ Charge(c) # 0
    <3>1. /\ ~ conns[c].open /\ ~ Listed(c) /\ Charge(c) = conns[c].bytes
          /\ conns[c].began # -1
      BY <1>1, <2>3 DEF Charge, ConnectionInv
    <3>2. ~ conns'[c].open /\ ~ Listed(c)' /\ conns[c].bytes <= conns'[c].bytes
      BY <1>1, <3>1 DEF ConnGrows, Listed
    <3> QED BY <1>2, <2>3, <3>1, <3>2 DEF Charge
  <2> QED BY <2>1, <2>2, <2>3
<1>5. ASSUME NEW h \in Named \ {IpOnly} PROVE ChargeTo(h, c) <= ChargeTo(h, c)'
  <2>1. CASE ChargeTo(h, c) = 0
    <3>1. ChargeTo(h, c)' \in Nat
      BY <1>3 DEF ChargeTo
    <3> QED BY <2>1, <3>1
  <2>2. CASE ChargeTo(h, c) # 0
    <3>1. /\ conns[c].host = h
          /\ Seen(c) => domain_cursor[c].host = h
          /\ ChargeTo(h, c) = Charge(c) /\ Charge(c) # 0
      BY <2>2 DEF ChargeTo
    <3>2. conns[c].began # -1
      BY <1>1, <3>1 DEF ConnectionInv, Charge
    <3>3. conns'[c].host = h
      BY <1>1, <1>5, <3>1, <3>2 DEF ConnGrows
    <3>4. ChargeTo(h, c)' = Charge(c)'
      BY <1>2, <3>1, <3>3 DEF ChargeTo
    <3> QED BY <1>4, <3>1, <3>4
  <2> QED BY <2>1, <2>2
<1> QED BY <1>4, <1>5

\* A snapshot charges what its sample billed.
LEMMA SnapshotCharges ==
  ASSUME TypeInv, TypeInv', ConnsInv, NEW at, collector = "after",
         reply.list.listed, reply' = NoReply, conns' = conns, domain_cursor' = Snapshot
  PROVE  \A c \in Conns :
           /\ Charge(c) + Bill(at, c) <= Charge(c)'
           /\ \A h \in Named \ {IpOnly} : ChargeTo(h, c) + BillTo(at, h, c) <= ChargeTo(h, c)'
<1> SUFFICES ASSUME NEW c \in Conns
             PROVE  /\ Charge(c) + Bill(at, c) <= Charge(c)'
                    /\ \A h \in Named \ {IpOnly} :
                         ChargeTo(h, c) + BillTo(at, h, c) <= ChargeTo(h, c)'
  OBVIOUS
<1>1. /\ conns[c].bytes \in Nat /\ domain_cursor[c].bytes \in Nat
      /\ reply.list.bytes[c] \in Nat
      /\ Charge(c) \in Nat /\ Bill(at, c) \in Nat /\ ConnectionInv(c)
  BY ConnTypes, ChargeType, BillType DEF ConnsInv
<1>2. ~ Listed(c)'
  BY DEF Listed, NoReply, NoList
<1>3. CASE Listed(c)
  <2>1. /\ Seen(c)' /\ domain_cursor'[c].bytes = reply.list.bytes[c]
        /\ domain_cursor'[c].host = reply.list.host[c]
    BY <1>3 DEF Snapshot, Listed, Seen
  <2>2. Charge(c)' = reply.list.bytes[c]
    BY <2>1 DEF Charge
  <2>3. Charge(c) + Bill(at, c) <= Charge(c)'
    <3>1. CASE Seen(c)
      <4>1. Charge(c) = domain_cursor[c].bytes
        BY <3>1 DEF Charge
      <4>2. /\ domain_cursor[c].bytes <= reply.list.bytes[c]
            /\ Bill(at, c) \in {0, reply.list.bytes[c] - domain_cursor[c].bytes}
        BY <1>1, <1>3, <3>1 DEF Bill, Billable, ConnectionInv, Listed, Seen
      <4> QED BY <1>1, <2>2, <4>1, <4>2
    <3>2. CASE ~ Seen(c)
      <4>1. Charge(c) = 0
        BY <1>3, <3>2 DEF Charge
      <4>2. Bill(at, c) \in {0, reply.list.bytes[c]}
        BY <3>2 DEF Bill, Billable, Seen
      <4> QED BY <1>1, <2>2, <4>1, <4>2
    <3> QED BY <3>1, <3>2
  <2>4. ASSUME NEW h \in Named \ {IpOnly}
        PROVE  ChargeTo(h, c) + BillTo(at, h, c) <= ChargeTo(h, c)'
    <3>1. CASE reply.list.host[c] = h
      <4>1. conns[c].host = h
        BY <1>1, <1>3, <2>4, <3>1 DEF ConnectionInv
      <4>2. ChargeTo(h, c)' = Charge(c)'
        BY <2>1, <3>1, <4>1 DEF ChargeTo
      <4>3. ChargeTo(h, c) \in {0, Charge(c)} /\ BillTo(at, h, c) = Bill(at, c)
        BY <3>1 DEF ChargeTo, BillTo
      <4>4. Charge(c)' \in Nat
        BY <1>1, <2>2
      <4> QED BY <1>1, <2>3, <4>2, <4>3, <4>4
    <3>2. CASE reply.list.host[c] # h
      <4>1. BillTo(at, h, c) = 0
        BY <3>2 DEF BillTo
      <4>2. ChargeTo(h, c) = 0
        <5>1. CASE Seen(c)
          BY <1>1, <1>3, <2>4, <3>2, <5>1 DEF ConnectionInv, ChargeTo
        <5>2. CASE ~ Seen(c)
          BY <1>3, <5>2 DEF Charge, ChargeTo
        <5> QED BY <5>1, <5>2
      <4>3. ChargeTo(h, c)' \in Nat
        BY <1>1, <2>2 DEF ChargeTo
      <4> QED BY <4>1, <4>2, <4>3
    <3> QED BY <3>1, <3>2
  <2> QED BY <2>3, <2>4
<1>4. CASE ~ Listed(c)
  <2>1. ~ Seen(c)'
    BY <1>4 DEF Snapshot, Listed, Seen, Unseen
  <2>2. Charge(c)' = IF conns[c].open THEN 0 ELSE conns[c].bytes
    BY <1>2, <2>1 DEF Charge
  <2>3. Bill(at, c) = 0 /\ \A h : BillTo(at, h, c) = 0
    BY <1>4 DEF Bill, BillTo, Listed
  <2>4. Charge(c) <= Charge(c)'
    <3>1. CASE Seen(c)
      <4>1. ~ conns[c].open /\ domain_cursor[c].bytes <= conns[c].bytes
        BY <1>1, <1>4, <3>1 DEF ConnectionInv
      <4> QED BY <2>2, <3>1, <4>1 DEF Charge
    <3>2. CASE ~ Seen(c)
      <4>1. Charge(c) = Charge(c)'
        BY <1>4, <2>2, <3>2 DEF Charge
      <4> QED BY <1>1, <4>1
    <3> QED BY <3>1, <3>2
  <2>5. \A h : ChargeTo(h, c) <= ChargeTo(h, c)'
    <3> TAKE h
    <3>1. ChargeTo(h, c)' = IF conns[c].host = h THEN Charge(c)' ELSE 0
      BY <2>1 DEF ChargeTo
    <3>2. Charge(c)' \in Nat
      BY <1>1, <2>2
    <3>3. ChargeTo(h, c) = 0 \/ (ChargeTo(h, c) = Charge(c) /\ conns[c].host = h)
      BY DEF ChargeTo
    <3>4. conns[c].host # h => ChargeTo(h, c) = 0
      BY DEF ChargeTo
    <3> QED BY <2>4, <3>1, <3>2, <3>3, <3>4
  <2>6. Charge(c)' \in Nat
    BY <1>1, <2>2
  <2>7. \A h : ChargeTo(h, c) \in Nat /\ ChargeTo(h, c)' \in Nat
    BY <1>1, <2>6 DEF ChargeTo
  <2>8. Charge(c) + Bill(at, c) <= Charge(c)'
    BY <1>1, <2>3, <2>4
  <2>9. \A h : ChargeTo(h, c) + BillTo(at, h, c) <= ChargeTo(h, c)'
    <3> TAKE h
    <3>1. ChargeTo(h, c) \in Nat /\ BillTo(at, h, c) = 0
      BY <2>3, <2>7
    <3> QED BY <2>5, <3>1
  <2> QED BY <2>8, <2>9
<1> QED BY <1>3, <1>4

-----------------------------------------------------------------------------
LEMMA HostTotalType ==
  ASSUME TypeInv
  PROVE  /\ \A h \in Hosts : HostTotal(h) \in Nat
         /\ IsFiniteSet(Named) /\ Named \in SUBSET Hosts
         /\ SumOf([h \in Named |-> HostTotal(h)]) \in Nat
<1>1. domain_buckets \in [Starts -> [Hosts -> Nat]]
  BY DEF TypeInv, TypeOK
<1>2. ASSUME NEW h \in Hosts PROVE HostTotal(h) \in Nat
  <2> DEFINE f == [s \in Starts |-> domain_buckets[s][h]]
  <2>1. f \in [Starts -> Nat] /\ IsFiniteSet(Starts)
    BY <1>1, BucketFacts
  <2>2. HostTotal(h) = SumOf(f)
    BY DEF HostTotal
  <2> HIDE DEF f
  <2> QED BY <2>1, <2>2, SumNonnegative
<1>3. IsFiniteSet(Named) /\ Named \in SUBSET Hosts
  BY HostFacts, FS_Subset DEF Named
<1>4. [h \in Named |-> HostTotal(h)] \in [Named -> Nat]
  BY <1>2, <1>3
<1> QED BY <1>2, <1>3, <1>4, SumNonnegative

LEMMA HostTotalAdded ==
  ASSUME TypeInv, NEW at \in Times, domain_state.at \in Times, domain_state.at < at,
         NEW budget \in Nat, domain_buckets' = DomainAdded(at, budget), NEW h \in Hosts
  PROVE  HostTotal(h)' = HostTotal(h) + SumOf(Given(at, budget, h))
<1> DEFINE f == [s \in Starts |-> domain_buckets[s][h]]
           g == [s \in Starts |-> domain_buckets'[s][h]]
           d == Given(at, budget, h)
<1>1. domain_buckets \in [Starts -> [Hosts -> Nat]] /\ IsFiniteSet(Starts)
  BY BucketFacts DEF TypeInv, TypeOK
<1>2. domain_buckets' \in [Starts -> [Hosts -> Nat]]
  BY DomainAddedFacts
<1>3. d \in [Starts -> Int]
  BY GivenType
<1>4. f \in [Starts -> Int] /\ g \in [Starts -> Int]
  BY <1>1, <1>2
<1>5. \A s \in Starts : g[s] = f[s] + d[s]
  BY DomainAddedFacts DEF Given
<1>6. HostTotal(h) = SumOf(f) /\ HostTotal(h)' = SumOf(g)
  BY DEF HostTotal
<1> HIDE DEF f, g, d
<1>7. SumOf(g) = SumOf(f) + SumOf(d)
  BY <1>1, <1>3, <1>4, <1>5, SumAdd
<1> QED BY <1>6, <1>7 DEF d

LEMMA ChargeStep ==
  ASSUME TypeInv, TypeInv', ConnsInv, ChargeInv, UNCHANGED <<domain_cursor, domain_buckets, crossed>>,
         \A c \in Conns : ConnGrows(c)
  PROVE  ChargeInv'
<1>1. IsFiniteSet(Conns)
  BY SamplerFacts
<1>2. /\ \A h : [c \in Conns |-> ChargeTo(h, c)] \in [Conns -> Int]
      /\ [c \in Conns |-> Charge(c)] \in [Conns -> Int]
      /\ Charged \in Nat /\ \A h : ChargedTo(h) \in Nat
  BY ChargeType
<1>3. /\ \A h : [c \in Conns |-> ChargeTo(h, c)'] \in [Conns -> Int]
      /\ [c \in Conns |-> Charge(c)'] \in [Conns -> Int]
      /\ Charged' = SumOf([c \in Conns |-> Charge(c)'])
      /\ \A h : ChargedTo(h)' = SumOf([c \in Conns |-> ChargeTo(h, c)'])
  <2>1. \A c \in Conns : Charge(c)' \in Int /\ \A h : ChargeTo(h, c)' \in Int
    <3>1. \A c \in Conns : conns'[c].bytes \in Int /\ domain_cursor'[c].bytes \in Int
      BY DEF TypeInv, TypeOK
    <3> QED BY <3>1 DEF Charge, ChargeTo
  <2> QED BY <2>1 DEF Charged, ChargedTo
<1>4. \A c \in Conns : /\ Charge(c) <= Charge(c)'
                       /\ \A h \in Named \ {IpOnly} : ChargeTo(h, c) <= ChargeTo(h, c)'
  BY ChargesGrow
<1>5. Charged <= Charged' /\ Charged' \in Int
  <2> DEFINE f == [c \in Conns |-> Charge(c)]
             g == [c \in Conns |-> Charge(c)']
  <2>1. \A c \in Conns : f[c] <= g[c]
    BY <1>4
  <2>2. /\ f \in [Conns -> Int] /\ g \in [Conns -> Int]
        /\ Charged = SumOf(f) /\ Charged' = SumOf(g)
    BY <1>2, <1>3 DEF Charged
  <2> HIDE DEF f, g
  <2> QED BY <1>1, <2>1, <2>2, SumMonotone, SumType
<1>6. ASSUME NEW h \in Named \ {IpOnly}
      PROVE  ChargedTo(h) <= ChargedTo(h)' /\ ChargedTo(h)' \in Int
  <2> DEFINE f == [c \in Conns |-> ChargeTo(h, c)]
             g == [c \in Conns |-> ChargeTo(h, c)']
  <2>1. \A c \in Conns : f[c] <= g[c]
    BY <1>4
  <2>2. /\ f \in [Conns -> Int] /\ g \in [Conns -> Int]
        /\ ChargedTo(h) = SumOf(f) /\ ChargedTo(h)' = SumOf(g)
    BY <1>2, <1>3 DEF ChargedTo
  <2> HIDE DEF f, g
  <2> QED BY <1>1, <2>1, <2>2, SumMonotone, SumType
<1>7. /\ \A h : HostTotal(h)' = HostTotal(h)
      /\ SumOf([h \in Named |-> HostTotal(h)])' = SumOf([h \in Named |-> HostTotal(h)])
      /\ crossed' = crossed /\ crossed \in Nat
  BY DEF HostTotal, TypeInv, TypeOK
<1>8. /\ \A h \in Named : HostTotal(h) \in Nat
      /\ SumOf([h \in Named |-> HostTotal(h)]) \in Nat
  BY HostTotalType
<1>9. ASSUME NEW h \in Named \ {IpOnly} PROVE HostTotal(h)' <= ChargedTo(h)' + crossed'
  <2>1. HostTotal(h) <= ChargedTo(h) + crossed
    BY DEF ChargeInv
  <2> QED BY <1>2, <1>6, <1>7, <1>8, <2>1
<1>10. SumOf([h \in Named |-> HostTotal(h)])' <= Charged' + crossed'
  <2> DEFINE T == SumOf([h \in Named |-> HostTotal(h)])
  <2>1. T <= Charged + crossed
    BY DEF ChargeInv
  <2>2. /\ T' = T /\ T \in Nat /\ Charged \in Nat /\ crossed' = crossed /\ crossed \in Nat
    BY <1>2, <1>7, <1>8
  <2> HIDE DEF T
  <2>3. PICK q \in Int : q = Charged'
    BY <1>5
  <2>4. Charged <= q
    BY <1>5, <2>3
  <2>5. T' <= q + crossed'
    BY <2>1, <2>2, <2>4
  <2> QED BY <2>3, <2>5 DEF T
<1> QED BY <1>9, <1>10 DEF ChargeInv

LEMMA ChargeRecorded ==
  ASSUME NothingExpires, IInv, TypeInv', ConnsInv, ChargeInv, Record,
         reply.list.listed, domain_state.at < Unix(now)
  PROVE  ChargeInv'
<1> DEFINE at == Unix(now)
           budget == Delta(domain_state)
           first == domain_state.at = -1
           k == Cardinality(Overlapped(Span(domain_state, at)))
           bill == SumOf([c \in Conns |-> Bill(at, c)])
           billTo(h) == SumOf([c \in Conns |-> BillTo(at, h, c)])
           T == SumOf([h \in Named |-> HostTotal(h)])
<1>1. /\ TypeInv /\ at \in Times /\ domain_cursor' = Snapshot
      /\ domain_buckets' = IF first THEN domain_buckets ELSE DomainAdded(at, budget)
      /\ crossed' = IF first THEN crossed ELSE crossed + k - 1
      /\ domain_state.at < at
  BY RecordWrites DEF IInv
<1>2. /\ collector = "after" /\ reply' = NoReply /\ conns' = conns
  BY DEF Record, EndTurn, engineVars
<1>3. \A c \in Conns :
        /\ Charge(c) + Bill(at, c) <= Charge(c)'
        /\ \A h \in Named \ {IpOnly} : ChargeTo(h, c) + BillTo(at, h, c) <= ChargeTo(h, c)'
  BY <1>1, <1>2, SnapshotCharges
<1>4. /\ \A h : \A c \in Conns : /\ ChargeTo(h, c) \in Nat /\ BillTo(at, h, c) \in Nat
                                 /\ ChargeTo(h, c)' \in Int
      /\ \A c \in Conns : Charge(c) \in Nat /\ Bill(at, c) \in Nat /\ Charge(c)' \in Int
  <2>1. \A c \in Conns : conns'[c].bytes \in Int /\ domain_cursor'[c].bytes \in Int
    BY DEF TypeInv, TypeOK
  <2>2. \A c \in Conns : Charge(c)' \in Int /\ \A h : ChargeTo(h, c)' \in Int
    BY <2>1 DEF Charge, ChargeTo
  <2>3. \A c \in Conns : Charge(c) \in Nat /\ \A h : ChargeTo(h, c) \in Nat
    BY <1>1, ChargeType
  <2>4. \A c \in Conns : Bill(at, c) \in Nat /\ \A h : BillTo(at, h, c) \in Nat
    BY <1>1, BillType
  <2> HIDE DEF at
  <2> QED BY <2>2, <2>3, <2>4
<1>5. IsFiniteSet(Conns)
  BY SamplerFacts
<1>6. /\ Charged + bill <= Charged' /\ bill \in Nat /\ Charged \in Nat /\ Charged' \in Int
  <2> DEFINE f == [c \in Conns |-> Charge(c)]
             b == [c \in Conns |-> Bill(at, c)]
             e == [c \in Conns |-> Charge(c) + Bill(at, c)]
             g == [c \in Conns |-> Charge(c)']
  <2>1. /\ f \in [Conns -> Int] /\ b \in [Conns -> Int] /\ e \in [Conns -> Int]
        /\ g \in [Conns -> Int] /\ b \in [Conns -> Nat]
        /\ \A c \in Conns : e[c] = f[c] + b[c] /\ e[c] <= g[c]
    BY <1>3, <1>4
  <2>2. Charged = SumOf(f) /\ bill = SumOf(b) /\ Charged' = SumOf(g) /\ Charged \in Nat
    BY <1>1, ChargeType DEF Charged
  <2> HIDE DEF f, b, e, g, bill
  <2>3. SumOf(e) = SumOf(f) + SumOf(b) /\ SumOf(e) <= SumOf(g)
    BY <1>5, <2>1, SumAdd, SumMonotone
  <2>4. SumOf(b) \in Nat /\ SumOf(g) \in Int
    BY <1>5, <2>1, SumNonnegative, SumType
  <2> QED BY <2>2, <2>3, <2>4
<1>7. ASSUME NEW h \in Named \ {IpOnly}
      PROVE  /\ ChargedTo(h) + billTo(h) <= ChargedTo(h)'
             /\ billTo(h) \in Nat /\ ChargedTo(h) \in Nat /\ ChargedTo(h)' \in Int
  <2> DEFINE f == [c \in Conns |-> ChargeTo(h, c)]
             b == [c \in Conns |-> BillTo(at, h, c)]
             e == [c \in Conns |-> ChargeTo(h, c) + BillTo(at, h, c)]
             g == [c \in Conns |-> ChargeTo(h, c)']
  <2>1. /\ f \in [Conns -> Int] /\ b \in [Conns -> Int] /\ e \in [Conns -> Int]
        /\ g \in [Conns -> Int] /\ b \in [Conns -> Nat]
        /\ \A c \in Conns : e[c] = f[c] + b[c] /\ e[c] <= g[c]
    BY <1>3, <1>4
  <2>2. /\ ChargedTo(h) = SumOf(f) /\ billTo(h) = SumOf(b)
        /\ ChargedTo(h)' = SumOf(g) /\ ChargedTo(h) \in Nat
    BY <1>1, ChargeType DEF ChargedTo
  <2> HIDE DEF f, b, e, g, billTo
  <2>3. SumOf(e) = SumOf(f) + SumOf(b) /\ SumOf(e) <= SumOf(g)
    BY <1>5, <2>1, SumAdd, SumMonotone
  <2>4. SumOf(b) \in Nat /\ SumOf(g) \in Int
    BY <1>5, <2>1, SumNonnegative, SumType
  <2> QED BY <2>2, <2>3, <2>4
<1>8. /\ \A h \in Hosts : HostTotal(h) \in Nat
      /\ IsFiniteSet(Named) /\ Named \in SUBSET Hosts /\ T \in Nat /\ crossed \in Nat
  BY <1>1, HostTotalType DEF TypeInv, TypeOK
<1>9. /\ \A h \in Named \ {IpOnly} : HostTotal(h) <= ChargedTo(h) + crossed
      /\ T <= Charged + crossed
  BY DEF ChargeInv
<1>10. ASSUME \A h \in Named \ {IpOnly} :
                HostTotal(h)' <= HostTotal(h) + billTo(h) + (crossed' - crossed),
              T' <= T + bill + (crossed' - crossed), T' \in Int, crossed' \in Nat,
              \A h \in Named : HostTotal(h)' \in Int
       PROVE  ChargeInv'
  <2>1. ASSUME NEW h \in Named \ {IpOnly} PROVE HostTotal(h)' <= ChargedTo(h)' + crossed'
    <3>1. /\ HostTotal(h)' <= HostTotal(h) + billTo(h) + (crossed' - crossed)
          /\ HostTotal(h)' \in Int /\ HostTotal(h) \in Nat
          /\ HostTotal(h) <= ChargedTo(h) + crossed
      BY <1>8, <1>9, <1>10
    <3> HIDE DEF billTo
    <3> QED BY <1>7, <1>8, <1>10, <3>1
  <2>2. T' <= Charged' + crossed'
    <3>1. /\ T' <= T + bill + (crossed' - crossed) /\ T' \in Int /\ crossed' \in Nat
          /\ T \in Nat /\ crossed \in Nat /\ T <= Charged + crossed
      BY <1>8, <1>9, <1>10
    <3>2. PICK q \in Int : q = Charged'
      BY <1>6
    <3> HIDE DEF T, bill, billTo
    <3>3. Charged + bill <= q /\ bill \in Nat /\ Charged \in Nat
      BY <1>6, <3>2
    <3>4. ASSUME NEW t \in Int, NEW o \in Nat, NEW n \in Nat, NEW a \in Nat,
                 NEW b \in Nat, NEW e \in Nat,
                 t <= a + b + (n - o), a <= e + o, e + b <= q
          PROVE  t <= q + n
      BY <3>4
    <3>5. T' <= q + crossed'
      BY <3>1, <3>3, <3>4
    <3> QED BY <3>2, <3>5
  <2> QED BY <2>1, <2>2 DEF ChargeInv
<1>11. CASE first
  <2>1. /\ \A h : HostTotal(h)' = HostTotal(h)
        /\ T' = T /\ crossed' = crossed
    BY <1>1, <1>11 DEF HostTotal
  <2>2. ASSUME NEW h \in Named \ {IpOnly}
        PROVE  HostTotal(h)' <= HostTotal(h) + billTo(h) + (crossed' - crossed)
    <3>1. HostTotal(h) \in Nat
      BY <1>8
    <3> HIDE DEF billTo
    <3> QED BY <1>7, <1>8, <2>1, <3>1
  <2>3. T' <= T + bill + (crossed' - crossed) /\ T' \in Int /\ crossed' \in Nat
    <3> HIDE DEF T, bill
    <3> QED BY <1>6, <1>8, <2>1
  <2>4. \A h \in Named : HostTotal(h)' \in Int
    BY <1>8, <2>1
  <2> QED BY <1>10, <2>2, <2>3, <2>4
<1>12. CASE ~ first
  <2>1. domain_state.at \in Times /\ Cutoff(at) = 0 /\ budget \in Nat
    <3>1. /\ domain_state \in SampleType /\ ReplyType
          /\ domain_state.at \in Times \cup {-1}
      BY <1>1 DEF TypeInv, TypeOK, SampleType
    <3>2. Cutoff(at) = 0
      <4> HIDE DEF Cutoff, at
      <4> QED BY <1>1 DEF NothingExpires
    <3> HIDE DEF Cutoff, at
    <3> QED BY <1>12, <3>1, <3>2, DeltaType
  <2> DEFINE given == [h \in Named |-> SumOf(Given(at, budget, h))]
  <2>2. /\ k \in Nat \ {0}
        /\ \A h \in Named : given[h] <= Used(at)[h] + k - 1
        /\ SumOf(given) <= SumOf(Used(at)) + k - 1
    <3> HIDE DEF Cutoff, at, budget
    <3> QED BY <1>1, <2>1, NamedGrowth DEF Named
  <2>3. /\ \A h \in Hosts : Used(at)[h] <= billTo(h)
        /\ SumOf(Used(at)) <= bill
        /\ \A h \in Hosts : Used(at)[h] \in Nat
        /\ SumOf(Used(at)) \in Nat
    <3>1. Used(at) \in [Hosts -> Nat]
      BY <1>1, UsedFacts
    <3>2. SumOf(Used(at)) \in Nat
      BY <3>1, HostFacts, SumNonnegative
    <3> HIDE DEF at
    <3> QED BY <1>1, <3>1, <3>2, UsedByConnection
  <2>4. \A h \in Hosts : SumOf(Given(at, budget, h)) \in Nat
    <3> HIDE DEF at, budget
    <3> QED BY <1>1, <2>1, GivenType
  <2>5. /\ \A h \in Hosts : HostTotal(h)' = HostTotal(h) + SumOf(Given(at, budget, h))
        /\ crossed' = crossed + k - 1
    <3>1. domain_buckets' = DomainAdded(at, budget) /\ crossed' = crossed + k - 1
      BY <1>1, <1>12
    <3>2. \A h \in Hosts : HostTotal(h)' = HostTotal(h) + SumOf(Given(at, budget, h))
      <4> HIDE DEF at, budget
      <4> QED BY <1>1, <2>1, <3>1, HostTotalAdded
    <3> QED BY <3>1, <3>2
  <2>6. ASSUME NEW h \in Named \ {IpOnly}
        PROVE  HostTotal(h)' <= HostTotal(h) + billTo(h) + (crossed' - crossed)
    <3>1. /\ given[h] <= Used(at)[h] + k - 1 /\ given[h] \in Nat
          /\ Used(at)[h] <= billTo(h) /\ Used(at)[h] \in Nat
          /\ HostTotal(h)' = HostTotal(h) + given[h] /\ HostTotal(h) \in Nat
      BY <1>8, <2>2, <2>3, <2>4, <2>5
    <3> HIDE DEF given, k, billTo, at
    <3> QED BY <1>7, <1>8, <2>2, <2>5, <3>1
  <2>7. T' = T + SumOf(given) /\ SumOf(given) \in Int
    <3> DEFINE f == [h \in Named |-> HostTotal(h)]
               g == [h \in Named |-> HostTotal(h)']
    <3>1. /\ f \in [Named -> Int] /\ g \in [Named -> Int] /\ given \in [Named -> Int]
          /\ \A h \in Named : g[h] = f[h] + given[h]
      BY <1>8, <2>4, <2>5
    <3>2. T = SumOf(f) /\ T' = SumOf(g)
      OBVIOUS
    <3> HIDE DEF f, g, given, T
    <3> QED BY <1>8, <3>1, <3>2, SumAdd, SumType
  <2>8. T' <= T + bill + (crossed' - crossed) /\ T' \in Int /\ crossed' \in Nat
    <3> HIDE DEF T, bill, given, k, at
    <3> QED BY <1>6, <1>8, <2>2, <2>3, <2>5, <2>7
  <2>9. \A h \in Named : HostTotal(h)' \in Int
    BY <1>8, <2>4, <2>5
  <2> QED BY <1>10, <2>6, <2>8, <2>9
<1> QED BY <1>11, <1>12

LEMMA HostsStayBelowUsage ==
  ASSUME IInv, ConnsInv, ChargeInv PROVE DomainBilledWithinUsage
<1> DEFINE of(h) == {c \in Conns : conns[c].host = h}
           passed(S) == SumOf([c \in S |-> conns[c].bytes])
<1>1. /\ TypeInv /\ IsFiniteSet(Conns)
      /\ \A c \in Conns : conns[c].bytes \in Nat /\ ConnectionInv(c)
      /\ crossed \in Nat
  BY SamplerFacts, ConnTypes DEF IInv, TypeInv, TypeOK, ConnsInv
<1>2. /\ \A c \in Conns : Charge(c) \in Nat /\ \A h : ChargeTo(h, c) \in Nat
      /\ [c \in Conns |-> Charge(c)] \in [Conns -> Int]
      /\ \A h : [c \in Conns |-> ChargeTo(h, c)] \in [Conns -> Int]
      /\ Charged \in Nat /\ \A h : ChargedTo(h) \in Nat
  BY <1>1, ChargeType
<1>3. \A c \in Conns : Charge(c) <= conns[c].bytes
  BY <1>1 DEF ConnectionInv, Charge
<1>4. Charged <= passed(Conns) /\ passed(Conns) \in Int
  <2> DEFINE f == [c \in Conns |-> Charge(c)]
             g == [c \in Conns |-> conns[c].bytes]
  <2>1. /\ f \in [Conns -> Int] /\ g \in [Conns -> Int]
        /\ \A c \in Conns : f[c] <= g[c]
        /\ Charged = SumOf(f) /\ passed(Conns) = SumOf(g)
    BY <1>1, <1>2, <1>3 DEF Charged
  <2> HIDE DEF f, g, passed
  <2> QED BY <1>1, <2>1, SumMonotone, SumType
<1>5. ASSUME NEW h PROVE ChargedTo(h) <= passed(of(h)) /\ passed(of(h)) \in Int
  <2> DEFINE f == [c \in Conns |-> ChargeTo(h, c)]
             g == [c \in Conns |-> IF conns[c].host = h THEN conns[c].bytes ELSE 0]
             p == [c \in of(h) |-> conns[c].bytes]
  <2>1. /\ f \in [Conns -> Int] /\ g \in [Conns -> Int]
        /\ ChargedTo(h) = SumOf(f) /\ passed(of(h)) = SumOf(p)
    BY <1>1, <1>2 DEF ChargedTo
  <2>2. \A c \in Conns : f[c] <= g[c]
    BY <1>1, <1>3 DEF ChargeTo
  <2>3. /\ of(h) \in SUBSET Conns /\ p \in [of(h) -> Int]
        /\ \A c \in of(h) : g[c] = p[c]
        /\ \A c \in Conns \ of(h) : g[c] = 0
    BY <1>1
  <2>4. IsFiniteSet(of(h))
    <3> HIDE DEF of
    <3> QED BY <1>1, <2>3, FS_Subset
  <2> HIDE DEF f, g, p, of, passed
  <2>5. SumOf(g) = SumOf(p)
    <3>1. IsFiniteSet(Conns)
      BY <1>1
    <3> QED BY <2>1, <2>3, <3>1, SumExtend
  <2>6. SumOf(p) \in Int
    BY <2>3, <2>4, SumType
  <2>7. SumOf(f) <= SumOf(g)
    BY <1>1, <2>1, <2>2, SumMonotone
  <2> QED BY <2>1, <2>5, <2>6, <2>7
<1>6. /\ \A h \in Hosts : HostTotal(h) \in Nat
      /\ SumOf([h \in Named |-> HostTotal(h)]) \in Nat
  BY <1>1, HostTotalType
<1> DEFINE T == SumOf([h \in Named |-> HostTotal(h)])
<1>7. T <= passed(Conns) + crossed
  <2>1. T <= Charged + crossed /\ T \in Nat
    BY <1>6 DEF ChargeInv
  <2> HIDE DEF T, passed
  <2> QED BY <1>1, <1>2, <1>4, <2>1
<1>8. ASSUME NEW h \in Named \ {IpOnly} PROVE HostTotal(h) <= passed(of(h)) + crossed
  <2>1. HostTotal(h) <= ChargedTo(h) + crossed /\ HostTotal(h) \in Nat
    BY <1>6 DEF ChargeInv, Named
  <2> HIDE DEF passed, of
  <2> QED BY <1>1, <1>2, <1>5, <2>1
<1>9. \A h \in Hosts \ {Unattributed, IpOnly} :
        [g \in Hosts \ {Unattributed} |-> HostTotal(g)][h] <= passed(of(h)) + crossed
  <2> TAKE h \in Hosts \ {Unattributed, IpOnly}
  <2>1. h \in Named \ {IpOnly} /\ h \in Hosts \ {Unattributed}
    BY DEF Named
  <2>2. HostTotal(h) <= passed(of(h)) + crossed
    BY <1>8, <2>1
  <2> HIDE DEF passed, of
  <2> QED BY <2>1, <2>2
<1> QED BY <1>7, <1>9 DEF DomainBilledWithinUsage, Named

-----------------------------------------------------------------------------
BoundsInv == LedgerInv /\ HostsInv /\ ConnsInv /\ ChargeInv

LEMMA BoundsInit == Init => BoundsInv
<1> SUFFICES ASSUME Init PROVE BoundsInv
  OBVIOUS
<1>1. LedgerInv
  BY LedgerInit
<1>2. /\ collector = "before" /\ reply = NoReply
      /\ domain_state = NoCursor /\ fellBack = FALSE /\ crossed = 0
      /\ conns = [c \in Conns |-> Unopened] /\ domain_cursor = [c \in Conns |-> Unseen]
      /\ buckets = [s \in Starts |-> EmptyRow]
      /\ domain_buckets = [s \in Starts |-> [h \in Hosts |-> 0]]
  BY DEF Init
<1>3. TypeInv
  BY InitTypes
<1>4. ConnsInv
  BY <1>2 DEF ConnsInv, ConnectionInv, Seen, Listed, Unopened, Unseen, NoReply, NoList
<1>5. HostsInv
  <2>1. ASSUME NEW s \in Starts PROVE SumOf(domain_buckets[s]) = buckets[s].bytes
    <3>1. /\ domain_buckets[s] \in [Hosts -> Int]
          /\ \A h \in Hosts : domain_buckets[s][h] = 0
          /\ buckets[s].bytes = 0
      BY <1>2 DEF EmptyRow
    <3> QED BY <3>1, HostFacts, SumZero
  <2> QED BY <1>2, <2>1 DEF HostsInv, NoCursor
<1>6. ChargeInv
  <2>1. ASSUME NEW h \in Hosts PROVE HostTotal(h) = 0
    <3> DEFINE f == [s \in Starts |-> domain_buckets[s][h]]
    <3>1. f \in [Starts -> Int] /\ IsFiniteSet(Starts) /\ \A s \in Starts : f[s] = 0
      BY <1>2, BucketFacts
    <3>2. HostTotal(h) = SumOf(f)
      BY DEF HostTotal
    <3> HIDE DEF f
    <3> QED BY <3>1, <3>2, SumZero
  <2>2. SumOf([h \in Named |-> HostTotal(h)]) = 0
    <3> DEFINE f == [h \in Named |-> HostTotal(h)]
    <3>1. IsFiniteSet(Named) /\ Named \in SUBSET Hosts
      BY <1>3, HostTotalType
    <3>2. f \in [Named -> Int] /\ \A h \in Named : f[h] = 0
      BY <2>1, <3>1
    <3> HIDE DEF f
    <3>3. SumOf(f) = 0
      BY <3>1, <3>2, SumZero
    <3> QED BY <3>3 DEF f
  <2>3. Charged \in Nat /\ \A h : ChargedTo(h) \in Nat
    BY <1>3, ChargeType
  <2>4. \A h \in Named \ {IpOnly} : HostTotal(h) <= ChargedTo(h) + crossed
    <3> TAKE h \in Named \ {IpOnly}
    <3>1. HostTotal(h) = 0
      BY <2>1 DEF Named
    <3> QED BY <1>2, <2>3, <3>1
  <2>5. 0 <= Charged + crossed
    BY <1>2, <2>3
  <2> QED BY <2>2, <2>4, <2>5 DEF ChargeInv
<1> QED BY <1>1, <1>4, <1>5, <1>6 DEF BoundsInv

LEMMA BoundsStep ==
  ASSUME NothingExpires, BoundsInv, [Next]_vars PROVE BoundsInv'
<1>1. LedgerInv' /\ LedgerInv /\ IInv /\ TypeInv /\ TypeInv' /\ ConnsInv
  BY LedgerStep DEF BoundsInv, LedgerInv, IInv
<1>2. HostsInv'
  <2>1. CASE Record
    BY <2>1, HostsStep DEF BoundsInv
  <2>2. CASE UNCHANGED <<ledgerVars, historyVars>>
    BY <2>2 DEF BoundsInv, HostsInv, TotalsOf, Pending, Column, ledgerVars, historyVars
  <2> QED BY <1>1, <2>1, <2>2, OnlyRecordWrites
<1>3. \A c \in Conns : ConnGrows(c)
  <2>1. CASE EngineNext
    BY <1>1, <2>1, EngineConns
  <2>2. CASE CollectorNext
    BY <1>1, <2>2, TurnConns
  <2>3. CASE Tick \/ UNCHANGED vars
    <3>1. conns' = conns /\ reply' = reply
      BY <2>3 DEF Tick, vars, engineVars, turnVars
    <3>2. \A c \in Conns : conns[c].bytes \in Nat
      BY <1>1, ConnTypes
    <3> QED BY <3>1, <3>2 DEF ConnGrows, Listed
  <2> QED BY <2>1, <2>2, <2>3 DEF Next
<1>4. ConnsInv'
  <2>1. CASE EngineNext \/ Tick \/ UNCHANGED vars
    <3>1. UNCHANGED turnVars /\ UNCHANGED domain_cursor
      BY <2>1 DEF EngineNext, Start, Die, Open, Sniff, Relay, Close, Tick, vars, ledgerVars
    <3> QED BY <1>1, <1>3, <3>1, EngineKeepsConns
  <2>2. CASE Record
    BY <1>1, <2>2, RecordKeepsConns
  <2>3. CASE CollectorNext /\ ~ Record
    BY <1>1, <2>3, TurnKeepsConns
  <2> QED BY <2>1, <2>2, <2>3 DEF Next
<1>5. ChargeInv'
  <2>1. CASE Record /\ reply.list.listed /\ domain_state.at < Unix(now)
    BY <1>1, <2>1, ChargeRecorded DEF BoundsInv
  <2>2. CASE ~ (Record /\ reply.list.listed /\ domain_state.at < Unix(now))
    <3>1. UNCHANGED <<domain_cursor, domain_buckets, crossed>>
      <4>1. CASE Record
        BY <1>1, <2>2, <4>1, RecordWrites
      <4>2. CASE UNCHANGED <<ledgerVars, historyVars>>
        BY <4>2 DEF ledgerVars, historyVars
      <4> QED BY <1>1, <4>1, <4>2, OnlyRecordWrites
    <3> QED BY <1>1, <1>3, <3>1, ChargeStep DEF BoundsInv
  <2> QED BY <2>1, <2>2
<1> QED BY <1>1, <1>2, <1>4, <1>5 DEF BoundsInv

\* While the horizon expires nothing: over all buckets the hosts never hold more
\* than the gateway, and hold exactly the gateway's bytes of every bucket while
\* each sample had its connections; a host never holds more than its connections
\* passed, nor all named hosts more than all connections, but for one byte at
\* each bucket boundary inside a recorded interval.  For any number of hosts,
\* connections, bytes, restarts, failed requests and kills.
THEOREM HostsAreBounded ==
  ASSUME NothingExpires PROVE Spec => []DomainsAreBounded
<1>1. BoundsInv /\ [Next]_vars => BoundsInv'
  BY BoundsStep
<1>2. BoundsInv => DomainsAreBounded
  BY HostsStayWithin, HostsStayBelowUsage
     DEF BoundsInv, LedgerInv, DomainsAreBounded
<1> QED BY BoundsInit, <1>1, <1>2, PTL DEF Spec
=============================================================================
