-------------------------- MODULE TextStagesProofs --------------------------
(***************************************************************************)
(* Proofs about Substitution and Redaction, for any characters and texts of*)
(* any length.  Both go over a text from left to right.  What such a pass   *)
(* does to a text is what it does to a first part and then to the rest as a *)
(* text of its own, and what holds of all texts is shown for a shortest one *)
(* that it could fail for.                                                 *)
(***************************************************************************)
EXTENDS Substitution, Redaction, NaturalsInduction, WellFoundedInduction,
        FiniteSetTheorems, FunctionTheorems, TLAPS

-----------------------------------------------------------------------------
(***************************************************************************)
(* Smallest counterexamples.                                               *)
(***************************************************************************)
LEMMA SmallestNumber ==
  ASSUME NEW C \in SUBSET Nat, C # {}
  PROVE  \E n \in C : \A m \in C : n <= m
<1>1. PICK n \in C : \A m \in C : ~ (<<m, n>> \in OpToRel(<, Nat))
  BY NatLessThanWellFounded, WFMin
<1>2. \A m \in C : m < n => <<m, n>> \in OpToRel(<, Nat)
  BY DEF OpToRel
<1>3. \A m \in C : ~ (m < n)
  <2> HIDE DEF OpToRel
  <2> QED BY <1>1, <1>2
<1> QED BY <1>3

\* A set of places of a text has a last one.
LEMMA LastPlace ==
  ASSUME NEW n \in Nat, NEW C \in SUBSET (1 .. n), C # {}
  PROVE  \E i \in C : \A j \in C : j <= i
<1> DEFINE D == {d \in Nat : n - d \in C}
<1>1. \A i \in C : i \in Int /\ n - i \in Nat /\ n - (n - i) = i
  OBVIOUS
<1>2. D \in SUBSET Nat /\ D # {} /\ \A i \in C : n - i \in D
  BY <1>1
<1>3. PICK d \in D : \A e \in D : d <= e
  <2> HIDE DEF D
  <2> QED BY <1>2, SmallestNumber
<1>4. n - d \in C /\ d \in Nat
  OBVIOUS
<1>5. \A i \in C : i <= n - d
  <2> SUFFICES ASSUME NEW i \in C PROVE i <= n - d
    OBVIOUS
  <2>1. i \in Int /\ n - i \in Nat /\ d <= n - i
    <3> HIDE DEF D
    <3> QED BY <1>1, <1>2, <1>3
  <2> HIDE DEF D
  <2> QED BY <1>4, <2>1
<1> QED BY <1>4, <1>5

\* Among texts there is a shortest one: what fails for some text fails for a
\* shortest one.
LEMMA ShortestText ==
  ASSUME NEW X, NEW C \in SUBSET Seq(X), C # {}
  PROVE  \E s \in C : \A t \in C : Len(s) <= Len(t)
<1> DEFINE N == {Len(s) : s \in C}
<1>1. \A s \in C : Len(s) \in Nat
  OBVIOUS
<1>2. N \in SUBSET Nat /\ N # {}
  BY <1>1
<1>3. PICK n \in N : \A m \in N : n <= m
  <2> HIDE DEF N
  <2> QED BY <1>2, SmallestNumber
<1>4. PICK s \in C : Len(s) = n
  BY <1>3
<1>5. \A t \in C : Len(t) \in N
  OBVIOUS
<1> HIDE DEF N
<1> QED BY <1>3, <1>4, <1>5

LEMMA LeastFacts ==
  ASSUME NEW C \in SUBSET Nat, C # {}
  PROVE  Least(C) \in C /\ \A i \in C : Least(C) <= i
<1>1. \E n \in C : \A m \in C : n <= m
  BY SmallestNumber
<1> QED BY <1>1 DEF Least

LEMMA GreatestFacts ==
  ASSUME NEW n \in Nat, NEW C \in SUBSET (1 .. n), C # {}
  PROVE  Greatest(C) \in C /\ \A i \in C : i <= Greatest(C)
<1>1. \E i \in C : \A j \in C : j <= i
  BY LastPlace
<1> QED BY <1>1 DEF Greatest

-----------------------------------------------------------------------------
(***************************************************************************)
(* Where something stands in a text.                                       *)
(***************************************************************************)
LEMMA MatchesFacts ==
  ASSUME NEW X, NEW s \in Seq(X), NEW p \in Seq(X), NEW i \in Nat \ {0}
  PROVE  /\ Matches(s, p, i) => i + Len(p) - 1 <= Len(s)
         /\ Matches(s, p, i) => \A j \in 1 .. Len(p) : s[i + j - 1] = p[j]
         /\ i + Len(p) - 1 <= Len(s) /\ (\A j \in 1 .. Len(p) : s[i + j - 1] = p[j])
              => Matches(s, p, i)
<1>1. CASE i + Len(p) - 1 <= Len(s)
  <2>1. /\ SubSeq(s, i, i + Len(p) - 1) \in Seq(X)
        /\ Len(SubSeq(s, i, i + Len(p) - 1)) = Len(p)
        /\ \A j \in 1 .. Len(p) : SubSeq(s, i, i + Len(p) - 1)[j] = s[i + j - 1]
    BY <1>1
  <2> QED BY <1>1, <2>1 DEF Matches
<1>2. CASE ~(i + Len(p) - 1 <= Len(s))
  BY <1>2 DEF Matches
<1> QED BY <1>1, <1>2

\* EndAt finds the first place of one of the characters.
LEMMA EndAtFacts ==
  ASSUME NEW X, NEW s \in Seq(X), NEW chars, NEW i \in 1 .. Len(s) + 1
  PROVE  /\ EndAt(s, chars, i) \in i .. Len(s) + 1
         /\ \A j \in i .. EndAt(s, chars, i) - 1 : s[j] \notin chars
         /\ EndAt(s, chars, i) <= Len(s) => s[EndAt(s, chars, i)] \in chars
<1> DEFINE C == {j \in i .. Len(s) : s[j] \in chars} \cup {Len(s) + 1}
<1>1. C \in SUBSET Nat /\ C # {}
  OBVIOUS
<1>2. Least(C) \in C /\ \A j \in C : Least(C) <= j
  <2> HIDE DEF C
  <2> QED BY <1>1, LeastFacts
<1> DEFINE e == Least(C)
<1>3. EndAt(s, chars, i) = e
  BY DEF EndAt
<1>4. e \in C /\ \A j \in C : e <= j
  BY <1>2
<1> HIDE DEF e
<1>5. e \in i .. Len(s) + 1 /\ (e <= Len(s) => s[e] \in chars)
  BY <1>4
<1>6. \A j \in i .. e - 1 : s[j] \notin chars
  BY <1>4, <1>5
<1> QED BY <1>3, <1>5, <1>6

\* The only place with these properties.
LEMMA EndAtIs ==
  ASSUME NEW X, NEW s \in Seq(X), NEW chars, NEW i \in 1 .. Len(s) + 1,
         NEW e \in i .. Len(s) + 1, \A j \in i .. e - 1 : s[j] \notin chars,
         e <= Len(s) => s[e] \in chars
  PROVE  EndAt(s, chars, i) = e
BY EndAtFacts

\* What stands in a text stands in it, further back, behind another one.
LEMMA MatchesBehind ==
  ASSUME NEW X, NEW x \in Seq(X), NEW t \in Seq(X), NEW p \in Seq(X), NEW i \in Nat \ {0}
  PROVE  Matches(x \o t, p, Len(x) + i) <=> Matches(t, p, i)
<1>1. x \o t \in Seq(X) /\ Len(x \o t) = Len(x) + Len(t) /\ Len(x) + i \in Nat \ {0}
  OBVIOUS
<1>2. ASSUME i + Len(p) - 1 <= Len(t), NEW j \in 1 .. Len(p)
      PROVE  (x \o t)[Len(x) + i + j - 1] = t[i + j - 1]
  BY <1>2
<1>3. ASSUME Matches(x \o t, p, Len(x) + i) PROVE Matches(t, p, i)
  <2> DEFINE y == x \o t
             a == Len(x) + i
  <2>4. y \in Seq(X) /\ a \in Nat \ {0} /\ Matches(y, p, a)
    BY <1>1, <1>3
  <2>5. a + Len(p) - 1 <= Len(y) /\ \A j \in 1 .. Len(p) : y[a + j - 1] = p[j]
    <3> HIDE DEF y, a
    <3> QED BY <2>4, MatchesFacts
  <2>1. i + Len(p) - 1 <= Len(t)
    BY <1>1, <2>5
  <2>2. \A j \in 1 .. Len(p) : (x \o t)[Len(x) + i + j - 1] = p[j]
    BY <2>5
  <2>3. \A j \in 1 .. Len(p) : t[i + j - 1] = p[j]
    BY <1>2, <2>1, <2>2
  <2> QED BY <2>1, <2>3, MatchesFacts
<1>4. ASSUME Matches(t, p, i) PROVE Matches(x \o t, p, Len(x) + i)
  <2>1. i + Len(p) - 1 <= Len(t) /\ \A j \in 1 .. Len(p) : t[i + j - 1] = p[j]
    BY <1>4, MatchesFacts
  <2>2. \A j \in 1 .. Len(p) : (x \o t)[Len(x) + i + j - 1] = p[j]
    BY <1>2, <2>1
  <2>3. Len(x) + i + Len(p) - 1 <= Len(x \o t)
    BY <1>1, <2>1
  <2> QED BY <1>1, <2>2, <2>3, MatchesFacts
<1> QED BY <1>3, <1>4

\* EndAt behind another text.
LEMMA EndAtBehind ==
  ASSUME NEW X, NEW x \in Seq(X), NEW t \in Seq(X), NEW chars, NEW i \in 1 .. Len(t) + 1
  PROVE  EndAt(x \o t, chars, Len(x) + i) = Len(x) + EndAt(t, chars, i)
<1> DEFINE e == EndAt(t, chars, i)
<1>1. /\ e \in i .. Len(t) + 1 /\ \A j \in i .. e - 1 : t[j] \notin chars
      /\ e <= Len(t) => t[e] \in chars
  BY EndAtFacts
<1> HIDE DEF e
<1>2. x \o t \in Seq(X) /\ Len(x \o t) = Len(x) + Len(t)
  OBVIOUS
<1>3. \A j \in 1 .. Len(t) : (x \o t)[Len(x) + j] = t[j]
  OBVIOUS
<1>4. \A j \in Len(x) + i .. Len(x) + e - 1 : (x \o t)[j] \notin chars
  <2> SUFFICES ASSUME NEW j \in Len(x) + i .. Len(x) + e - 1 PROVE (x \o t)[j] \notin chars
    OBVIOUS
  <2>1. j - Len(x) \in i .. e - 1 /\ j - Len(x) \in 1 .. Len(t) /\ Len(x) + (j - Len(x)) = j
    BY <1>1
  <2> QED BY <1>1, <1>3, <2>1
<1>5. Len(x) + e <= Len(x \o t) => (x \o t)[Len(x) + e] \in chars
  BY <1>1, <1>2, <1>3
<1>6. Len(x) + i \in 1 .. Len(x \o t) + 1 /\ Len(x) + e \in Len(x) + i .. Len(x \o t) + 1
  BY <1>1, <1>2

<1>7. EndAt(x \o t, chars, Len(x) + i) = Len(x) + e
  <2> DEFINE y == x \o t
             a == Len(x) + i
             b == Len(x) + e
  <2>1. /\ y \in Seq(X) /\ a \in 1 .. Len(y) + 1 /\ b \in a .. Len(y) + 1
        /\ b <= Len(y) => y[b] \in chars
    BY <1>2, <1>5, <1>6
  <2>3. \A j \in a .. b - 1 : y[j] \notin chars
    BY <1>1, <1>4
  <2> HIDE DEF y, a, b
  <2>2. EndAt(y, chars, a) = b
    BY <2>1, <2>3, EndAtIs
  <2> QED BY <2>2 DEF y, a, b
<1> QED BY <1>7 DEF e

-----------------------------------------------------------------------------
(***************************************************************************)
(* Passes.                                                                 *)
(***************************************************************************)
Joined(x, y) == x \o y
IsPass(n, step, X) ==
  \A i \in 1 .. n : step[i].write \in Seq(X) /\ step[i].goto \in i + 1 .. n + 1

Follows(f, k, n, step) ==
  f = [i \in k .. n + 1 |-> IF i = n + 1 THEN <<>> ELSE step[i].write \o f[step[i].goto]]

\* The recursion from any place on has a solution.
LEMMA PassExists ==
  ASSUME NEW X, NEW n \in Nat, NEW step, IsPass(n, step, X)
  PROVE  \E f : Follows(f, 1, n, step)
<1> DEFINE C == {k \in 1 .. n + 1 : ~ \E f : Follows(f, k, n, step)}
<1> SUFFICES ASSUME C # {} PROVE FALSE
  OBVIOUS
<1>1. PICK k \in C : \A j \in C : j <= k
  <2>1. C \in SUBSET (1 .. n + 1) /\ n + 1 \in Nat
    OBVIOUS
  <2> HIDE DEF C
  <2> QED BY <2>1, LastPlace
<1>2. k \in 1 .. n + 1 /\ ~ \E f : Follows(f, k, n, step)
  BY <1>1
<1>3. CASE k = n + 1
  <2> DEFINE f == [i \in k .. n + 1 |-> <<>>]
  <2>1. Follows(f, k, n, step)
    BY <1>3 DEF Follows
  <2> QED BY <1>2, <2>1
<1>4. CASE k # n + 1
  <2>1. k + 1 \in 1 .. n + 1 /\ k + 1 \notin C
    BY <1>1, <1>2, <1>4
  <2>2. PICK g : Follows(g, k + 1, n, step)
    BY <2>1
  <2> DEFINE f == [i \in k .. n + 1 |->
                    IF i = k THEN step[k].write \o g[step[k].goto] ELSE g[i]]
  <2>3. ASSUME NEW i \in k .. n + 1
        PROVE  f[i] = IF i = n + 1 THEN <<>> ELSE step[i].write \o f[step[i].goto]
    <3>1. CASE i = n + 1
      <4>1. i \in k + 1 .. n + 1 /\ f[i] = g[i]
        BY <1>2, <1>4, <3>1
      <4>2. g[i] = <<>>
        BY <2>2, <3>1, <4>1 DEF Follows
      <4> QED BY <3>1, <4>1, <4>2
    <3>2. CASE i # n + 1
      <4>1. i \in 1 .. n /\ step[i].goto \in i + 1 .. n + 1
        BY <1>2, <3>2 DEF IsPass
      <4>2. step[i].goto \in k + 1 .. n + 1 /\ f[step[i].goto] = g[step[i].goto]
        BY <1>2, <4>1
      <4>3. CASE i = k
        BY <3>2, <4>2, <4>3
      <4>4. CASE i # k
        <5>1. i \in k + 1 .. n + 1 /\ f[i] = g[i]
          BY <1>2, <4>4
        <5>2. g[i] = step[i].write \o g[step[i].goto]
          BY <2>2, <3>2, <5>1 DEF Follows
        <5> QED BY <3>2, <4>2, <5>1, <5>2
      <4> QED BY <4>3, <4>4
    <3> QED BY <3>1, <3>2
  <2>4. Follows(f, k, n, step)
    BY <2>3 DEF Follows
  <2> QED BY <1>2, <2>4
<1> QED BY <1>3, <1>4

\* What the recursive function of Written is at every place.
LEMMA WrittenFacts ==
  ASSUME NEW X, NEW n \in Nat, NEW step, IsPass(n, step, X)
  PROVE  /\ Written(n, step)[n + 1] = <<>>
         /\ \A i \in 1 .. n :
              Written(n, step)[i] = step[i].write \o Written(n, step)[step[i].goto]
         /\ \A i \in 1 .. n + 1 : Written(n, step)[i] \in Seq(X)
<1> DEFINE W == Written(n, step)
<1>1. W = CHOOSE f : Follows(f, 1, n, step)
  BY DEF Written, Follows
<1>2. Follows(W, 1, n, step)
  BY <1>1, PassExists
<1> HIDE DEF W
<1>3. /\ W[n + 1] = <<>>
      /\ \A i \in 1 .. n : W[i] = step[i].write \o W[step[i].goto]
  <2>1. \A i \in 1 .. n + 1 :
          W[i] = IF i = n + 1 THEN <<>> ELSE step[i].write \o W[step[i].goto]
    BY <1>2 DEF Follows
  <2>2. n + 1 \in 1 .. n + 1 /\ \A i \in 1 .. n : i \in 1 .. n + 1 /\ i # n + 1
    OBVIOUS
  <2> QED BY <2>1, <2>2
<1>4. \A i \in 1 .. n + 1 : W[i] \in Seq(X)
  <2> DEFINE C == {i \in 1 .. n + 1 : W[i] \notin Seq(X)}
  <2> SUFFICES ASSUME C # {} PROVE FALSE
    OBVIOUS
  <2>1. PICK k \in C : \A j \in C : j <= k
    <3>1. C \in SUBSET (1 .. n + 1) /\ n + 1 \in Nat
      OBVIOUS
    <3> HIDE DEF C
    <3> QED BY <3>1, LastPlace
  <2>2. k \in 1 .. n
    <3>1. <<>> \in Seq(X)
      OBVIOUS
    <3>2. k # n + 1
      BY <1>3, <2>1, <3>1
    <3> QED BY <2>1, <3>2
  <2>3. step[k].write \in Seq(X) /\ step[k].goto \in k + 1 .. n + 1
    BY <2>2 DEF IsPass
  <2>4. step[k].goto \notin C /\ step[k].goto \in 1 .. n + 1
    BY <2>1, <2>2, <2>3
  <2>5. W[step[k].goto] \in Seq(X)
    BY <2>4
  <2>6. W[k] = step[k].write \o W[step[k].goto]
    BY <1>3, <2>2
  <2>7. W[k] \in Seq(X)
    BY <2>3, <2>5, <2>6
  <2> QED BY <2>1, <2>7
<1> QED BY <1>3, <1>4 DEF W

LEMMA WrittenEnd ==
  ASSUME NEW X, NEW n \in Nat, NEW step, IsPass(n, step, X)
  PROVE  Written(n, step)[n + 1] = <<>>
BY WrittenFacts, Zenon

LEMMA WrittenStep ==
  ASSUME NEW X, NEW n \in Nat, NEW step, IsPass(n, step, X), NEW i \in 1 .. n
  PROVE  Written(n, step)[i] = Joined(step[i].write, Written(n, step)[step[i].goto])
BY WrittenFacts, Zenon DEF Joined

LEMMA WrittenType ==
  ASSUME NEW X, NEW n \in Nat, NEW step, IsPass(n, step, X), NEW i \in 1 .. n + 1
  PROVE  Written(n, step)[i] \in Seq(X)
BY WrittenFacts, Zenon

Behind(k, n, step, other) ==
  \A i \in 1 .. n : /\ other[k + i].write = step[i].write
                    /\ other[k + i].goto = k + step[i].goto

\* A pass that takes the same steps further back writes the same.
LEMMA WrittenBehind ==
  ASSUME NEW X, NEW n \in Nat, NEW step, IsPass(n, step, X),
         NEW k \in Nat, NEW m \in Nat, m = k + n, NEW other, IsPass(m, other, X),
         Behind(k, n, step, other)
  PROVE  \A i \in 1 .. n + 1 : Written(m, other)[k + i] = Written(n, step)[i]
<1> DEFINE V == Written(n, step)
           W == Written(m, other)
           C == {i \in 1 .. n + 1 : W[k + i] # V[i]}
<1>1. V[n + 1] = <<>>
  BY WrittenEnd
<1>10. ASSUME NEW i \in 1 .. n PROVE V[i] = Joined(step[i].write, V[step[i].goto])
  BY WrittenStep, SMT
<1>2. /\ W[k + (n + 1)] = <<>>
      /\ \A i \in 1 .. k + n : W[i] = Joined(other[i].write, W[other[i].goto])
  <2>1. m + 1 = k + (n + 1)
    OBVIOUS
  <2>2. W[m + 1] = <<>>
    BY WrittenEnd
  <2>3. ASSUME NEW i \in 1 .. m PROVE W[i] = Joined(other[i].write, W[other[i].goto])
    BY WrittenStep, SMT
  <2> QED BY <2>1, <2>2, <2>3
<1> HIDE DEF V, W
<1> SUFFICES ASSUME C # {} PROVE FALSE
  BY DEF V, W
<1>3. PICK i \in C : \A j \in C : j <= i
  <2>1. C \in SUBSET (1 .. n + 1) /\ n + 1 \in Nat
    OBVIOUS
  <2> HIDE DEF C
  <2> QED BY <2>1, LastPlace
<1>4. i \in 1 .. n
  <2>1. i # n + 1
    BY <1>1, <1>2, <1>3
  <2> QED BY <1>3, <2>1
<1>5. step[i].goto \in i + 1 .. n + 1
  BY <1>4 DEF IsPass
<1>6. W[k + step[i].goto] = V[step[i].goto]
  BY <1>3, <1>4, <1>5
<1>7. W[k + i] = Joined(other[k + i].write, W[other[k + i].goto])
  <2>1. k + i \in 1 .. k + n
    BY <1>4
  <2> QED BY <1>2, <2>1
<1>9. other[k + i].write = step[i].write /\ other[k + i].goto = k + step[i].goto
  BY <1>4 DEF Behind
<1>8. W[k + i] = V[i]
  BY <1>10, <1>4, <1>6, <1>7, <1>9
<1> QED BY <1>3, <1>8

LEMMA FirstStep ==
  ASSUME NEW X, NEW n \in Nat \ {0}, NEW step, IsPass(n, step, X)
  PROVE  Rewrite(n, step) = Joined(step[1].write, Written(n, step)[step[1].goto])
<1>1. n \in Nat /\ 1 \in 1 .. n
  OBVIOUS
<1> QED BY <1>1, WrittenStep, SMT DEF Rewrite

\* A pass that first writes w and goes behind it goes on as a pass of its own.
LEMMA RewriteSplit ==
  ASSUME NEW X, NEW n \in Nat, NEW step, IsPass(n, step, X),
         NEW k \in Nat \ {0}, NEW m \in Nat, m = k + n, NEW other, IsPass(m, other, X),
         Behind(k, n, step, other), NEW w, other[1].write = w, other[1].goto = k + 1
  PROVE  Rewrite(m, other) = Joined(w, Rewrite(n, step))
<1>1. m \in Nat \ {0} /\ 1 \in 1 .. n + 1 /\ k \in Nat
  OBVIOUS
<1>2. Rewrite(m, other) = Joined(other[1].write, Written(m, other)[other[1].goto])
  BY <1>1, FirstStep, SMT
<1>3. \A i \in 1 .. n + 1 : Written(m, other)[k + i] = Written(n, step)[i]
  BY <1>1, WrittenBehind, SMT
<1>4. Written(m, other)[k + 1] = Written(n, step)[1]
  BY <1>1, <1>3
<1> QED BY <1>2, <1>4 DEF Rewrite

\* A pass writes a text.
LEMMA RewriteType ==
  ASSUME NEW X, NEW n \in Nat, NEW step, IsPass(n, step, X)
  PROVE  Rewrite(n, step) \in Seq(X)
<1>1. 1 \in 1 .. n + 1
  OBVIOUS
<1> QED BY <1>1, WrittenType DEF Rewrite

\* A pass over nothing writes nothing.
LEMMA RewriteNothing ==
  ASSUME NEW step
  PROVE  Rewrite(0, step) = <<>>
<1>1. IsPass(0, step, {}) /\ 0 \in Nat
  BY DEF IsPass
<1>2. Written(0, step)[0 + 1] = <<>>
  BY <1>1, WrittenEnd
<1> QED BY <1>2 DEF Rewrite

\* The characters of a text behind another one.
LEMMA CharBehind ==
  ASSUME NEW X, NEW x \in Seq(X), NEW t \in Seq(X)
  PROVE  /\ Joined(x, t) \in Seq(X) /\ Len(Joined(x, t)) = Len(x) + Len(t)
         /\ \A i \in 1 .. Len(x) : Joined(x, t)[i] = x[i]
         /\ \A i \in 1 .. Len(t) : Joined(x, t)[Len(x) + i] = t[i]
BY DEF Joined

LEMMA MatchBehind ==
  ASSUME NEW X, NEW x \in Seq(X), NEW t \in Seq(X), NEW p \in Seq(X), NEW i \in Nat \ {0}
  PROVE  /\ Matches(t, p, i) => Matches(Joined(x, t), p, Len(x) + i)
         /\ Matches(Joined(x, t), p, Len(x) + i) => Matches(t, p, i)
BY MatchesBehind DEF Joined

LEMMA EndBehind ==
  ASSUME NEW X, NEW x \in Seq(X), NEW t \in Seq(X), NEW chars, NEW i \in 1 .. Len(t) + 1
  PROVE  EndAt(Joined(x, t), chars, Len(x) + i) = Len(x) + EndAt(t, chars, i)
BY EndAtBehind DEF Joined

\* Texts with the same characters are the same.
LEMMA SameText ==
  ASSUME NEW X, NEW s \in Seq(X), NEW t \in Seq(X), Len(s) = Len(t),
         \A i \in 1 .. Len(s) : s[i] = t[i]
  PROVE  s = t
OBVIOUS

\* A text is its beginning and its rest.
LEMMA Parts ==
  ASSUME NEW X, NEW s \in Seq(X), NEW k \in 0 .. Len(s)
  PROVE  /\ SubSeq(s, 1, k) \in Seq(X) /\ Len(SubSeq(s, 1, k)) = k
         /\ SubSeq(s, k + 1, Len(s)) \in Seq(X)
         /\ Len(SubSeq(s, k + 1, Len(s))) = Len(s) - k
         /\ \A i \in 1 .. k : SubSeq(s, 1, k)[i] = s[i]
         /\ \A i \in 1 .. Len(s) - k : SubSeq(s, k + 1, Len(s))[i] = s[k + i]
         /\ s = Joined(SubSeq(s, 1, k), SubSeq(s, k + 1, Len(s)))
<1>1. /\ SubSeq(s, 1, k) \in Seq(X) /\ Len(SubSeq(s, 1, k)) = k
      /\ SubSeq(s, k + 1, Len(s)) \in Seq(X)
      /\ Len(SubSeq(s, k + 1, Len(s))) = Len(s) - k
      /\ \A i \in 1 .. k : SubSeq(s, 1, k)[i] = s[i]
      /\ \A i \in 1 .. Len(s) - k : SubSeq(s, k + 1, Len(s))[i] = s[k + i]
  OBVIOUS
<1>2. s = Joined(SubSeq(s, 1, k), SubSeq(s, k + 1, Len(s)))
  <2> DEFINE x == SubSeq(s, 1, k)
             t == SubSeq(s, k + 1, Len(s))
  <2>1. /\ x \in Seq(X) /\ Len(x) = k /\ t \in Seq(X) /\ Len(t) = Len(s) - k
        /\ \A i \in 1 .. k : x[i] = s[i]
        /\ \A i \in 1 .. Len(s) - k : t[i] = s[k + i]
    BY <1>1
  <2> HIDE DEF x, t
  <2>2. Len(x \o t) = Len(s) /\ x \o t \in Seq(X)
    BY <2>1
  <2>3. ASSUME NEW i \in 1 .. Len(s) PROVE (x \o t)[i] = s[i]
    <3>1. CASE i <= k
      BY <2>1, <3>1
    <3>2. CASE ~(i <= k)
      <4>1. i - k \in 1 .. Len(s) - k /\ k + (i - k) = i
        BY <3>2
      <4>2. t[i - k] = s[i]
        BY <2>1, <4>1
      <4> QED BY <2>1, <3>2, <4>1, <4>2
    <3> QED BY <3>1, <3>2
  <2>4. s = x \o t
    <3> DEFINE y == x \o t
    <3>1. y \in Seq(X) /\ Len(y) = Len(s) /\ \A i \in 1 .. Len(s) : s[i] = y[i]
      BY <2>2, <2>3
    <3> HIDE DEF y
    <3>2. s = y
      BY <3>1, SameText
    <3> QED BY <3>2 DEF y
  <2> QED BY <2>4 DEF x, t, Joined
<1> QED BY <1>1, <1>2

LEMMA OneAndRest ==
  ASSUME NEW X, NEW s \in Seq(X), s # <<>>
  PROVE  /\ s = Joined(<<s[1]>>, Tail(s)) /\ s[1] \in X /\ Tail(s) \in Seq(X)
         /\ Len(Tail(s)) = Len(s) - 1 /\ Len(s) \in Nat \ {0}
         /\ <<s[1]>> \in Seq(X) /\ \A i \in 1 .. Len(s) - 1 : Tail(s)[i] = s[i + 1]
BY DEF Joined

-----------------------------------------------------------------------------
(***************************************************************************)
(* Texts of a few characters.                                              *)
(***************************************************************************)
LEMMA One ==
  ASSUME NEW X, NEW a \in X
  PROVE  <<a>> \in Seq(X) /\ Len(<<a>>) = 1 /\ <<a>>[1] = a
OBVIOUS

LEMMA Two ==
  ASSUME NEW X, NEW a \in X, NEW b \in X
  PROVE  /\ <<a, b>> \in Seq(X) /\ Len(<<a, b>>) = 2
         /\ <<a, b>>[1] = a /\ <<a, b>>[2] = b
OBVIOUS

LEMMA TwoAt ==
  ASSUME NEW X, NEW a \in X, NEW b \in X,
         NEW s \in Seq(X), NEW i \in Nat \ {0}
  PROVE  /\ Matches(s, <<a, b>>, i) => i + 1 <= Len(s) /\ s[i] = a /\ s[i + 1] = b
         /\ i + 1 <= Len(s) /\ s[i] = a /\ s[i + 1] = b => Matches(s, <<a, b>>, i)
<1> DEFINE p == <<a, b>>
<1>1. /\ p \in Seq(X) /\ Len(p) = 2
      /\ p[1] = a /\ p[2] = b
  BY Two
<1>5. p \in Seq(X)
  BY <1>1
<1> HIDE DEF p
<1>2. i + 1 - 1 = i /\ i + 2 - 1 = i + 1 /\ i + 2 - 1 \in Int
  OBVIOUS
<1>3. ASSUME Matches(s, p, i) PROVE i + 1 <= Len(s) /\ s[i] = a /\ s[i + 1] = b
  <2>1. i + Len(p) - 1 <= Len(s) /\ \A j \in 1 .. Len(p) : s[i + j - 1] = p[j]
    BY <1>3, <1>5, MatchesFacts
  <2>2. 1 \in 1 .. Len(p) /\ 2 \in 1 .. Len(p)
    BY <1>1
  <2>3. s[i + 1 - 1] = p[1] /\ s[i + 2 - 1] = p[2]
    BY <2>1, <2>2
  <2> QED BY <1>1, <1>2, <2>1, <2>3
<1>4. ASSUME i + 1 <= Len(s) /\ s[i] = a /\ s[i + 1] = b PROVE Matches(s, p, i)
  <2>1. \A j \in 1 .. Len(p) : j = 1 \/ j = 2
    BY <1>1
  <2>2. s[i + 1 - 1] = p[1] /\ s[i + 2 - 1] = p[2]
    BY <1>1, <1>2, <1>4
  <2>3. \A j \in 1 .. Len(p) : s[i + j - 1] = p[j]
    BY <2>1, <2>2
  <2>4. i + Len(p) - 1 <= Len(s)
    BY <1>1, <1>4
  <2> QED BY <1>1, <2>3, <2>4, MatchesFacts
<1> QED BY <1>3, <1>4 DEF p

LEMMA Three ==
  ASSUME NEW X, NEW a \in X, NEW b \in X, NEW c \in X
  PROVE  /\ <<a, b, c>> \in Seq(X) /\ Len(<<a, b, c>>) = 3
         /\ <<a, b, c>>[1] = a /\ <<a, b, c>>[2] = b /\ <<a, b, c>>[3] = c
OBVIOUS

LEMMA ThreeAt ==
  ASSUME NEW X, NEW a \in X, NEW b \in X, NEW c \in X,
         NEW s \in Seq(X), NEW i \in Nat \ {0}
  PROVE  /\ Matches(s, <<a, b, c>>, i) => i + 2 <= Len(s) /\ s[i] = a /\ s[i + 1] = b /\ s[i + 2] = c
         /\ i + 2 <= Len(s) /\ s[i] = a /\ s[i + 1] = b /\ s[i + 2] = c => Matches(s, <<a, b, c>>, i)
<1> DEFINE p == <<a, b, c>>
<1>1. /\ p \in Seq(X) /\ Len(p) = 3
      /\ p[1] = a /\ p[2] = b /\ p[3] = c
  BY Three
<1>5. p \in Seq(X)
  BY <1>1
<1> HIDE DEF p
<1>2. i + 1 - 1 = i /\ i + 2 - 1 = i + 1 /\ i + 3 - 1 = i + 2 /\ i + 3 - 1 \in Int
  OBVIOUS
<1>3. ASSUME Matches(s, p, i) PROVE i + 2 <= Len(s) /\ s[i] = a /\ s[i + 1] = b /\ s[i + 2] = c
  <2>1. i + Len(p) - 1 <= Len(s) /\ \A j \in 1 .. Len(p) : s[i + j - 1] = p[j]
    BY <1>3, <1>5, MatchesFacts
  <2>2. 1 \in 1 .. Len(p) /\ 2 \in 1 .. Len(p) /\ 3 \in 1 .. Len(p)
    BY <1>1
  <2>3. s[i + 1 - 1] = p[1] /\ s[i + 2 - 1] = p[2] /\ s[i + 3 - 1] = p[3]
    BY <2>1, <2>2
  <2> QED BY <1>1, <1>2, <2>1, <2>3
<1>4. ASSUME i + 2 <= Len(s) /\ s[i] = a /\ s[i + 1] = b /\ s[i + 2] = c PROVE Matches(s, p, i)
  <2>1. \A j \in 1 .. Len(p) : j = 1 \/ j = 2 \/ j = 3
    BY <1>1
  <2>2. s[i + 1 - 1] = p[1] /\ s[i + 2 - 1] = p[2] /\ s[i + 3 - 1] = p[3]
    BY <1>1, <1>2, <1>4
  <2>3. \A j \in 1 .. Len(p) : s[i + j - 1] = p[j]
    BY <2>1, <2>2
  <2>4. i + Len(p) - 1 <= Len(s)
    BY <1>1, <1>4
  <2> QED BY <1>1, <2>3, <2>4, MatchesFacts
<1> QED BY <1>3, <1>4 DEF p

LEMMA Four ==
  ASSUME NEW X, NEW a \in X, NEW b \in X, NEW c \in X, NEW d \in X
  PROVE  /\ <<a, b, c, d>> \in Seq(X) /\ Len(<<a, b, c, d>>) = 4
         /\ <<a, b, c, d>>[1] = a /\ <<a, b, c, d>>[2] = b /\ <<a, b, c, d>>[3] = c /\ <<a, b, c, d>>[4] = d
OBVIOUS

LEMMA FourAt ==
  ASSUME NEW X, NEW a \in X, NEW b \in X, NEW c \in X, NEW d \in X,
         NEW s \in Seq(X), NEW i \in Nat \ {0}
  PROVE  /\ Matches(s, <<a, b, c, d>>, i) => i + 3 <= Len(s) /\ s[i] = a /\ s[i + 1] = b /\ s[i + 2] = c /\ s[i + 3] = d
         /\ i + 3 <= Len(s) /\ s[i] = a /\ s[i + 1] = b /\ s[i + 2] = c /\ s[i + 3] = d => Matches(s, <<a, b, c, d>>, i)
<1> DEFINE p == <<a, b, c, d>>
<1>1. /\ p \in Seq(X) /\ Len(p) = 4
      /\ p[1] = a /\ p[2] = b /\ p[3] = c /\ p[4] = d
  BY Four
<1>5. p \in Seq(X)
  BY <1>1
<1> HIDE DEF p
<1>2. i + 1 - 1 = i /\ i + 2 - 1 = i + 1 /\ i + 3 - 1 = i + 2 /\ i + 4 - 1 = i + 3 /\ i + 4 - 1 \in Int
  OBVIOUS
<1>3. ASSUME Matches(s, p, i) PROVE i + 3 <= Len(s) /\ s[i] = a /\ s[i + 1] = b /\ s[i + 2] = c /\ s[i + 3] = d
  <2>1. i + Len(p) - 1 <= Len(s) /\ \A j \in 1 .. Len(p) : s[i + j - 1] = p[j]
    BY <1>3, <1>5, MatchesFacts
  <2>2. 1 \in 1 .. Len(p) /\ 2 \in 1 .. Len(p) /\ 3 \in 1 .. Len(p) /\ 4 \in 1 .. Len(p)
    BY <1>1
  <2>3. s[i + 1 - 1] = p[1] /\ s[i + 2 - 1] = p[2] /\ s[i + 3 - 1] = p[3] /\ s[i + 4 - 1] = p[4]
    BY <2>1, <2>2
  <2> QED BY <1>1, <1>2, <2>1, <2>3
<1>4. ASSUME i + 3 <= Len(s) /\ s[i] = a /\ s[i + 1] = b /\ s[i + 2] = c /\ s[i + 3] = d PROVE Matches(s, p, i)
  <2>1. \A j \in 1 .. Len(p) : j = 1 \/ j = 2 \/ j = 3 \/ j = 4
    BY <1>1
  <2>2. s[i + 1 - 1] = p[1] /\ s[i + 2 - 1] = p[2] /\ s[i + 3 - 1] = p[3] /\ s[i + 4 - 1] = p[4]
    BY <1>1, <1>2, <1>4
  <2>3. \A j \in 1 .. Len(p) : s[i + j - 1] = p[j]
    BY <2>1, <2>2
  <2>4. i + Len(p) - 1 <= Len(s)
    BY <1>1, <1>4
  <2> QED BY <1>1, <2>3, <2>4, MatchesFacts
<1> QED BY <1>3, <1>4 DEF p

LEMMA FourParts ==
  ASSUME NEW X, NEW a \in X, NEW b \in X, NEW c \in X, NEW d \in X
  PROVE  <<a, b>> \o <<c>> \o <<d>> = <<a, b, c, d>>
<1> DEFINE x == <<a, b>>
           y == <<c>>
           z == <<d>>
           p == <<a, b, c, d>>
<1>1. x \in Seq(X) /\ Len(x) = 2 /\ x[1] = a /\ x[2] = b
  BY Two
<1>2. y \in Seq(X) /\ Len(y) = 1 /\ y[1] = c /\ z \in Seq(X) /\ Len(z) = 1 /\ z[1] = d
  BY One
<1>3. p \in Seq(X) /\ Len(p) = 4 /\ p[1] = a /\ p[2] = b /\ p[3] = c /\ p[4] = d
  BY Four
<1> HIDE DEF x, y, z, p
<1> DEFINE w == Joined(x, y)
           v == Joined(w, z)
<1>5. w \in Seq(X) /\ Len(w) = 3 /\ w[1] = a /\ w[2] = b /\ w[3] = c
  <2>1. /\ w \in Seq(X) /\ Len(w) = Len(x) + Len(y)
        /\ \A i \in 1 .. Len(x) : w[i] = x[i]
        /\ \A i \in 1 .. Len(y) : w[Len(x) + i] = y[i]
    <3>1. x \in Seq(X) /\ y \in Seq(X)
      BY <1>1, <1>2
    <3> QED BY <3>1, CharBehind DEF Joined
  <2>2. 1 \in 1 .. Len(x) /\ 2 \in 1 .. Len(x) /\ 1 \in 1 .. Len(y) /\ Len(x) + 1 = 3
    BY <1>1, <1>2
  <2>3. w[Len(x) + 1] = y[1]
    BY <2>1, <2>2
  <2> HIDE DEF w
  <2> QED BY <1>1, <1>2, <2>1, <2>2, <2>3
<1> HIDE DEF w
<1>6. v \in Seq(X) /\ Len(v) = 4 /\ v[1] = a /\ v[2] = b /\ v[3] = c /\ v[4] = d
  <2>1. /\ v \in Seq(X) /\ Len(v) = Len(w) + Len(z)
        /\ \A i \in 1 .. Len(w) : v[i] = w[i]
        /\ \A i \in 1 .. Len(z) : v[Len(w) + i] = z[i]
    <3>1. w \in Seq(X) /\ z \in Seq(X)
      BY <1>2, <1>5
    <3> QED BY <3>1, CharBehind DEF Joined
  <2>2. /\ 1 \in 1 .. Len(w) /\ 2 \in 1 .. Len(w) /\ 3 \in 1 .. Len(w)
        /\ 1 \in 1 .. Len(z) /\ Len(w) + 1 = 4
    BY <1>2, <1>5
  <2>3. v[Len(w) + 1] = z[1]
    BY <2>1, <2>2
  <2> HIDE DEF v
  <2> QED BY <1>2, <1>5, <2>1, <2>2, <2>3
<1> HIDE DEF v
<1>7. \A i \in 1 .. Len(v) : i = 1 \/ i = 2 \/ i = 3 \/ i = 4
  BY <1>6
<1>8. v = p
  <2>1. \A i \in 1 .. Len(v) : v[i] = p[i]
    BY <1>3, <1>6, <1>7
  <2> QED BY <1>3, <1>6, <2>1, SameText
<1> QED BY <1>8 DEF v, w, x, y, z, p, Joined

LEMMA PartBehind ==
  ASSUME NEW X, NEW x \in Seq(X), NEW t \in Seq(X), NEW a \in 1 .. Len(t) + 1,
         NEW b \in a - 1 .. Len(t)
  PROVE  SubSeq(Joined(x, t), Len(x) + a, Len(x) + b) = SubSeq(t, a, b)
<1> DEFINE s == Joined(x, t)
           k == Len(x)
           y == SubSeq(s, k + a, k + b)
           z == SubSeq(t, a, b)
<1>1. /\ s \in Seq(X) /\ Len(s) = k + Len(t) /\ k \in Nat
      /\ \A i \in 1 .. Len(t) : s[k + i] = t[i]
  <2>1. k \in Nat
    OBVIOUS
  <2>2. /\ s \in Seq(X) /\ Len(s) = Len(x) + Len(t)
        /\ \A i \in 1 .. Len(t) : s[Len(x) + i] = t[i]
    BY CharBehind
  <2> QED BY <2>1, <2>2
<1> HIDE DEF s, k
<1>2. /\ y \in Seq(X) /\ Len(y) = b - a + 1
      /\ \A i \in 1 .. b - a + 1 : y[i] = s[k + a + i - 1]
  BY <1>1
<1>3. /\ z \in Seq(X) /\ Len(z) = b - a + 1
      /\ \A i \in 1 .. b - a + 1 : z[i] = t[a + i - 1]
  OBVIOUS
<1> HIDE DEF y, z
<1>4. ASSUME NEW i \in 1 .. b - a + 1 PROVE y[i] = z[i]
  <2>1. a + i - 1 \in 1 .. Len(t) /\ k + (a + i - 1) = k + a + i - 1
    BY <1>1
  <2>2. s[k + (a + i - 1)] = t[a + i - 1]
    BY <1>1, <2>1
  <2> QED BY <1>2, <1>3, <2>1, <2>2
<1>5. y = z
  <2>1. Len(y) = Len(z) /\ \A i \in 1 .. Len(y) : y[i] = z[i]
    BY <1>2, <1>3, <1>4
  <2> QED BY <1>2, <1>3, <2>1, SameText
<1> QED BY <1>5 DEF y, z, s, k

LEMMA PartOfOne ==
  ASSUME NEW X, NEW s \in Seq(X), NEW i \in 1 .. Len(s)
  PROVE  SubSeq(s, i, i) = <<s[i]>>
<1> DEFINE y == SubSeq(s, i, i)
           z == <<s[i]>>
<1>1. /\ y \in Seq(X) /\ Len(y) = i - i + 1
      /\ \A j \in 1 .. i - i + 1 : y[j] = s[i + j - 1]
  OBVIOUS
<1>2. z \in Seq(X) /\ Len(z) = 1 /\ z[1] = s[i]
  OBVIOUS
<1>3. i - i + 1 = 1 /\ i + 1 - 1 = i
  OBVIOUS
<1> HIDE DEF y, z
<1>4. Len(y) = Len(z) /\ y[1] = z[1] /\ \A j \in 1 .. Len(y) : j = 1
  BY <1>1, <1>2, <1>3
<1>5. y = z
  BY <1>1, <1>2, <1>4, SameText
<1> QED BY <1>5 DEF y, z

-----------------------------------------------------------------------------
(***************************************************************************)
(* Texts over the characters.                                              *)
(***************************************************************************)
LEMMA TextJoined ==
  ASSUME NEW x \in Text, NEW t \in Text
  PROVE  /\ Joined(x, t) \in Text /\ Len(Joined(x, t)) = Len(x) + Len(t)
         /\ \A i \in 1 .. Len(x) : Joined(x, t)[i] = x[i]
         /\ \A i \in 1 .. Len(t) : Joined(x, t)[Len(x) + i] = t[i]
<1>1. x \in Seq(Char) /\ t \in Seq(Char)
  BY DEF Text
<1>2. /\ Joined(x, t) \in Seq(Char) /\ Len(Joined(x, t)) = Len(x) + Len(t)
      /\ \A i \in 1 .. Len(x) : Joined(x, t)[i] = x[i]
      /\ \A i \in 1 .. Len(t) : Joined(x, t)[Len(x) + i] = t[i]
  BY <1>1, CharBehind DEF Joined
<1> QED BY <1>2 DEF Text

LEMMA TextLength ==
  ASSUME NEW x \in Text
  PROVE  /\ Len(x) \in Nat /\ (x # <<>> => Len(x) \in Nat \ {0} /\ 1 \in 1 .. Len(x))
         /\ (Len(x) = 0 => x = <<>>)
<1>1. x \in Seq(Char)
  BY DEF Text
<1> QED BY <1>1

-----------------------------------------------------------------------------
(***************************************************************************)
(* Placeholders.                                                           *)
(***************************************************************************)
LEMMA SubstitutionChars ==
  /\ "$" \in Char /\ "{" \in Char /\ "}" \in Char /\ "\"" \in Char /\ "\\" \in Char
  /\ "lf" \in Char /\ ":" \in Char
BY SpecialCharacters

LEMMA DeclaredChars ==
  Declared = {"n", "t", "a", "s", "h"} /\ \A n \in Declared : n \in Char
BY SpecialCharacters DEF Declared, Kind

OpensAt(s, i) == i + 1 <= Len(s) /\ s[i] = "$" /\ s[i + 1] = "{"
HoldsAt(s, n, i) ==
  i + 3 <= Len(s) /\ s[i] = "$" /\ s[i + 1] = "{" /\ s[i + 2] = n /\ s[i + 3] = "}"

LEMMA OpeningAt ==
  ASSUME NEW s \in Text, NEW i \in Nat \ {0}
  PROVE  /\ Matches(s, Opening, i) => OpensAt(s, i)
         /\ OpensAt(s, i) => Matches(s, Opening, i)
<1>1. s \in Seq(Char)
  BY DEF Text
<1>2. "$" \in Char /\ "{" \in Char
  BY SubstitutionChars
<1>3. /\ Matches(s, <<"$", "{">>, i) => i + 1 <= Len(s) /\ s[i] = "$" /\ s[i + 1] = "{"
      /\ i + 1 <= Len(s) /\ s[i] = "$" /\ s[i + 1] = "{" => Matches(s, <<"$", "{">>, i)
  BY <1>1, <1>2, TwoAt
<1> QED BY <1>3 DEF Opening, OpensAt

\* The placeholder of a name, character by character.
LEMMA HolderIs ==
  ASSUME NEW n \in Char
  PROVE  /\ Holder(<<n>>) = <<"$", "{", n, "}">> /\ Holder(<<n>>) \in Text
         /\ Len(Holder(<<n>>)) = 4
         /\ Holder(<<n>>)[1] = "$" /\ Holder(<<n>>)[2] = "{"
         /\ Holder(<<n>>)[3] = n /\ Holder(<<n>>)[4] = "}"
<1>1. "$" \in Char /\ "{" \in Char /\ "}" \in Char
  BY SubstitutionChars
<1>2. Holder(<<n>>) = <<"$", "{", n, "}">>
  BY <1>1, FourParts DEF Holder, Opening
<1> DEFINE p == <<"$", "{", n, "}">>
<1>3. p \in Seq(Char) /\ Len(p) = 4 /\ p[1] = "$" /\ p[2] = "{" /\ p[3] = n /\ p[4] = "}"
  BY <1>1, Four
<1>4. Holder(<<n>>) = p
  BY <1>2
<1> HIDE DEF p
<1> QED BY <1>2, <1>3, <1>4 DEF Text

LEMMA HolderAt ==
  ASSUME NEW s \in Text, NEW n \in Char, NEW i \in Nat \ {0}
  PROVE  /\ Matches(s, Holder(<<n>>), i) => HoldsAt(s, n, i)
         /\ HoldsAt(s, n, i) => Matches(s, Holder(<<n>>), i)
<1>1. s \in Seq(Char)
  BY DEF Text
<1>2. "$" \in Char /\ "{" \in Char /\ "}" \in Char
  BY SubstitutionChars
<1>3. \A a, b, d \in Char :
        /\ Matches(s, <<a, b, n, d>>, i)
             => i + 3 <= Len(s) /\ s[i] = a /\ s[i + 1] = b /\ s[i + 2] = n /\ s[i + 3] = d
        /\ i + 3 <= Len(s) /\ s[i] = a /\ s[i + 1] = b /\ s[i + 2] = n /\ s[i + 3] = d
             => Matches(s, <<a, b, n, d>>, i)
  BY <1>1, FourAt
<1>4. Holder(<<n>>) = <<"$", "{", n, "}">>
  BY HolderIs
<1>5. /\ Matches(s, <<"$", "{", n, "}">>, i)
           => i + 3 <= Len(s) /\ s[i] = "$" /\ s[i + 1] = "{" /\ s[i + 2] = n /\ s[i + 3] = "}"
      /\ i + 3 <= Len(s) /\ s[i] = "$" /\ s[i + 1] = "{" /\ s[i + 2] = n /\ s[i + 3] = "}"
           => Matches(s, <<"$", "{", n, "}">>, i)
  BY <1>2, <1>3, Zenon
<1> QED BY <1>4, <1>5, Zenon DEF HoldsAt

-----------------------------------------------------------------------------
(***************************************************************************)
(* Replacing one placeholder (ReplaceAll).                                 *)
(***************************************************************************)
ReplaceStep(s, p, v) ==
  [i \in 1 .. Len(s) |-> IF Matches(s, p, i) THEN Step(v, i + Len(p)) ELSE Copy(s, i)]

LEMMA ReplacePass ==
  ASSUME NEW s \in Text, NEW p \in Text, Len(p) > 0, NEW v \in Text
  PROVE  IsPass(Len(s), ReplaceStep(s, p, v), Char)
<1> SUFFICES ASSUME NEW i \in 1 .. Len(s)
             PROVE  /\ ReplaceStep(s, p, v)[i].write \in Seq(Char)
                    /\ ReplaceStep(s, p, v)[i].goto \in i + 1 .. Len(s) + 1
  BY DEF IsPass
<1>5. s \in Seq(Char) /\ p \in Seq(Char) /\ v \in Seq(Char) /\ i \in Nat \ {0}
  BY DEF Text
<1>1. CASE Matches(s, p, i)
  <2>1. i + Len(p) - 1 <= Len(s)
    BY <1>1, <1>5, MatchesFacts
  <2>2. ReplaceStep(s, p, v)[i] = Step(v, i + Len(p))
    BY <1>1 DEF ReplaceStep
  <2> QED BY <2>1, <2>2, <1>5 DEF Step
<1>2. CASE ~Matches(s, p, i)
  <2>1. ReplaceStep(s, p, v)[i] = Copy(s, i)
    BY <1>2 DEF ReplaceStep
  <2>2. s[i] \in Char /\ <<s[i]>> \in Seq(Char)
    BY <1>5
  <2> QED BY <2>1, <2>2, <1>5 DEF Step, Copy
<1> QED BY <1>1, <1>2

LEMMA ReplaceBehind ==
  ASSUME NEW x \in Text, NEW t \in Text, NEW p \in Text, Len(p) > 0, NEW v \in Text
  PROVE  Behind(Len(x), Len(t), ReplaceStep(t, p, v), ReplaceStep(Joined(x, t), p, v))
<1> DEFINE s == Joined(x, t)
<1>5. x \in Seq(Char) /\ t \in Seq(Char) /\ p \in Seq(Char)
  BY DEF Text
<1>6. /\ s \in Seq(Char) /\ Len(s) = Len(x) + Len(t)
      /\ \A i \in 1 .. Len(t) : s[Len(x) + i] = t[i]
  <2>1. /\ s \in Text /\ Len(s) = Len(x) + Len(t)
        /\ \A i \in 1 .. Len(t) : s[Len(x) + i] = t[i]
    BY TextJoined
  <2> QED BY <2>1 DEF Text
<1>7. \A i \in 1 .. Len(t) : /\ Matches(t, p, i) => Matches(s, p, Len(x) + i)
                             /\ Matches(s, p, Len(x) + i) => Matches(t, p, i)
  BY <1>5, MatchBehind
<1> HIDE DEF s
<1>8. \A i \in 1 .. Len(t) : Len(x) + i \in 1 .. Len(s)
  BY <1>5, <1>6
<1> SUFFICES ASSUME NEW i \in 1 .. Len(t)
             PROVE  /\ ReplaceStep(s, p, v)[Len(x) + i].write = ReplaceStep(t, p, v)[i].write
                    /\ ReplaceStep(s, p, v)[Len(x) + i].goto
                         = Len(x) + ReplaceStep(t, p, v)[i].goto
  BY DEF Behind, s
<1>1. CASE Matches(t, p, i)
  <2>1. ReplaceStep(t, p, v)[i] = Step(v, i + Len(p))
    BY <1>1 DEF ReplaceStep
  <2>2. ReplaceStep(s, p, v)[Len(x) + i] = Step(v, Len(x) + i + Len(p))
    BY <1>1, <1>7, <1>8 DEF ReplaceStep
  <2> QED BY <2>1, <2>2, <1>5 DEF Step
<1>2. CASE ~Matches(t, p, i)
  <2>1. ReplaceStep(t, p, v)[i] = Step(<<t[i]>>, i + 1)
    BY <1>2 DEF ReplaceStep, Copy
  <2>2. ReplaceStep(s, p, v)[Len(x) + i] = Step(<<t[i]>>, Len(x) + i + 1)
    BY <1>2, <1>6, <1>7, <1>8 DEF ReplaceStep, Copy
  <2> QED BY <2>1, <2>2, <1>5 DEF Step
<1> QED BY <1>1, <1>2

LEMMA ReplaceType ==
  ASSUME NEW s \in Text, NEW p \in Text, Len(p) > 0, NEW v \in Text
  PROVE  ReplaceAll(s, p, v) \in Text
<1>1. ReplaceAll(s, p, v) = Rewrite(Len(s), ReplaceStep(s, p, v))
  BY DEF ReplaceAll, ReplaceStep
<1>2. Len(s) \in Nat
  BY DEF Text
<1> QED BY <1>1, <1>2, ReplacePass, RewriteType DEF Text

LEMMA ReplaceNothing ==
  ASSUME NEW p, NEW v
  PROVE  ReplaceAll(<<>>, p, v) = <<>>
BY RewriteNothing DEF ReplaceAll

\* What the pass writes first, then the rest replaced on its own.
LEMMA ReplaceSplit ==
  ASSUME NEW x \in Text, Len(x) > 0, NEW t \in Text, NEW p \in Text, Len(p) > 0, NEW v \in Text,
         NEW w, ReplaceStep(Joined(x, t), p, v)[1].write = w,
         ReplaceStep(Joined(x, t), p, v)[1].goto = Len(x) + 1
  PROVE  ReplaceAll(Joined(x, t), p, v) = Joined(w, ReplaceAll(t, p, v))
<1> DEFINE s == Joined(x, t)
           step == ReplaceStep(t, p, v)
           other == ReplaceStep(s, p, v)
<1>5. x \in Seq(Char) /\ t \in Seq(Char)
  BY DEF Text
<1>6. s \in Text /\ Len(s) = Len(x) + Len(t)
  BY <1>5, CharBehind DEF Text
<1>7. /\ ReplaceAll(s, p, v) = Rewrite(Len(s), other)
      /\ ReplaceAll(t, p, v) = Rewrite(Len(t), step)
  BY DEF ReplaceAll, ReplaceStep
<1>8. IsPass(Len(t), step, Char) /\ IsPass(Len(s), other, Char)
  BY <1>6, ReplacePass
<1>9. Behind(Len(x), Len(t), step, other)
  BY ReplaceBehind
<1>10. Len(t) \in Nat /\ Len(s) \in Nat /\ Len(x) \in Nat \ {0}
  BY <1>5, <1>6
<1>11. other[1].write = w /\ other[1].goto = Len(x) + 1
  OBVIOUS
<1> HIDE DEF s, step, other
<1>12. Rewrite(Len(s), other) = Joined(w, Rewrite(Len(t), step))
  BY <1>6, <1>8, <1>9, <1>10, <1>11, RewriteSplit
<1> QED BY <1>7, <1>12 DEF s

\* A placeholder at the beginning is replaced and the pass goes on behind it.
LEMMA ReplaceMatch ==
  ASSUME NEW x \in Text, NEW t \in Text, NEW p \in Text, Len(p) > 0, NEW v \in Text,
         Matches(Joined(x, t), p, 1), Len(x) = Len(p)
  PROVE  ReplaceAll(Joined(x, t), p, v) = Joined(v, ReplaceAll(t, p, v))
<1> DEFINE s == Joined(x, t)
           other == ReplaceStep(s, p, v)
<1>1. x \in Seq(Char) /\ t \in Seq(Char) /\ Len(x) > 0
  BY DEF Text
<1>2. Len(s) = Len(x) + Len(t)
  BY <1>1, CharBehind
<1>3. 1 \in 1 .. Len(s) /\ 1 + Len(p) = Len(x) + 1
  BY <1>1, <1>2
<1>4. other[1] = Step(v, 1 + Len(p))
  BY <1>3 DEF ReplaceStep
<1> HIDE DEF other
<1>5. other[1].write = v /\ other[1].goto = Len(x) + 1
  BY <1>3, <1>4 DEF Step
<1> QED BY <1>1, <1>5, ReplaceSplit DEF other

Single(x) == Len(x) = 1

\* A character that begins no placeholder is copied.
LEMMA ReplaceCopy ==
  ASSUME NEW x \in Text, Single(x), NEW t \in Text, NEW p \in Text, Len(p) > 0, NEW v \in Text,
         ~Matches(Joined(x, t), p, 1)
  PROVE  ReplaceAll(Joined(x, t), p, v) = Joined(x, ReplaceAll(t, p, v))
<1> DEFINE s == Joined(x, t)
           other == ReplaceStep(s, p, v)
<1>1. x \in Seq(Char) /\ t \in Seq(Char)
  BY DEF Text
<1>2. Len(s) = Len(x) + Len(t) /\ \A i \in 1 .. Len(x) : s[i] = x[i]
  BY <1>1, CharBehind
<1>3. 1 \in 1 .. Len(s) /\ 1 \in 1 .. Len(x) /\ 1 + 1 = Len(x) + 1 /\ Len(x) > 0
  BY <1>1, <1>2 DEF Single
<1>4. other[1] = Step(<<s[1]>>, 1 + 1)
  BY <1>3 DEF ReplaceStep, Copy
<1>6. <<s[1]>> = x
  BY <1>1, <1>2, <1>3 DEF Single
<1> HIDE DEF other
<1>5. other[1].write = x /\ other[1].goto = Len(x) + 1
  BY <1>3, <1>4, <1>6 DEF Step
<1>7. Len(x) > 0
  BY <1>3
<1> QED BY <1>5, <1>7, ReplaceSplit DEF other

-----------------------------------------------------------------------------
(***************************************************************************)
(* Texts in which no placeholder begins.                                   *)
(***************************************************************************)
LEMMA Assoc ==
  ASSUME NEW X, NEW x \in Seq(X), NEW y \in Seq(X), NEW z \in Seq(X)
  PROVE  Joined(Joined(x, y), z) = Joined(x, Joined(y, z))
BY DEF Joined

LEMMA JoinedNothing ==
  ASSUME NEW X, NEW x \in Seq(X)
  PROVE  Joined(<<>>, x) = x /\ Joined(x, <<>>) = x
BY DEF Joined

\* Nothing of a placeholder begins in a plain text, whatever follows it.
Plain(f) ==
  /\ f \in Text /\ (f # <<>> => f[Len(f)] # "$")
  /\ \A i \in 1 .. Len(f) : ~OpensAt(f, i)

LEMMA PlainFirst ==
  ASSUME NEW f, Plain(f), f # <<>>, NEW u \in Text
  PROVE  /\ Joined(f, u) = Joined(<<f[1]>>, Joined(Tail(f), u))
         /\ Plain(Tail(f)) /\ Len(Tail(f)) < Len(f)
         /\ ~OpensAt(Joined(f, u), 1) /\ <<f[1]>> \in Text /\ Len(<<f[1]>>) = 1
         /\ Tail(f) \in Text /\ Joined(Tail(f), u) \in Text
<1>1. f \in Seq(Char) /\ u \in Seq(Char)
  BY DEF Plain, Text
<1> DEFINE g == Tail(f)
           c == <<f[1]>>
<1>2. /\ f = Joined(c, g) /\ g \in Seq(Char) /\ c \in Seq(Char) /\ Len(g) = Len(f) - 1
      /\ Len(f) \in Nat \ {0} /\ \A i \in 1 .. Len(f) - 1 : g[i] = f[i + 1]
  BY <1>1, OneAndRest
<1>3. Len(c) = 1 /\ c[1] = f[1]
  OBVIOUS
<1>4. /\ Joined(f, u) \in Seq(Char) /\ Len(Joined(f, u)) = Len(f) + Len(u)
      /\ \A i \in 1 .. Len(f) : Joined(f, u)[i] = f[i]
  BY <1>1, CharBehind
<1> HIDE DEF g, c
<1>5. Joined(f, u) = Joined(c, Joined(g, u))
  BY <1>1, <1>2, Assoc
<1>6. Joined(g, u) \in Text
  BY <1>1, <1>2, CharBehind DEF Text
<1>7. Plain(g)
  <2>1. g # <<>> => g[Len(g)] # "$"
    <3> SUFFICES ASSUME g # <<>> PROVE g[Len(g)] # "$"
      OBVIOUS
    <3>1. Len(g) \in 1 .. Len(f) - 1
      BY <1>2
    <3>2. g[Len(g)] = f[Len(f)]
      BY <1>2, <3>1
    <3> QED BY <3>2 DEF Plain
  <2>2. ASSUME NEW i \in 1 .. Len(g), OpensAt(g, i) PROVE FALSE
    <3>4. i + 1 <= Len(g) /\ g[i] = "$" /\ g[i + 1] = "{"
      BY <2>2 DEF OpensAt
    <3>1. /\ i \in 1 .. Len(f) - 1 /\ i + 1 \in 1 .. Len(f) - 1 /\ i + 1 \in 1 .. Len(f)
          /\ i + 1 + 1 <= Len(f)
      <4>1. Len(f) \in Nat \ {0} /\ Len(g) = Len(f) - 1 /\ i + 1 <= Len(g)
        BY <1>2, <3>4
      <4> QED BY <4>1
    <3>2. g[i] = f[i + 1] /\ g[i + 1] = f[i + 1 + 1]
      BY <1>2, <3>1
    <3>3. OpensAt(f, i + 1)
      BY <3>1, <3>2, <3>4, Zenon DEF OpensAt
    <3> QED BY <3>1, <3>3 DEF Plain
  <2> QED BY <1>2, <2>1, <2>2 DEF Plain, Text
<1>8. ~OpensAt(Joined(f, u), 1)
  <2> SUFFICES ASSUME OpensAt(Joined(f, u), 1) PROVE FALSE
    OBVIOUS
  <2>1. Joined(f, u)[1] = "$" /\ Joined(f, u)[1 + 1] = "{"
    BY DEF OpensAt
  <2>2. f[1] = "$"
    <3>1. 1 \in 1 .. Len(f)
      BY <1>2
    <3> QED BY <1>4, <2>1, <3>1
  <2>3. CASE Len(f) = 1
    BY <1>1, <2>2, <2>3 DEF Plain
  <2>4. CASE Len(f) # 1
    <3>1. 1 \in 1 .. Len(f) /\ 1 + 1 \in 1 .. Len(f) /\ 1 + 1 <= Len(f)
      BY <1>2, <2>4
    <3>2. f[1 + 1] = "{"
      BY <1>4, <2>1, <3>1
    <3>3. OpensAt(f, 1)
      BY <2>2, <3>1, <3>2, Zenon DEF OpensAt
    <3> QED BY <3>1, <3>3 DEF Plain
  <2> QED BY <2>3, <2>4
<1> QED BY <1>2, <1>3, <1>5, <1>6, <1>7, <1>8 DEF g, c, Text

LEMMA HolderOpens ==
  ASSUME NEW s \in Text, NEW n \in Char, ~OpensAt(s, 1)
  PROVE  ~Matches(s, Holder(<<n>>), 1)
<1>1. Matches(s, Holder(<<n>>), 1) => HoldsAt(s, n, 1)
  BY HolderAt
<1>2. Len(s) \in Int
  BY DEF Text
<1>3. 1 + 3 <= Len(s) => 1 + 1 <= Len(s)
  BY <1>2
<1> QED BY <1>1, <1>3, Zenon DEF HoldsAt, OpensAt

\* A plain text is copied whole.
LEMMA ReplacePlain ==
  ASSUME NEW u \in Text, NEW n \in Char, NEW v \in Text, NEW f, Plain(f)
  PROVE  ReplaceAll(Joined(f, u), Holder(<<n>>), v) = Joined(f, ReplaceAll(u, Holder(<<n>>), v))
<1> DEFINE p == Holder(<<n>>)
           C == {g \in Text : /\ Plain(g)
                              /\ ReplaceAll(Joined(g, u), p, v) # Joined(g, ReplaceAll(u, p, v))}
<1>1. p \in Text /\ Len(p) > 0
  <2>1. p \in Text /\ Len(p) = 4
    BY HolderIs
  <2> HIDE DEF p
  <2> QED BY <2>1
<1> SUFFICES ASSUME C # {} PROVE FALSE
  BY DEF Plain
<1>2. PICK g \in C : \A h \in C : Len(g) <= Len(h)
  <2>1. C \in SUBSET Seq(Char)
    BY DEF Text
  <2> HIDE DEF C
  <2> QED BY <2>1, ShortestText
<1>3. g \in Text /\ Plain(g) /\ ReplaceAll(Joined(g, u), p, v) # Joined(g, ReplaceAll(u, p, v))
  BY <1>2
<1>4. ReplaceAll(u, p, v) \in Seq(Char) /\ u \in Seq(Char)
  BY <1>1, ReplaceType DEF Text
<1>5. g # <<>>
  <2>1. Joined(<<>>, u) = u /\ Joined(<<>>, ReplaceAll(u, p, v)) = ReplaceAll(u, p, v)
    BY <1>4, JoinedNothing
  <2> QED BY <1>3, <2>1
<1> DEFINE h == Tail(g)
           c == <<g[1]>>
<1>6. /\ Joined(g, u) = Joined(c, Joined(h, u)) /\ Plain(h) /\ Len(h) < Len(g)
      /\ ~OpensAt(Joined(g, u), 1) /\ c \in Text /\ Len(c) = 1
      /\ h \in Text /\ Joined(h, u) \in Text
  BY <1>3, <1>5, PlainFirst
<1>7. Joined(g, ReplaceAll(u, p, v)) = Joined(c, Joined(h, ReplaceAll(u, p, v)))
  <2>1. ReplaceAll(u, p, v) \in Text
    BY <1>4 DEF Text
  <2> QED BY <1>3, <1>5, <2>1, PlainFirst
<1> HIDE DEF h, c, p
<1>8. ReplaceAll(Joined(h, u), p, v) = Joined(h, ReplaceAll(u, p, v))
  <2>1. h \notin C
    <3>1. Len(h) \in Nat /\ Len(g) \in Nat
      BY <1>3, <1>6 DEF Text
    <3> QED BY <1>2, <1>6, <3>1
  <2> QED BY <1>6, <2>1
<1>9. ~Matches(Joined(c, Joined(h, u)), p, 1)
  <2>1. Joined(c, Joined(h, u)) \in Text
    BY <1>6, CharBehind DEF Text
  <2> QED BY <1>6, <2>1, HolderOpens DEF p
<1>10. ReplaceAll(Joined(c, Joined(h, u)), p, v) = Joined(c, ReplaceAll(Joined(h, u), p, v))
  <2>1. Single(c) /\ c \in Text /\ Joined(h, u) \in Text
    BY <1>6 DEF Single
  <2> QED BY <1>1, <1>9, <2>1, ReplaceCopy
<1> QED BY <1>3, <1>6, <1>7, <1>8, <1>10

-----------------------------------------------------------------------------
(***************************************************************************)
(* The names of a text (TemplateVars, Dangling).                           *)
(***************************************************************************)
ClosedAt(s, i) == EndAt(s, {"}"}, i + 2)
VarsStep(s) ==
  [i \in 1 .. Len(s) |->
    IF ~Matches(s, Opening, i) THEN Step(<<>>, i + 1)
    ELSE IF ClosedAt(s, i) > Len(s) THEN Step(<<>>, ClosedAt(s, i))
    ELSE Step(<<SubSeq(s, i + 2, ClosedAt(s, i) - 1)>>, ClosedAt(s, i) + 1)]

\* TemplateVars as a pass of its own.
LEMMA VarsAre ==
  ASSUME NEW s
  PROVE  TemplateVars(s) = Rewrite(Len(s), VarsStep(s))
BY DEF TemplateVars, VarsStep, ClosedAt

\* Where the name of a placeholder ends.
LEMMA CloseFacts ==
  ASSUME NEW s \in Text, NEW i \in 1 .. Len(s), OpensAt(s, i)
  PROVE  /\ ClosedAt(s, i) \in i + 2 .. Len(s) + 1 /\ i + 2 \in 1 .. Len(s) + 1
         /\ \A j \in i + 2 .. ClosedAt(s, i) - 1 : s[j] # "}"
         /\ ClosedAt(s, i) <= Len(s) => s[ClosedAt(s, i)] = "}"
<1>1. s \in Seq(Char) /\ Len(s) \in Nat
  BY DEF Text
<1>2. i + 1 <= Len(s)
  BY DEF OpensAt
<1>3. i + 2 \in 1 .. Len(s) + 1
  BY <1>1, <1>2
<1> DEFINE c == i + 2
           e == EndAt(s, {"}"}, c)
<1>4. c \in 1 .. Len(s) + 1
  BY <1>3
<1> HIDE DEF c
<1>5. /\ e \in c .. Len(s) + 1 /\ \A j \in c .. e - 1 : s[j] \notin {"}"}
      /\ e <= Len(s) => s[e] \in {"}"}
  BY <1>1, <1>4, EndAtFacts
<1>6. e = ClosedAt(s, i)
  BY DEF e, c, ClosedAt
<1> HIDE DEF e
<1> QED BY <1>3, <1>5, <1>6 DEF c

LEMMA VarsPass ==
  ASSUME NEW s \in Text
  PROVE  IsPass(Len(s), VarsStep(s), Text)
<1> SUFFICES ASSUME NEW i \in 1 .. Len(s)
             PROVE  /\ VarsStep(s)[i].write \in Seq(Text)
                    /\ VarsStep(s)[i].goto \in i + 1 .. Len(s) + 1
  BY DEF IsPass
<1>1. s \in Seq(Char) /\ Len(s) \in Nat /\ i \in Nat \ {0}
  BY DEF Text
<1> DEFINE e == ClosedAt(s, i)
<1>2. CASE ~Matches(s, Opening, i)
  <2>1. VarsStep(s)[i] = Step(<<>>, i + 1)
    BY <1>2 DEF VarsStep
  <2> QED BY <1>1, <2>1 DEF Step
<1>3. CASE Matches(s, Opening, i)
  <2>1. OpensAt(s, i)
    BY <1>1, <1>3, OpeningAt
  <2>2. e \in i + 2 .. Len(s) + 1
    BY <2>1, CloseFacts
  <2>3. /\ e > Len(s) => VarsStep(s)[i] = Step(<<>>, e)
        /\ ~(e > Len(s)) => VarsStep(s)[i] = Step(<<SubSeq(s, i + 2, e - 1)>>, e + 1)
    BY <1>3 DEF VarsStep
  <2> HIDE DEF e
  <2>4. CASE e > Len(s)
    <3>1. e \in i + 1 .. Len(s) + 1
      BY <2>2, <1>1
    <3>2. <<>> \in Seq(Text)
      OBVIOUS
    <3>3. VarsStep(s)[i].write = <<>> /\ VarsStep(s)[i].goto = e
      BY <2>3, <2>4 DEF Step
    <3> QED BY <3>1, <3>2, <3>3
  <2>5. CASE ~(e > Len(s))
    <3>1. SubSeq(s, i + 2, e - 1) \in Text
      BY <1>1, <2>2, <2>5 DEF Text
    <3>2. <<SubSeq(s, i + 2, e - 1)>> \in Seq(Text)
      BY <3>1
    <3>3. e + 1 \in i + 1 .. Len(s) + 1
      BY <2>2, <2>5, <1>1
    <3> DEFINE w == <<SubSeq(s, i + 2, e - 1)>>
    <3>4. VarsStep(s)[i].write = w /\ VarsStep(s)[i].goto = e + 1
      BY <2>3, <2>5 DEF Step
    <3>5. w \in Seq(Text)
      BY <3>2
    <3> HIDE DEF w
    <3> QED BY <3>3, <3>4, <3>5
  <2> QED BY <2>4, <2>5
<1> QED BY <1>2, <1>3

LEMMA OpensBehind ==
  ASSUME NEW x \in Text, NEW t \in Text, NEW i \in Nat \ {0}
  PROVE  /\ OpensAt(t, i) => OpensAt(Joined(x, t), Len(x) + i)
         /\ OpensAt(Joined(x, t), Len(x) + i) => OpensAt(t, i)
<1>1. x \in Seq(Char) /\ t \in Seq(Char) /\ Len(x) \in Nat
  BY DEF Text
<1>5. Joined(x, t) \in Text
  BY <1>1, CharBehind DEF Text
<1>2. Joined(x, t) \in Text /\ Len(x) + i \in Nat \ {0}
  BY <1>1, <1>5
<1>3. <<"$", "{">> \in Seq(Char)
  <2>1. "$" \in Char /\ "{" \in Char
    BY SubstitutionChars
  <2> QED BY <2>1, Two
<1>4. /\ Matches(t, Opening, i) => Matches(Joined(x, t), Opening, Len(x) + i)
      /\ Matches(Joined(x, t), Opening, Len(x) + i) => Matches(t, Opening, i)
  BY <1>1, <1>3, MatchBehind DEF Opening
<1> QED BY <1>2, <1>4, OpeningAt

LEMMA CloseBehind ==
  ASSUME NEW x \in Text, NEW t \in Text, NEW i \in 1 .. Len(t), OpensAt(t, i)
  PROVE  ClosedAt(Joined(x, t), Len(x) + i) = Len(x) + ClosedAt(t, i)
<1>1. x \in Seq(Char) /\ t \in Seq(Char)
  BY DEF Text
<1>2. i + 2 \in 1 .. Len(t) + 1
  BY CloseFacts
<1> DEFINE c == i + 2
<1>3. c \in 1 .. Len(t) + 1
  BY <1>2
<1> HIDE DEF c
<1>6. \A chars : EndAt(Joined(x, t), chars, Len(x) + c) = Len(x) + EndAt(t, chars, c)
  BY <1>1, <1>3, EndBehind
<1>4. EndAt(Joined(x, t), {"}"}, Len(x) + c) = Len(x) + EndAt(t, {"}"}, c)
  BY <1>6
<1>5. Len(x) + c = Len(x) + i + 2
  BY <1>1 DEF c
<1> QED BY <1>4, <1>5 DEF ClosedAt, c

LEMMA VarsBehind ==
  ASSUME NEW x \in Text, NEW t \in Text
  PROVE  Behind(Len(x), Len(t), VarsStep(t), VarsStep(Joined(x, t)))
<1> DEFINE s == Joined(x, t)
<1>5. x \in Seq(Char) /\ t \in Seq(Char) /\ Len(x) \in Nat /\ Len(t) \in Nat
  BY DEF Text
<1>6. s \in Seq(Char) /\ Len(s) = Len(x) + Len(t)
  BY <1>5, CharBehind
<1> SUFFICES ASSUME NEW i \in 1 .. Len(t)
             PROVE  /\ VarsStep(s)[Len(x) + i].write = VarsStep(t)[i].write
                    /\ VarsStep(s)[Len(x) + i].goto = Len(x) + VarsStep(t)[i].goto
  BY DEF Behind
<1>7. /\ Matches(t, Opening, i) => Matches(s, Opening, Len(x) + i)
      /\ Matches(s, Opening, Len(x) + i) => Matches(t, Opening, i)
  <2>1. i \in Nat \ {0} /\ Len(x) + i \in Nat \ {0} /\ s \in Text
    BY <1>5, <1>6 DEF Text
  <2> HIDE DEF s
  <2>2. /\ OpensAt(t, i) => OpensAt(s, Len(x) + i)
        /\ OpensAt(s, Len(x) + i) => OpensAt(t, i)
    BY <2>1, OpensBehind DEF s
  <2> QED BY <2>1, <2>2, OpeningAt
<1>8. Len(x) + i \in 1 .. Len(s)
  BY <1>5, <1>6
<1>1. CASE ~Matches(t, Opening, i)
  <2>1. VarsStep(t)[i] = Step(<<>>, i + 1)
    BY <1>1 DEF VarsStep
  <2>2. VarsStep(s)[Len(x) + i] = Step(<<>>, Len(x) + i + 1)
    BY <1>1, <1>7, <1>8 DEF VarsStep
  <2> QED BY <1>5, <2>1, <2>2 DEF Step
<1>2. CASE Matches(t, Opening, i)
  <2> DEFINE e == ClosedAt(t, i)
             f == ClosedAt(s, Len(x) + i)
  <2>1. OpensAt(t, i)
    <3>1. i \in Nat \ {0}
      OBVIOUS
    <3> QED BY <1>2, <3>1, OpeningAt
  <2>2. e \in i + 2 .. Len(t) + 1 /\ f = Len(x) + e
    BY <2>1, CloseFacts, CloseBehind
  <2>3. /\ e > Len(t) => VarsStep(t)[i] = Step(<<>>, e)
        /\ ~(e > Len(t)) => VarsStep(t)[i] = Step(<<SubSeq(t, i + 2, e - 1)>>, e + 1)
    BY <1>2 DEF VarsStep
  <2>4. /\ f > Len(s) => VarsStep(s)[Len(x) + i] = Step(<<>>, f)
        /\ ~(f > Len(s)) => VarsStep(s)[Len(x) + i]
                              = Step(<<SubSeq(s, Len(x) + i + 2, f - 1)>>, f + 1)
    BY <1>2, <1>7, <1>8 DEF VarsStep
  <2> HIDE DEF e, f, s
  <2>5. CASE e > Len(t)
    <3>1. f > Len(s)
      BY <1>5, <1>6, <2>2, <2>5
    <3> QED BY <2>2, <2>3, <2>4, <2>5, <3>1 DEF Step
  <2>6. CASE ~(e > Len(t))
    <3>1. ~(f > Len(s)) /\ f + 1 = Len(x) + (e + 1)
      BY <1>5, <1>6, <2>2, <2>6
    <3> DEFINE a == i + 2
               b == e - 1
    <3>2. a \in 1 .. Len(t) + 1 /\ b \in a - 1 .. Len(t)
      BY <1>5, <2>2, <2>6
    <3>3. Len(x) + a = Len(x) + i + 2 /\ Len(x) + b = f - 1
      BY <1>5, <2>2
    <3> HIDE DEF a, b
    <3>4. SubSeq(s, Len(x) + a, Len(x) + b) = SubSeq(t, a, b)
      BY <1>5, <3>2, PartBehind DEF s
    <3>5. SubSeq(s, Len(x) + i + 2, f - 1) = SubSeq(t, i + 2, e - 1)
      BY <3>3, <3>4 DEF a, b
    <3> DEFINE w == <<SubSeq(t, i + 2, e - 1)>>
    <3>6. VarsStep(t)[i] = Step(w, e + 1)
      BY <2>3, <2>6
    <3>7. VarsStep(s)[Len(x) + i] = Step(w, Len(x) + (e + 1))
      BY <2>4, <3>1, <3>5
    <3> HIDE DEF w
    <3> QED BY <3>6, <3>7 DEF Step
  <2> QED BY <2>5, <2>6
<1> QED BY <1>1, <1>2

LEMMA VarsType ==
  ASSUME NEW s \in Text
  PROVE  TemplateVars(s) \in Seq(Text)
<1>1. Len(s) \in Nat
  BY DEF Text
<1> QED BY <1>1, VarsAre, VarsPass, RewriteType

LEMMA VarsNothing == TemplateVars(<<>>) = <<>>
BY RewriteNothing DEF TemplateVars

\* The first character begins no placeholder, or the first placeholder ends
\* with x.
LEMMA VarsFirst ==
  ASSUME NEW x \in Text, Len(x) > 0, NEW t \in Text
  PROVE  /\ ~OpensAt(Joined(x, t), 1) /\ Len(x) = 1
              => TemplateVars(Joined(x, t)) = TemplateVars(t)
         /\ OpensAt(Joined(x, t), 1) /\ ClosedAt(Joined(x, t), 1) = Len(x)
              => TemplateVars(Joined(x, t))
                   = Joined(<<SubSeq(Joined(x, t), 3, Len(x) - 1)>>, TemplateVars(t))
<1> DEFINE s == Joined(x, t)
           step == VarsStep(t)
           other == VarsStep(s)
<1>5. x \in Seq(Char) /\ t \in Seq(Char)
  BY DEF Text
<1>6. s \in Text /\ Len(s) = Len(x) + Len(t)
  BY <1>5, CharBehind DEF Text
<1>7. TemplateVars(s) = Rewrite(Len(s), other) /\ TemplateVars(t) = Rewrite(Len(t), step)
  BY VarsAre
<1>8. IsPass(Len(t), step, Text) /\ IsPass(Len(s), other, Text)
  BY <1>6, VarsPass
<1>9. Behind(Len(x), Len(t), step, other)
  BY VarsBehind
<1>10. Len(t) \in Nat /\ Len(s) \in Nat /\ Len(x) \in Nat \ {0} /\ 1 \in 1 .. Len(s)
  BY <1>5, <1>6
<1>11. 1 + 2 = 3 /\ 1 + 1 = 2
  OBVIOUS
<1>12. ~Matches(s, Opening, 1) => other[1] = Step(<<>>, 2)
  BY <1>10, <1>11 DEF VarsStep
<1>13. Matches(s, Opening, 1) /\ ~(ClosedAt(s, 1) > Len(s))
         => other[1] = Step(<<SubSeq(s, 3, ClosedAt(s, 1) - 1)>>, ClosedAt(s, 1) + 1)
  BY <1>10, <1>11 DEF VarsStep
<1> HIDE DEF step, other
<1>1. ASSUME ~OpensAt(s, 1), Len(x) = 1 PROVE TemplateVars(s) = TemplateVars(t)
  <2>1. ~Matches(s, Opening, 1)
    BY <1>1, <1>6, OpeningAt
  <2>2. other[1].write = <<>> /\ other[1].goto = Len(x) + 1
    BY <1>1, <1>12, <2>1 DEF Step
  <2>3. Rewrite(Len(s), other) = Joined(<<>>, Rewrite(Len(t), step))
    BY <1>6, <1>8, <1>9, <1>10, <2>2, RewriteSplit
  <2>4. TemplateVars(t) \in Seq(Text)
    BY VarsType
  <2> QED BY <1>7, <2>3, <2>4, JoinedNothing
<1>2. ASSUME OpensAt(s, 1), ClosedAt(s, 1) = Len(x)
      PROVE  TemplateVars(s) = Joined(<<SubSeq(s, 3, Len(x) - 1)>>, TemplateVars(t))
  <2>1. Matches(s, Opening, 1)
    BY <1>2, <1>6, OpeningAt
  <2>2. ~(Len(x) > Len(s))
    BY <1>6, <1>10
  <2> DEFINE w == <<SubSeq(s, 3, Len(x) - 1)>>
  <2>5. other[1] = Step(w, Len(x) + 1)
    BY <1>2, <1>13, <2>1, <2>2
  <2> HIDE DEF w
  <2>3. other[1].write = w /\ other[1].goto = Len(x) + 1
    BY <2>5 DEF Step
  <2>4. Rewrite(Len(s), other) = Joined(w, Rewrite(Len(t), step))
    BY <1>6, <1>8, <1>9, <1>10, <2>3, RewriteSplit
  <2> QED BY <1>7, <2>4 DEF w
<1> QED BY <1>1, <1>2

-----------------------------------------------------------------------------
(***************************************************************************)
(* Texts whose placeholders are declared ones.                             *)
(***************************************************************************)
DeclaredAt(s, i) == i + 3 <= Len(s) /\ s[i + 2] \in Declared /\ s[i + 3] = "}"
WellFormed(s) == \A i \in 1 .. Len(s) : OpensAt(s, i) => DeclaredAt(s, i)
NamesOf(s) == {s[i + 2] : i \in {j \in 1 .. Len(s) : OpensAt(s, j)}}

LEMMA DeclaredBehind ==
  ASSUME NEW x \in Text, NEW u \in Text, NEW i \in 1 .. Len(u)
  PROVE  /\ DeclaredAt(u, i) => /\ DeclaredAt(Joined(x, u), Len(x) + i)
                                /\ Joined(x, u)[Len(x) + i + 2] = u[i + 2]
         /\ DeclaredAt(Joined(x, u), Len(x) + i) => DeclaredAt(u, i)
<1> DEFINE s == Joined(x, u)
<1>1. x \in Seq(Char) /\ u \in Seq(Char) /\ Len(x) \in Nat /\ Len(u) \in Nat
  BY DEF Text
<1>2. /\ Len(s) = Len(x) + Len(u)
      /\ \A j \in 1 .. Len(u) : s[Len(x) + j] = u[j]
  BY <1>1, CharBehind
<1> HIDE DEF s
<1>3. /\ Len(x) + (i + 2) = Len(x) + i + 2 /\ Len(x) + (i + 3) = Len(x) + i + 3
      /\ i + 3 <= Len(u) => i + 2 \in 1 .. Len(u) /\ i + 3 \in 1 .. Len(u)
      /\ i + 3 <= Len(u) => Len(x) + i + 3 <= Len(s)
      /\ Len(x) + i + 3 <= Len(s) => i + 3 <= Len(u)
  BY <1>1, <1>2
<1>4. i + 3 <= Len(u) => /\ s[Len(x) + i + 2] = u[i + 2] /\ s[Len(x) + i + 3] = u[i + 3]
  BY <1>2, <1>3
<1> QED BY <1>3, <1>4, Zenon DEF DeclaredAt, s

\* An opening is in the first part or one of the rest.
LEMMA OpeningsBehind ==
  ASSUME NEW x \in Text, NEW u \in Text, NEW j \in 1 .. Len(Joined(x, u)),
         j \notin 1 .. Len(x)
  PROVE  \E i \in 1 .. Len(u) : /\ j = Len(x) + i
                                /\ OpensAt(Joined(x, u), j) => OpensAt(u, i)
<1>1. x \in Seq(Char) /\ u \in Seq(Char) /\ Len(x) \in Nat /\ Len(u) \in Nat
  BY DEF Text
<1>2. Len(Joined(x, u)) = Len(x) + Len(u)
  BY <1>1, CharBehind
<1> DEFINE i == j - Len(x)
<1>3. i \in 1 .. Len(u) /\ j = Len(x) + i /\ i \in Nat \ {0}
  BY <1>1, <1>2
<1> HIDE DEF i
<1>4. OpensAt(Joined(x, u), Len(x) + i) => OpensAt(u, i)
  BY <1>3, OpensBehind
<1> QED BY <1>3, <1>4

\* A text is well formed when each part is and the parts make no new
\* placeholder.
LEMMA WellFormedBehind ==
  ASSUME NEW x \in Text, NEW u \in Text
  PROVE  /\ WellFormed(Joined(x, u)) => WellFormed(u)
         /\ WellFormed(u) /\ (\A j \in 1 .. Len(x) :
                                OpensAt(Joined(x, u), j) => DeclaredAt(Joined(x, u), j))
              => WellFormed(Joined(x, u))
         /\ WellFormed(u) =>
              NamesOf(Joined(x, u)) =
                NamesOf(u) \cup {Joined(x, u)[j + 2] :
                                   j \in {k \in 1 .. Len(x) : OpensAt(Joined(x, u), k)}}
<1> DEFINE s == Joined(x, u)
<1>1. x \in Seq(Char) /\ u \in Seq(Char) /\ Len(x) \in Nat /\ Len(u) \in Nat
  BY DEF Text
<1>2. Len(s) = Len(x) + Len(u)
  BY <1>1, CharBehind
<1>3. \A i \in 1 .. Len(u) : OpensAt(u, i) => OpensAt(s, Len(x) + i)
  <2>1. \A i \in 1 .. Len(u) : i \in Nat \ {0}
    BY <1>1
  <2> QED BY <2>1, OpensBehind
<1>4. \A i \in 1 .. Len(u) :
        /\ DeclaredAt(u, i) => DeclaredAt(s, Len(x) + i) /\ s[Len(x) + i + 2] = u[i + 2]
        /\ DeclaredAt(s, Len(x) + i) => DeclaredAt(u, i)
  BY DeclaredBehind
<1>5. \A j \in 1 .. Len(s) : j \notin 1 .. Len(x) =>
        \E i \in 1 .. Len(u) : j = Len(x) + i /\ (OpensAt(s, j) => OpensAt(u, i))
  BY OpeningsBehind
<1> HIDE DEF s
<1>6. /\ \A i \in 1 .. Len(u) : Len(x) + i \in 1 .. Len(s)
      /\ \A j \in 1 .. Len(x) : j \in 1 .. Len(s)
  BY <1>1, <1>2
<1>7. WellFormed(s) => WellFormed(u)
  BY <1>3, <1>4, <1>6 DEF WellFormed
<1>8. ASSUME WellFormed(u), \A j \in 1 .. Len(x) : OpensAt(s, j) => DeclaredAt(s, j)
      PROVE  WellFormed(s)
  <2> SUFFICES ASSUME NEW j \in 1 .. Len(s), OpensAt(s, j) PROVE DeclaredAt(s, j)
    BY DEF WellFormed
  <2>1. CASE j \in 1 .. Len(x)
    BY <1>8, <2>1
  <2>2. CASE j \notin 1 .. Len(x)
    <3>1. PICK i \in 1 .. Len(u) : j = Len(x) + i /\ OpensAt(u, i)
      BY <1>5, <2>2
    <3>2. DeclaredAt(u, i)
      BY <1>8, <3>1 DEF WellFormed
    <3> QED BY <1>4, <3>1, <3>2
  <2> QED BY <2>1, <2>2
<1>9. ASSUME WellFormed(u)
      PROVE  NamesOf(s) = NamesOf(u) \cup {s[j + 2] : j \in {k \in 1 .. Len(x) : OpensAt(s, k)}}
  <2> DEFINE N == {s[j + 2] : j \in {k \in 1 .. Len(x) : OpensAt(s, k)}}
  <2>1. ASSUME NEW n \in NamesOf(s) PROVE n \in NamesOf(u) \cup N
    <3>1. PICK j \in 1 .. Len(s) : OpensAt(s, j) /\ n = s[j + 2]
      BY <2>1 DEF NamesOf
    <3>2. CASE j \in 1 .. Len(x)
      BY <3>1, <3>2
    <3>3. CASE j \notin 1 .. Len(x)
      <4>1. PICK i \in 1 .. Len(u) : j = Len(x) + i /\ OpensAt(u, i)
        BY <1>5, <3>1, <3>3
      <4>2. DeclaredAt(u, i)
        BY <1>9, <4>1 DEF WellFormed
      <4>3. n = u[i + 2]
        BY <1>4, <3>1, <4>1, <4>2
      <4> QED BY <4>1, <4>3 DEF NamesOf
    <3> QED BY <3>2, <3>3
  <2>2. ASSUME NEW n \in NamesOf(u) PROVE n \in NamesOf(s)
    <3>1. PICK i \in 1 .. Len(u) : OpensAt(u, i) /\ n = u[i + 2]
      BY <2>2 DEF NamesOf
    <3>2. DeclaredAt(u, i)
      BY <1>9, <3>1 DEF WellFormed
    <3>3. OpensAt(s, Len(x) + i) /\ n = s[Len(x) + i + 2] /\ Len(x) + i \in 1 .. Len(s)
      BY <1>3, <1>4, <1>6, <3>1, <3>2
    <3> QED BY <3>3 DEF NamesOf
  <2>3. N \subseteq NamesOf(s)
    BY <1>6 DEF NamesOf
  <2> QED BY <2>1, <2>2, <2>3
<1> QED BY <1>7, <1>8, <1>9 DEF s

\* A character that begins no placeholder adds no name.
LEMMA AddChar ==
  ASSUME NEW x \in Text, Len(x) = 1, NEW u \in Text, ~OpensAt(Joined(x, u), 1)
  PROVE  /\ WellFormed(Joined(x, u)) => WellFormed(u)
         /\ WellFormed(u) => WellFormed(Joined(x, u)) /\ NamesOf(Joined(x, u)) = NamesOf(u)
<1> DEFINE s == Joined(x, u)
<1>1. \A j \in 1 .. Len(x) : ~OpensAt(s, j)
  <2>1. \A j \in 1 .. Len(x) : j = 1
    OBVIOUS
  <2> QED BY <2>1
<1>2. {s[j + 2] : j \in {k \in 1 .. Len(x) : OpensAt(s, k)}} = {}
  BY <1>1
<1>3. WellFormed(s) => WellFormed(u)
  BY WellFormedBehind
<1>4. WellFormed(u) => WellFormed(s)
  BY <1>1, WellFormedBehind
<1>5. WellFormed(u) => NamesOf(s) = NamesOf(u) \cup {}
  BY <1>2, WellFormedBehind
<1> QED BY <1>3, <1>4, <1>5

\* A declared placeholder adds its name.
LEMMA AddHolder ==
  ASSUME NEW n \in Declared, NEW u \in Text
  PROVE  /\ OpensAt(Joined(Holder(<<n>>), u), 1) /\ Joined(Holder(<<n>>), u) \in Text
         /\ Matches(Joined(Holder(<<n>>), u), Holder(<<n>>), 1)
         /\ Joined(Holder(<<n>>), u)[3] = n
         /\ ClosedAt(Joined(Holder(<<n>>), u), 1) = 4
         /\ WellFormed(Joined(Holder(<<n>>), u)) => WellFormed(u)
         /\ WellFormed(u) => /\ WellFormed(Joined(Holder(<<n>>), u))
                             /\ NamesOf(Joined(Holder(<<n>>), u)) = NamesOf(u) \cup {n}
<1> DEFINE x == Holder(<<n>>)
           s == Joined(x, u)
<1>1. n \in Char /\ n # "$" /\ n # "}"
  BY DeclaredChars
<1>2. x \in Text /\ Len(x) = 4
  BY <1>1, HolderIs
<1>3. x[1] = "$" /\ x[2] = "{" /\ x[3] = n /\ x[4] = "}"
  BY <1>1, HolderIs
<1> HIDE DEF x
<1>4. x \in Seq(Char) /\ u \in Seq(Char)
  BY <1>2 DEF Text
<1>5. /\ s \in Seq(Char) /\ Len(s) = Len(x) + Len(u)
      /\ \A i \in 1 .. Len(x) : s[i] = x[i]
  BY <1>4, CharBehind
<1> HIDE DEF s
<1>6. s \in Text /\ Len(s) \in Nat /\ Len(s) >= 4
  <2>1. Len(s) = 4 + Len(u) /\ Len(u) \in Nat
    BY <1>2, <1>4, <1>5
  <2> QED BY <1>5, <2>1 DEF Text
<1>7. s[1] = "$" /\ s[2] = "{" /\ s[3] = n /\ s[4] = "}"
  <2>1. 1 \in 1 .. Len(x) /\ 2 \in 1 .. Len(x) /\ 3 \in 1 .. Len(x) /\ 4 \in 1 .. Len(x)
    BY <1>2
  <2> QED BY <1>3, <1>5, <2>1
<1>8. /\ 1 + 1 = 2 /\ 1 + 2 = 3 /\ 1 + 3 = 4 /\ 2 <= Len(s) /\ 4 <= Len(s)
      /\ 1 \in Nat \ {0} /\ 1 \in 1 .. Len(s)
  BY <1>6
<1>9. OpensAt(s, 1) /\ DeclaredAt(s, 1) /\ HoldsAt(s, n, 1)
  BY <1>7, <1>8, Zenon DEF OpensAt, DeclaredAt, HoldsAt
<1>10. Matches(s, x, 1)
  BY <1>1, <1>6, <1>8, <1>9, HolderAt DEF x
<1>11. ClosedAt(s, 1) = 4
  <2> DEFINE e == ClosedAt(s, 1)
  <2>1. /\ e \in 1 + 2 .. Len(s) + 1 /\ \A j \in 1 + 2 .. e - 1 : s[j] # "}"
        /\ e <= Len(s) => s[e] = "}"
    BY <1>6, <1>8, <1>9, CloseFacts
  <2> HIDE DEF e
  <2>5. e \in Nat /\ 3 <= e /\ e <= Len(s) + 1
    <3>1. e \in 1 + 2 .. Len(s) + 1 /\ Len(s) \in Nat
      BY <1>6, <2>1
    <3> QED BY <3>1
  <2>2. e # 3
    <3> SUFFICES ASSUME e = 3 PROVE FALSE
      OBVIOUS
    <3>3. 3 <= Len(s)
      BY <1>6
    <3>2. s[3] = "}"
      BY <2>1, <3>3
    <3> QED BY <1>1, <1>7, <3>2
  <2>3. ~(e > 4)
    <3> SUFFICES ASSUME e > 4 PROVE FALSE
      OBVIOUS
    <3>1. 4 \in 1 + 2 .. e - 1
      BY <2>5
    <3> QED BY <1>7, <2>1, <3>1
  <2> QED BY <2>2, <2>3, <2>5 DEF e
<1>12. \A j \in 1 .. Len(x) : OpensAt(s, j) => j = 1
  <2> SUFFICES ASSUME NEW j \in 1 .. Len(x), j # 1 PROVE s[j] # "$"
    BY DEF OpensAt
  <2>1. j = 2 \/ j = 3 \/ j = 4
    BY <1>2
  <2> QED BY <1>1, <1>7, <2>1
<1>13. {s[j + 2] : j \in {k \in 1 .. Len(x) : OpensAt(s, k)}} = {n}
  <2>1. {k \in 1 .. Len(x) : OpensAt(s, k)} = {1}
    <3>1. 1 \in 1 .. Len(x)
      BY <1>2
    <3> QED BY <1>9, <1>12, <3>1
  <2> QED BY <1>7, <1>8, <2>1
<1>14. WellFormed(s) => WellFormed(u)
  BY <1>2, WellFormedBehind DEF s
<1>15. WellFormed(u) => WellFormed(s)
  <2>1. \A j \in 1 .. Len(x) : OpensAt(s, j) => DeclaredAt(s, j)
    BY <1>9, <1>12
  <2> QED BY <1>2, <2>1, WellFormedBehind DEF s
<1>16. WellFormed(u) => NamesOf(s) = NamesOf(u) \cup {n}
  BY <1>2, <1>13, WellFormedBehind DEF s
<1> QED BY <1>6, <1>7, <1>9, <1>10, <1>11, <1>14, <1>15, <1>16 DEF s, x

LEMMA AtBegin ==
  ASSUME NEW s
  PROVE  /\ OpensAt(s, 1) => 2 <= Len(s) /\ s[1] = "$" /\ s[2] = "{"
         /\ DeclaredAt(s, 1) => 4 <= Len(s) /\ s[3] \in Declared /\ s[4] = "}"
<1>1. 1 + 1 = 2 /\ 1 + 2 = 3 /\ 1 + 3 = 4
  OBVIOUS
<1> QED BY <1>1, Zenon DEF OpensAt, DeclaredAt

\* How a well formed text begins.
LEMMA FirstOfWellFormed ==
  ASSUME NEW t \in Text, t # <<>>, WellFormed(t)
  PROVE  \/ \E x, u \in Text : /\ Len(x) = 1 /\ t = Joined(x, u) /\ ~OpensAt(t, 1)
                               /\ WellFormed(u) /\ Len(u) < Len(t)
         \/ \E n \in Declared, u \in Text : /\ t = Joined(Holder(<<n>>), u)
                                            /\ WellFormed(u) /\ Len(u) < Len(t)
<1>1. t \in Seq(Char)
  BY DEF Text
<1>2. Len(t) \in Nat \ {0}
  BY <1>1
<1>3. CASE ~OpensAt(t, 1)
  <2> DEFINE x == <<t[1]>>
             u == Tail(t)
  <2>1. /\ t = Joined(x, u) /\ u \in Seq(Char) /\ x \in Seq(Char) /\ Len(u) = Len(t) - 1
        /\ Len(x) = 1
    BY <1>1, OneAndRest
  <2> HIDE DEF x, u
  <2>2. x \in Text /\ u \in Text /\ Len(u) < Len(t)
    BY <1>2, <2>1 DEF Text
  <2>3. WellFormed(u)
    BY <1>3, <2>1, <2>2, AddChar
  <2> QED BY <1>3, <2>1, <2>2, <2>3
<1>4. CASE OpensAt(t, 1)
  <2> DEFINE x == SubSeq(t, 1, 4)
             u == SubSeq(t, 5, Len(t))
             n == t[3]
  <2>1. DeclaredAt(t, 1)
    BY <1>2, <1>4 DEF WellFormed
  <2>2. 4 <= Len(t) /\ n \in Declared /\ t[4] = "}" /\ t[1] = "$" /\ t[2] = "{"
    BY <1>4, <2>1, AtBegin
  <2>3. /\ x \in Seq(Char) /\ Len(x) = 4 /\ u \in Seq(Char) /\ Len(u) = Len(t) - 4
        /\ \A i \in 1 .. 4 : x[i] = t[i]
        /\ t = Joined(x, u)
    <3>2. 4 <= Len(t)
      BY <2>2
    <3>1. 4 \in 0 .. Len(t) /\ 4 + 1 = 5
      BY <1>2, <3>2
    <3> DEFINE k == 4
    <3> HIDE DEF k
    <3>3. k \in 0 .. Len(t)
      BY <3>1 DEF k
    <3>4. /\ SubSeq(t, 1, k) \in Seq(Char) /\ Len(SubSeq(t, 1, k)) = k
          /\ SubSeq(t, k + 1, Len(t)) \in Seq(Char)
          /\ Len(SubSeq(t, k + 1, Len(t))) = Len(t) - k
          /\ \A i \in 1 .. k : SubSeq(t, 1, k)[i] = t[i]
          /\ t = Joined(SubSeq(t, 1, k), SubSeq(t, k + 1, Len(t)))
      BY <1>1, <3>3, Parts
    <3> QED BY <3>1, <3>4 DEF k
  <2>4. x[1] = "$" /\ x[2] = "{" /\ x[3] = n /\ x[4] = "}"
    <3>1. 1 \in 1 .. 4 /\ 2 \in 1 .. 4 /\ 3 \in 1 .. 4 /\ 4 \in 1 .. 4
      OBVIOUS
    <3>2. x[1] = t[1] /\ x[2] = t[2] /\ x[3] = t[3] /\ x[4] = t[4]
      BY <2>3, <3>1
    <3> QED BY <2>2, <3>2
  <2> HIDE DEF x, u, n
  <2>5. n \in Char
    BY <2>2, DeclaredChars
  <2> DEFINE h == Holder(<<n>>)
  <2>6. h \in Text /\ Len(h) = 4 /\ h[1] = "$" /\ h[2] = "{" /\ h[3] = n /\ h[4] = "}"
    BY <2>5, HolderIs
  <2> HIDE DEF h
  <2>7. x = h
    <3>1. \A i \in 1 .. 4 : i = 1 \/ i = 2 \/ i = 3 \/ i = 4
      OBVIOUS
    <3>2. \A i \in 1 .. Len(x) : x[i] = h[i]
      BY <2>3, <2>4, <2>6, <3>1
    <3>3. h \in Seq(Char) /\ Len(x) = Len(h)
      BY <2>3, <2>6 DEF Text
    <3> QED BY <2>3, <3>2, <3>3, SameText
  <2>8. t = Joined(Holder(<<n>>), u) /\ u \in Text
    BY <2>3, <2>7 DEF h, Text
  <2>9. WellFormed(u)
    BY <2>2, <2>8, AddHolder
  <2>10. Len(u) < Len(t)
    BY <1>2, <2>3
  <2> QED BY <2>2, <2>8, <2>9, <2>10
<1> QED BY <1>3, <1>4

\* An opening without its end.
LEMMA DanglingIs ==
  ASSUME NEW s \in Text
  PROVE  /\ Dangling(s) => \E i \in 1 .. Len(s) : OpensAt(s, i) /\ ClosedAt(s, i) > Len(s)
         /\ (\E i \in 1 .. Len(s) : OpensAt(s, i) /\ ClosedAt(s, i) > Len(s)) => Dangling(s)
<1>1. \A i \in 1 .. Len(s) : /\ Matches(s, Opening, i) => OpensAt(s, i)
                             /\ OpensAt(s, i) => Matches(s, Opening, i)
  <2>1. \A i \in 1 .. Len(s) : i \in Nat \ {0}
    OBVIOUS
  <2> QED BY <2>1, OpeningAt
<1> QED BY <1>1 DEF Dangling, Places, ClosedAt

LEMMA DanglingBehind ==
  ASSUME NEW x \in Text, NEW u \in Text, Dangling(u)
  PROVE  Dangling(Joined(x, u))
<1>1. PICK i \in 1 .. Len(u) : OpensAt(u, i) /\ ClosedAt(u, i) > Len(u)
  BY DanglingIs
<1>2. x \in Seq(Char) /\ u \in Seq(Char) /\ Len(x) \in Nat /\ Len(u) \in Nat
  BY DEF Text
<1>3. Joined(x, u) \in Text /\ Len(Joined(x, u)) = Len(x) + Len(u)
  BY <1>2, CharBehind DEF Text
<1>4. OpensAt(Joined(x, u), Len(x) + i)
  <2>1. i \in Nat \ {0}
    OBVIOUS
  <2> QED BY <1>1, <2>1, OpensBehind
<1>5. ClosedAt(Joined(x, u), Len(x) + i) = Len(x) + ClosedAt(u, i)
  BY <1>1, CloseBehind
<1>6. ClosedAt(u, i) \in i + 2 .. Len(u) + 1
  BY <1>1, CloseFacts
<1>7. Len(x) + i \in 1 .. Len(Joined(x, u))
  BY <1>2, <1>3
<1>8. ClosedAt(Joined(x, u), Len(x) + i) > Len(Joined(x, u))
  <2>1. ClosedAt(u, i) \in Int
    BY <1>6
  <2> QED BY <1>1, <1>2, <1>3, <1>5, <2>1
<1> QED BY <1>3, <1>4, <1>7, <1>8, DanglingIs

\* Well formed texts leave no placeholder open.
LEMMA WellFormedIsClosed ==
  ASSUME NEW s \in Text, WellFormed(s)
  PROVE  ~Dangling(s)
<1> SUFFICES ASSUME NEW i \in 1 .. Len(s), OpensAt(s, i), ClosedAt(s, i) > Len(s) PROVE FALSE
  BY DanglingIs
<1>1. i + 3 <= Len(s) /\ s[i + 3] = "}"
  BY DEF WellFormed, DeclaredAt
<1> DEFINE e == ClosedAt(s, i)
<1>2. e \in i + 2 .. Len(s) + 1 /\ \A j \in i + 2 .. e - 1 : s[j] # "}"
  BY CloseFacts
<1>3. e > Len(s)
  OBVIOUS
<1> HIDE DEF e
<1>4. Len(s) \in Nat
  BY DEF Text
<1>5. i + 3 \in i + 2 .. e - 1
  <2>1. e \in i + 2 .. Len(s) + 1 /\ i + 3 <= Len(s)
    BY <1>1, <1>2
  <2> QED BY <1>3, <1>4, <2>1
<1> QED BY <1>1, <1>2, <1>5

\* What validateTemplate accepts: declared names only, each closed.
LEMMA ValidIsWellFormed ==
  ASSUME NEW s \in Text, ~Dangling(s),
         \A i \in 1 .. Len(TemplateVars(s)) : Known(TemplateVars(s)[i])
  PROVE  WellFormed(s)
<1> DEFINE Valid(z) == ~Dangling(z) /\ \A i \in 1 .. Len(TemplateVars(z)) : Known(TemplateVars(z)[i])
           C == {z \in Text : Valid(z) /\ ~WellFormed(z)}
<1> SUFFICES ASSUME C # {} PROVE FALSE
  OBVIOUS
<1>1. PICK t \in C : \A h \in C : Len(t) <= Len(h)
  <2>1. C \in SUBSET Seq(Char)
    BY DEF Text
  <2> HIDE DEF C
  <2> QED BY <2>1, ShortestText
<1>2. t \in Text /\ Valid(t) /\ ~WellFormed(t)
  BY <1>1
<1>3. \A u \in Text : Valid(u) /\ Len(u) < Len(t) => WellFormed(u)
  <2>1. \A u \in Text : Len(u) \in Nat
    BY DEF Text
  <2> QED BY <1>1, <1>2, <2>1
<1> HIDE DEF C
<1>4. t \in Seq(Char) /\ Len(t) \in Nat
  BY <1>2 DEF Text
<1>5. t # <<>>
  BY <1>2 DEF WellFormed
<1>6. CASE ~OpensAt(t, 1)
  <2> DEFINE x == <<t[1]>>
             u == Tail(t)
  <2>1. /\ t = Joined(x, u) /\ u \in Seq(Char) /\ x \in Seq(Char) /\ Len(u) = Len(t) - 1
        /\ Len(x) = 1
    BY <1>4, <1>5, OneAndRest
  <2> HIDE DEF x, u, Valid
  <2>2. x \in Text /\ u \in Text /\ Len(u) < Len(t) /\ Len(x) > 0
    BY <1>4, <2>1 DEF Text
  <2>3. TemplateVars(t) = TemplateVars(u)
    BY <1>6, <2>1, <2>2, VarsFirst
  <2>4. Dangling(u) => Dangling(t)
    BY <2>1, <2>2, DanglingBehind
  <2>5. Valid(u)
    BY <1>2, <2>3, <2>4 DEF Valid
  <2>6. WellFormed(u)
    BY <1>3, <2>2, <2>5
  <2>7. WellFormed(t)
    BY <1>6, <2>1, <2>2, <2>6, AddChar
  <2> QED BY <1>2, <2>7
<1>7. CASE OpensAt(t, 1)
  <2> DEFINE k == ClosedAt(t, 1)
  <2>8. 1 \in 1 .. Len(t)
    BY <1>4, <1>5
  <2>1. k \in 1 + 2 .. Len(t) + 1 /\ (k <= Len(t) => t[k] = "}")
    BY <1>2, <1>7, <2>8, CloseFacts
  <2>2. ~(k > Len(t))
    BY <1>2, <1>7, <2>8, DanglingIs
  <2> HIDE DEF k
  <2>3. k \in 0 .. Len(t) /\ k >= 3 /\ k <= Len(t)
    <3>1. k \in 1 + 2 .. Len(t) + 1 /\ Len(t) \in Nat
      BY <1>4, <2>1
    <3> QED BY <2>2, <3>1
  <2> DEFINE x == SubSeq(t, 1, k)
             u == SubSeq(t, k + 1, Len(t))
             name == SubSeq(t, 3, k - 1)
  <2>4. /\ x \in Seq(Char) /\ Len(x) = k /\ u \in Seq(Char) /\ Len(u) = Len(t) - k
        /\ t = Joined(x, u)
    BY <1>4, <2>3, Parts
  <2>5. name \in Seq(Char) /\ Len(name) = k - 3 /\ (k > 3 => name[1] = t[3])
    BY <1>4, <2>3
  <2> HIDE DEF x, u, name, Valid
  <2>6. x \in Text /\ u \in Text /\ Len(u) < Len(t) /\ Len(x) > 0
    BY <1>4, <2>3, <2>4 DEF Text
  <2>7. TemplateVars(t) = Joined(<<name>>, TemplateVars(u))
    <3>1. SubSeq(t, 3, Len(x) - 1) = name
      BY <2>4 DEF name
    <3>2. ClosedAt(Joined(x, u), 1) = Len(x) /\ OpensAt(Joined(x, u), 1)
      BY <1>7, <2>4 DEF k
    <3>3. TemplateVars(Joined(x, u))
            = Joined(<<SubSeq(Joined(x, u), 3, Len(x) - 1)>>, TemplateVars(u))
      BY <2>6, <3>2, VarsFirst
    <3> QED BY <2>4, <3>1, <3>3
  <2>9. /\ Len(TemplateVars(t)) = 1 + Len(TemplateVars(u)) /\ Len(TemplateVars(u)) \in Nat
        /\ TemplateVars(t)[1] = name
        /\ \A i \in 1 .. Len(TemplateVars(u)) : TemplateVars(t)[1 + i] = TemplateVars(u)[i]
    <3> DEFINE v == TemplateVars(u)
               w == <<name>>
    <3>1. v \in Seq(Text) /\ name \in Text
      BY <2>5, <2>6, VarsType DEF Text
    <3>2. w \in Seq(Text) /\ Len(w) = 1 /\ w[1] = name
      BY <3>1
    <3> HIDE DEF v, w
    <3>4. w \in Seq(Text)
      BY <3>2
    <3>3. /\ Len(Joined(w, v)) = Len(w) + Len(v)
          /\ \A i \in 1 .. Len(w) : Joined(w, v)[i] = w[i]
          /\ \A i \in 1 .. Len(v) : Joined(w, v)[Len(w) + i] = v[i]
      <4>1. v \in Seq(Text)
        BY <3>1
      <4> QED BY <3>4, <4>1, CharBehind DEF Joined
    <3>5. Len(v) \in Nat /\ 1 \in 1 .. Len(w)
      BY <3>1, <3>2
    <3> QED BY <2>7, <3>2, <3>3, <3>5 DEF v, w
  <2>10. Known(name) /\ \A i \in 1 .. Len(TemplateVars(u)) : Known(TemplateVars(u)[i])
    <3> DEFINE v == TemplateVars(u)
               w == TemplateVars(t)
    <3>1. \A i \in 1 .. Len(w) : Known(w[i])
      BY <1>2 DEF Valid
    <3>2. /\ Len(w) = 1 + Len(v) /\ Len(v) \in Nat /\ w[1] = name
          /\ \A i \in 1 .. Len(v) : w[1 + i] = v[i]
      BY <2>9
    <3> HIDE DEF v, w
    <3>3. 1 \in 1 .. Len(w) /\ \A i \in 1 .. Len(v) : 1 + i \in 1 .. Len(w)
      BY <3>2
    <3>4. \A i \in 1 .. Len(v) : Known(v[i])
      BY <3>1, <3>2, <3>3
    <3> QED BY <3>1, <3>2, <3>3, <3>4 DEF v
  <2>11. k = 4 /\ t[3] \in Declared
    <3>1. Len(name) = 1 /\ name[1] \in Declared
      BY <2>10 DEF Known
    <3>2. k = 4
      <4>1. Len(name) = 1 /\ Len(name) = k - 3
        BY <2>5, <3>1
      <4>2. k \in Int
        BY <2>3
      <4>3. k - 3 = 1
        BY <4>1
      <4> QED BY <4>2, <4>3
    <3> QED BY <2>5, <3>1, <3>2
  <2>12. WellFormed(u)
    <3>1. Dangling(u) => Dangling(t)
      BY <2>4, <2>6, DanglingBehind
    <3>2. Valid(u)
      BY <1>2, <2>10, <3>1 DEF Valid
    <3> QED BY <1>3, <2>6, <3>2
  <2>13. WellFormed(t)
    <3> DEFINE n == t[3]
               h == Holder(<<n>>)
    <3>1. n \in Char
      BY <2>11, DeclaredChars
    <3>2. h \in Text /\ Len(h) = 4 /\ h[1] = "$" /\ h[2] = "{" /\ h[3] = n /\ h[4] = "}"
      BY <3>1, HolderIs
    <3>3. t[1] = "$" /\ t[2] = "{" /\ t[4] = "}"
      <4>1. t[k] = "}"
        BY <2>1, <2>3
      <4> QED BY <1>7, <2>11, <4>1, AtBegin
    <3>4. \A i \in 1 .. k : x[i] = t[i]
      BY <1>4, <2>3, Parts DEF x
    <3> HIDE DEF h, n
    <3>5. x = h
      <4>1. \A i \in 1 .. k : i = 1 \/ i = 2 \/ i = 3 \/ i = 4
        BY <2>11
      <4>2. \A i \in 1 .. Len(x) : x[i] = h[i]
        BY <2>4, <3>2, <3>3, <3>4, <4>1 DEF n
      <4>3. h \in Seq(Char) /\ Len(x) = Len(h)
        BY <2>4, <2>11, <3>2 DEF Text
      <4> QED BY <2>4, <4>2, <4>3, SameText
    <3>6. t = Joined(Holder(<<n>>), u)
      BY <2>4, <3>5 DEF h
    <3> QED BY <2>6, <2>11, <2>12, <3>6, AddHolder DEF n
  <2> QED BY <1>2, <2>13
<1> QED BY <1>6, <1>7

LEMMA PlainOpens ==
  ASSUME NEW f, Plain(f), NEW u \in Text, NEW j \in 1 .. Len(f)
  PROVE  ~OpensAt(Joined(f, u), j)
<1>1. f \in Seq(Char) /\ u \in Seq(Char)
  BY DEF Plain, Text
<1>2. \A i \in 1 .. Len(f) : Joined(f, u)[i] = f[i]
  BY <1>1, CharBehind
<1> SUFFICES ASSUME OpensAt(Joined(f, u), j) PROVE FALSE
  OBVIOUS
<1>3. f[j] = "$" /\ Joined(f, u)[j + 1] = "{"
  BY <1>2 DEF OpensAt
<1>4. f # <<>> /\ Len(f) \in Nat
  BY <1>1
<1>5. CASE j = Len(f)
  BY <1>3, <1>4, <1>5 DEF Plain
<1>6. CASE j # Len(f)
  <2>1. j + 1 \in 1 .. Len(f) /\ j + 1 <= Len(f)
    BY <1>4, <1>6
  <2>2. f[j + 1] = "{"
    BY <1>2, <1>3, <2>1
  <2>3. OpensAt(f, j)
    BY <1>3, <2>1, <2>2 DEF OpensAt
  <2> QED BY <2>3 DEF Plain
<1> QED BY <1>5, <1>6

\* A plain text in front of a well formed one adds no name.
LEMMA PlainBefore ==
  ASSUME NEW f, Plain(f), NEW u \in Text, WellFormed(u)
  PROVE  WellFormed(Joined(f, u)) /\ NamesOf(Joined(f, u)) = NamesOf(u)
<1>1. f \in Text
  BY DEF Plain
<1>2. \A j \in 1 .. Len(f) : ~OpensAt(Joined(f, u), j)
  BY PlainOpens
<1>3. {Joined(f, u)[j + 2] : j \in {k \in 1 .. Len(f) : OpensAt(Joined(f, u), k)}} = {}
  BY <1>2
<1>4. WellFormed(Joined(f, u))
  BY <1>1, <1>2, WellFormedBehind
<1>5. NamesOf(Joined(f, u)) = NamesOf(u) \cup {}
  BY <1>1, <1>3, WellFormedBehind
<1> QED BY <1>4, <1>5

\* TemplateVars finds nothing in a plain text.
LEMMA VarsPlain ==
  ASSUME NEW u \in Text, NEW f, Plain(f)
  PROVE  TemplateVars(Joined(f, u)) = TemplateVars(u)
<1> DEFINE C == {g \in Text : Plain(g) /\ TemplateVars(Joined(g, u)) # TemplateVars(u)}
<1> SUFFICES ASSUME C # {} PROVE FALSE
  BY DEF Plain
<1>2. PICK g \in C : \A h \in C : Len(g) <= Len(h)
  <2>1. C \in SUBSET Seq(Char)
    BY DEF Text
  <2> HIDE DEF C
  <2> QED BY <2>1, ShortestText
<1>3. g \in Text /\ Plain(g) /\ TemplateVars(Joined(g, u)) # TemplateVars(u)
  BY <1>2
<1>5. g # <<>>
  <2>1. Joined(<<>>, u) = u
    BY JoinedNothing DEF Text
  <2> QED BY <1>3, <2>1
<1> DEFINE h == Tail(g)
           c == <<g[1]>>
<1>6. /\ Joined(g, u) = Joined(c, Joined(h, u)) /\ Plain(h) /\ Len(h) < Len(g)
      /\ ~OpensAt(Joined(g, u), 1) /\ c \in Text /\ Len(c) = 1
      /\ h \in Text /\ Joined(h, u) \in Text
  BY <1>3, <1>5, PlainFirst
<1> HIDE DEF h, c
<1>8. TemplateVars(Joined(h, u)) = TemplateVars(u)
  <2>1. h \notin C
    <3>1. Len(h) \in Nat /\ Len(g) \in Nat
      BY <1>3, <1>6 DEF Text
    <3> QED BY <1>2, <1>6, <3>1
  <2> QED BY <1>6, <2>1
<1>10. TemplateVars(Joined(c, Joined(h, u))) = TemplateVars(Joined(h, u))
  <2>1. Len(c) > 0 /\ Len(c) = 1 /\ c \in Text /\ Joined(h, u) \in Text
    BY <1>6
  <2>2. ~OpensAt(Joined(c, Joined(h, u)), 1)
    BY <1>6
  <2> QED BY <2>1, <2>2, VarsFirst
<1> QED BY <1>3, <1>6, <1>8, <1>10

-----------------------------------------------------------------------------
(***************************************************************************)
(* A template with the values of some names put in at once.                *)
(***************************************************************************)
Inert(f) == Plain(f) /\ f # <<>> /\ f[1] # "{"
AllInert(R, val) == \A n \in R : Inert(val[n])

Fill(n, R, val) == IF n \in R THEN val[n] ELSE Holder(<<n>>)
PutStep(t, R, val) ==
  [i \in 1 .. Len(t) |->
    IF OpensAt(t, i) THEN Step(Fill(t[i + 2], R, val), i + 4) ELSE Copy(t, i)]
Put(t, R, val) == Rewrite(Len(t), PutStep(t, R, val))

LEMMA FillType ==
  ASSUME NEW n \in Declared, NEW R, NEW val, AllInert(R, val)
  PROVE  Fill(n, R, val) \in Text
<1>1. n \in Char
  BY DeclaredChars
<1>2. Holder(<<n>>) \in Text
  BY <1>1, HolderIs
<1> QED BY <1>2 DEF Fill, AllInert, Inert, Plain

LEMMA PutPass ==
  ASSUME NEW t \in Text, WellFormed(t), NEW R, NEW val, AllInert(R, val)
  PROVE  IsPass(Len(t), PutStep(t, R, val), Char)
<1> SUFFICES ASSUME NEW i \in 1 .. Len(t)
             PROVE  /\ PutStep(t, R, val)[i].write \in Seq(Char)
                    /\ PutStep(t, R, val)[i].goto \in i + 1 .. Len(t) + 1
  BY DEF IsPass
<1>1. t \in Seq(Char) /\ Len(t) \in Nat
  BY DEF Text
<1>2. CASE OpensAt(t, i)
  <2>1. DeclaredAt(t, i)
    BY <1>2 DEF WellFormed
  <2>2. Fill(t[i + 2], R, val) \in Seq(Char)
    <3>1. t[i + 2] \in Declared
      BY <2>1 DEF DeclaredAt
    <3> QED BY <3>1, FillType DEF Text
  <2>3. i + 4 \in i + 1 .. Len(t) + 1
    <3>1. i + 3 <= Len(t)
      BY <2>1 DEF DeclaredAt
    <3> QED BY <1>1, <3>1
  <2>4. PutStep(t, R, val)[i] = Step(Fill(t[i + 2], R, val), i + 4)
    BY <1>2 DEF PutStep
  <2> QED BY <2>2, <2>3, <2>4 DEF Step
<1>3. CASE ~OpensAt(t, i)
  <2>1. PutStep(t, R, val)[i] = Step(<<t[i]>>, i + 1)
    BY <1>3 DEF PutStep, Copy
  <2>2. <<t[i]>> \in Seq(Char) /\ i + 1 \in i + 1 .. Len(t) + 1
    BY <1>1
  <2> QED BY <2>1, <2>2 DEF Step
<1> QED BY <1>2, <1>3

LEMMA PutBehind ==
  ASSUME NEW x \in Text, NEW u \in Text, WellFormed(u), NEW R, NEW val
  PROVE  Behind(Len(x), Len(u), PutStep(u, R, val), PutStep(Joined(x, u), R, val))
<1> DEFINE s == Joined(x, u)
<1>1. x \in Seq(Char) /\ u \in Seq(Char) /\ Len(x) \in Nat /\ Len(u) \in Nat
  BY DEF Text
<1>2. Len(s) = Len(x) + Len(u) /\ \A i \in 1 .. Len(u) : s[Len(x) + i] = u[i]
  BY TextJoined
<1> SUFFICES ASSUME NEW i \in 1 .. Len(u)
             PROVE  /\ PutStep(s, R, val)[Len(x) + i].write = PutStep(u, R, val)[i].write
                    /\ PutStep(s, R, val)[Len(x) + i].goto = Len(x) + PutStep(u, R, val)[i].goto
  BY DEF Behind
<1>3. /\ OpensAt(u, i) => OpensAt(s, Len(x) + i)
      /\ OpensAt(s, Len(x) + i) => OpensAt(u, i)
  <2>1. i \in Nat \ {0}
    OBVIOUS
  <2> QED BY <2>1, OpensBehind
<1>4. DeclaredAt(u, i) => s[Len(x) + i + 2] = u[i + 2]
  BY DeclaredBehind
<1> HIDE DEF s
<1>5. /\ Len(x) + i \in 1 .. Len(s) /\ Len(x) + i + 4 = Len(x) + (i + 4)
      /\ Len(x) + i + 1 = Len(x) + (i + 1)
  BY <1>1, <1>2
<1>6. CASE OpensAt(u, i)
  <2> DEFINE w == Fill(u[i + 2], R, val)
  <2>1. PutStep(u, R, val)[i] = Step(w, i + 4)
    BY <1>6 DEF PutStep
  <2>2. s[Len(x) + i + 2] = u[i + 2]
    BY <1>4, <1>6 DEF WellFormed
  <2>3. PutStep(s, R, val)[Len(x) + i] = Step(w, Len(x) + i + 4)
    BY <1>3, <1>5, <1>6, <2>2 DEF PutStep
  <2> HIDE DEF w
  <2> QED BY <1>5, <2>1, <2>3 DEF Step
<1>7. CASE ~OpensAt(u, i)
  <2> DEFINE w == <<u[i]>>
  <2>1. PutStep(u, R, val)[i] = Step(w, i + 1)
    BY <1>7 DEF PutStep, Copy
  <2>2. s[Len(x) + i] = u[i]
    BY <1>2
  <2>3. PutStep(s, R, val)[Len(x) + i] = Step(w, Len(x) + i + 1)
    BY <1>3, <1>5, <1>7, <2>2 DEF PutStep, Copy
  <2> HIDE DEF w
  <2> QED BY <1>5, <2>1, <2>3 DEF Step
<1> QED BY <1>6, <1>7

LEMMA PutType ==
  ASSUME NEW t \in Text, WellFormed(t), NEW R, NEW val, AllInert(R, val)
  PROVE  Put(t, R, val) \in Text
<1>1. Len(t) \in Nat
  BY DEF Text
<1> QED BY <1>1, PutPass, RewriteType DEF Put, Text

LEMMA PutNothing ==
  ASSUME NEW R, NEW val
  PROVE  Put(<<>>, R, val) = <<>>
BY RewriteNothing DEF Put

\* A character outside placeholders stays when values are put in.
LEMMA PutChar ==
  ASSUME NEW x \in Text, Len(x) = 1, NEW u \in Text, WellFormed(u), ~OpensAt(Joined(x, u), 1),
         NEW R, NEW val, AllInert(R, val)
  PROVE  Put(Joined(x, u), R, val) = Joined(x, Put(u, R, val))
<1> DEFINE s == Joined(x, u)
           step == PutStep(u, R, val)
           other == PutStep(s, R, val)
<1>1. x \in Seq(Char) /\ u \in Seq(Char)
  BY DEF Text
<1>2. s \in Text /\ Len(s) = Len(x) + Len(u) /\ \A i \in 1 .. Len(x) : s[i] = x[i]
  BY <1>1, CharBehind DEF Text
<1>3. WellFormed(s)
  BY AddChar
<1>4. IsPass(Len(u), step, Char) /\ IsPass(Len(s), other, Char)
  BY <1>2, <1>3, PutPass
<1>5. Behind(Len(x), Len(u), step, other)
  BY PutBehind
<1>6. Len(u) \in Nat /\ Len(s) \in Nat /\ Len(x) \in Nat \ {0} /\ 1 \in 1 .. Len(s) /\ 1 \in 1 .. Len(x)
  BY <1>1, <1>2
<1>7. x = <<x[1]>>
  BY <1>1
<1>8. other[1] = Step(x, 2)
  <2>1. other[1] = Step(<<s[1]>>, 1 + 1)
    BY <1>6 DEF PutStep, Copy
  <2>2. s[1] = x[1]
    BY <1>2, <1>6
  <2> QED BY <1>7, <2>1, <2>2
<1> HIDE DEF step, other, s
<1>9. other[1].write = x /\ other[1].goto = Len(x) + 1
  BY <1>8 DEF Step
<1>10. Rewrite(Len(s), other) = Joined(x, Rewrite(Len(u), step))
  BY <1>2, <1>4, <1>5, <1>6, <1>9, RewriteSplit
<1> QED BY <1>10 DEF Put, s, step, other

\* A placeholder gives way to the value of its name, or stays.
LEMMA PutHolder ==
  ASSUME NEW n \in Declared, NEW u \in Text, WellFormed(u),
         NEW R, NEW val, AllInert(R, val)
  PROVE  Put(Joined(Holder(<<n>>), u), R, val) = Joined(Fill(n, R, val), Put(u, R, val))
<1> DEFINE x == Holder(<<n>>)
           s == Joined(x, u)
           step == PutStep(u, R, val)
           other == PutStep(s, R, val)
<1>1. s \in Text /\ OpensAt(s, 1) /\ s[3] = n /\ WellFormed(s)
  BY AddHolder
<1>2. n \in Char
  BY DeclaredChars
<1>3. x \in Text /\ Len(x) = 4
  BY <1>2, HolderIs
<1> HIDE DEF x
<1>4. x \in Seq(Char) /\ u \in Seq(Char)
  BY <1>3 DEF Text
<1>5. Len(s) = Len(x) + Len(u)
  BY <1>4, CharBehind
<1>6. IsPass(Len(u), step, Char) /\ IsPass(Len(s), other, Char)
  BY <1>1, PutPass
<1>7. Behind(Len(x), Len(u), step, other)
  BY <1>3, PutBehind
<1>8. Len(u) \in Nat /\ Len(s) \in Nat /\ Len(x) \in Nat \ {0} /\ 1 \in 1 .. Len(s)
  BY <1>3, <1>4, <1>5
<1>9. other[1] = Step(Fill(n, R, val), 5)
  <2>1. other[1] = Step(Fill(s[1 + 2], R, val), 1 + 4)
    BY <1>1, <1>8 DEF PutStep
  <2>2. 1 + 2 = 3 /\ 1 + 4 = 5
    OBVIOUS
  <2> QED BY <1>1, <2>1, <2>2
<1> DEFINE w == Fill(n, R, val)
<1> HIDE DEF step, other, s, w
<1>10. other[1].write = w /\ other[1].goto = Len(x) + 1
  BY <1>3, <1>9 DEF Step, w
<1>11. Rewrite(Len(s), other) = Joined(w, Rewrite(Len(u), step))
  BY <1>5, <1>6, <1>7, <1>8, <1>10, RewriteSplit
<1> QED BY <1>11 DEF Put, s, step, other, w, x

\* Nothing is put in: induction over the template's placeholders.
LEMMA PutNone ==
  ASSUME NEW t \in Text, WellFormed(t), NEW val
  PROVE  Put(t, {}, val) = t
<1> DEFINE C == {z \in Text : WellFormed(z) /\ Put(z, {}, val) # z}
<1> SUFFICES ASSUME C # {} PROVE FALSE
  OBVIOUS
<1>1. PICK z \in C : \A h \in C : Len(z) <= Len(h)
  <2>1. C \in SUBSET Seq(Char)
    BY DEF Text
  <2> HIDE DEF C
  <2> QED BY <2>1, ShortestText
<1>2. z \in Text /\ WellFormed(z) /\ Put(z, {}, val) # z
  BY <1>1
<1>3. \A u \in Text : WellFormed(u) /\ Len(u) < Len(z) => Put(u, {}, val) = u
  <2>1. \A u \in Text : Len(u) \in Nat
    BY DEF Text
  <2> QED BY <1>1, <1>2, <2>1
<1> HIDE DEF C
<1>4. AllInert({}, val)
  BY DEF AllInert
<1>5. z # <<>>
  BY <1>2, PutNothing
<1>6. ASSUME NEW x \in Text, NEW u \in Text, Len(x) = 1, z = Joined(x, u), ~OpensAt(z, 1),
             WellFormed(u), Len(u) < Len(z)
      PROVE  FALSE
  <2>1. Put(Joined(x, u), {}, val) = Joined(x, Put(u, {}, val))
    BY <1>4, <1>6, PutChar
  <2> QED BY <1>2, <1>3, <1>6, <2>1
<1>7. ASSUME NEW n \in Declared, NEW u \in Text, z = Joined(Holder(<<n>>), u),
             WellFormed(u), Len(u) < Len(z)
      PROVE  FALSE
  <2>1. Put(Joined(Holder(<<n>>), u), {}, val) = Joined(Fill(n, {}, val), Put(u, {}, val))
    BY <1>4, <1>7, PutHolder
  <2>2. Fill(n, {}, val) = Holder(<<n>>)
    BY DEF Fill
  <2> QED BY <1>2, <1>3, <1>7, <2>1, <2>2
<1> QED BY <1>2, <1>5, <1>6, <1>7, FirstOfWellFormed

LEMMA NotNothing ==
  ASSUME NEW x \in Text
  PROVE  /\ Len(x) = 1 => x # <<>> /\ Len(x) > 0
         /\ Len(x) = 4 => x # <<>> /\ Len(x) > 0
OBVIOUS

LEMMA FirstOfJoined ==
  ASSUME NEW x \in Text, x # <<>>, NEW u \in Text
  PROVE  /\ Joined(x, u) # <<>> /\ Joined(x, u)[1] = x[1] /\ Joined(x, u) \in Text
         /\ Len(x) = 1 /\ OpensAt(Joined(x, u), 1) => x[1] = "$" /\ u # <<>> /\ u[1] = "{"
         /\ Len(x) = 1 /\ x[1] = "$" /\ u # <<>> /\ u[1] = "{" => OpensAt(Joined(x, u), 1)
<1>1. x \in Seq(Char) /\ u \in Seq(Char) /\ Len(x) \in Nat \ {0} /\ Len(u) \in Nat
  BY DEF Text
<1>2. /\ Joined(x, u) \in Seq(Char) /\ Len(Joined(x, u)) = Len(x) + Len(u)
      /\ \A i \in 1 .. Len(x) : Joined(x, u)[i] = x[i]
      /\ \A i \in 1 .. Len(u) : Joined(x, u)[Len(x) + i] = u[i]
  <2>1. x \in Seq(Char) /\ u \in Seq(Char)
    BY <1>1
  <2> QED BY <2>1, CharBehind DEF Joined
<1>3. Joined(x, u)[1] = x[1]
  <2>1. 1 \in 1 .. Len(x)
    BY <1>1
  <2> QED BY <1>2, <2>1
<1>4. Joined(x, u) # <<>>
  BY <1>1, <1>2
<1>5. ASSUME Len(x) = 1, u # <<>>
      PROVE  Joined(x, u)[2] = u[1] /\ 2 <= Len(Joined(x, u))
  <2>1. 1 \in 1 .. Len(u) /\ Len(x) + 1 = 2 /\ Len(u) > 0
    BY <1>1, <1>5
  <2>2. Joined(x, u)[Len(x) + 1] = u[1]
    BY <1>2, <2>1
  <2> QED BY <1>1, <1>2, <1>5, <2>1, <2>2
<1>6. ASSUME Len(x) = 1, OpensAt(Joined(x, u), 1)
      PROVE  x[1] = "$" /\ u # <<>> /\ u[1] = "{"
  <2>1. 2 <= Len(Joined(x, u)) /\ Joined(x, u)[1] = "$" /\ Joined(x, u)[2] = "{"
    BY <1>6, AtBegin
  <2>2. u # <<>>
    <3>1. 2 <= Len(x) + Len(u) /\ Len(x) = 1 /\ Len(u) \in Nat
      BY <1>1, <1>2, <1>6, <2>1
    <3>2. Len(u) >= 1
      BY <3>1
    <3> QED BY <3>2
  <2> QED BY <1>3, <1>5, <1>6, <2>1, <2>2
<1>7. ASSUME Len(x) = 1, x[1] = "$", u # <<>>, u[1] = "{" PROVE OpensAt(Joined(x, u), 1)
  <2>1. 2 <= Len(Joined(x, u)) /\ Joined(x, u)[1] = "$" /\ Joined(x, u)[2] = "{"
    BY <1>3, <1>5, <1>7
  <2>2. 1 + 1 = 2
    OBVIOUS
  <2> QED BY <2>1, <2>2, Zenon DEF OpensAt
<1> QED BY <1>2, <1>3, <1>4, <1>6, <1>7 DEF Text

\* A text that values were put into begins with a brace only where the
\* template does.
BeginsWithBrace(s) == s # <<>> /\ s[1] = "{"

LEMMA FirstOfPut ==
  ASSUME NEW t \in Text, WellFormed(t), NEW R, NEW val, AllInert(R, val),
         BeginsWithBrace(Put(t, R, val))
  PROVE  t # <<>> /\ t[1] = "{"
<1>1. t # <<>>
  BY PutNothing DEF BeginsWithBrace
<1>4. Put(t, R, val)[1] = "{"
  BY DEF BeginsWithBrace
<1>2. ASSUME NEW x \in Text, NEW u \in Text, Len(x) = 1, t = Joined(x, u), ~OpensAt(t, 1),
             WellFormed(u)
      PROVE  t[1] = "{"
  <2>3. ~OpensAt(Joined(x, u), 1)
    BY <1>2
  <2>1. Put(Joined(x, u), R, val) = Joined(x, Put(u, R, val))
    <3>1. Len(x) = 1 /\ WellFormed(u)
      BY <1>2
    <3> QED BY <2>3, <3>1, PutChar
  <2>2. x # <<>> /\ Put(u, R, val) \in Text
    BY <1>2, NotNothing, PutType
  <2>4. Joined(x, u)[1] = x[1] /\ Joined(x, Put(u, R, val))[1] = x[1]
    BY <2>2, FirstOfJoined
  <2> QED BY <1>2, <1>4, <2>1, <2>4
<1>3. ASSUME NEW n \in Declared, NEW u \in Text, t = Joined(Holder(<<n>>), u), WellFormed(u)
      PROVE  FALSE
  <2> DEFINE w == Fill(n, R, val)
  <2>6. WellFormed(u)
    BY <1>3
  <2>4. Put(Joined(Holder(<<n>>), u), R, val) = Joined(w, Put(u, R, val))
    BY <2>6, PutHolder
  <2>1. Put(t, R, val) = Joined(w, Put(u, R, val))
    BY <1>3, <2>4
  <2>2. w \in Text /\ Put(u, R, val) \in Text
    BY <1>3, FillType, PutType
  <2>3. w # <<>> /\ w[1] # "{"
    <3>1. CASE n \in R
      BY <3>1 DEF AllInert, Inert, Fill
    <3>2. CASE n \notin R
      <4>1. n \in Char
        BY DeclaredChars
      <4>2. Len(Holder(<<n>>)) = 4 /\ Holder(<<n>>)[1] = "$" /\ Holder(<<n>>) \in Text
        BY <4>1, HolderIs
      <4>3. w = Holder(<<n>>)
        BY <3>2 DEF Fill
      <4>4. Holder(<<n>>) # <<>>
        BY <4>2, NotNothing
      <4> HIDE DEF w
      <4> QED BY <4>2, <4>3, <4>4
    <3> QED BY <3>1, <3>2
  <2> HIDE DEF w
  <2>5. Joined(w, Put(u, R, val))[1] = w[1]
    BY <2>2, <2>3, FirstOfJoined
  <2> QED BY <1>4, <2>1, <2>3, <2>5
<1> QED BY <1>1, <1>2, <1>3, FirstOfWellFormed

LEMMA PutOpensNothing ==
  ASSUME NEW x \in Text, Len(x) = 1, NEW u \in Text, WellFormed(u), ~OpensAt(Joined(x, u), 1),
         NEW R, NEW val, AllInert(R, val)
  PROVE  ~OpensAt(Joined(x, Put(u, R, val)), 1)
<1>1. x # <<>> /\ Put(u, R, val) \in Text
  BY PutType
<1> SUFFICES ASSUME OpensAt(Joined(x, Put(u, R, val)), 1) PROVE FALSE
  OBVIOUS
<1>2. x[1] = "$" /\ Put(u, R, val) # <<>> /\ Put(u, R, val)[1] = "{"
  BY <1>1, FirstOfJoined
<1>3. u # <<>> /\ u[1] = "{"
  BY <1>2, FirstOfPut DEF BeginsWithBrace
<1> QED BY <1>1, <1>2, <1>3, FirstOfJoined

\* A placeholder of another name is copied.
LEMMA ReplaceOther ==
  ASSUME NEW m \in Declared, NEW n \in Declared, m # n, NEW u \in Text, NEW v \in Text
  PROVE  ReplaceAll(Joined(Holder(<<m>>), u), Holder(<<n>>), v)
           = Joined(Holder(<<m>>), ReplaceAll(u, Holder(<<n>>), v))
<1> DEFINE h == Holder(<<m>>)
           p == Holder(<<n>>)
           c == <<h[1]>>
           g == Tail(h)
           r == ReplaceAll(u, p, v)
<1>1. m \in Char /\ n \in Char /\ m # "$"
  BY DeclaredChars
<1>2. h \in Text /\ Len(h) = 4 /\ h[1] = "$" /\ h[2] = "{" /\ h[3] = m /\ h[4] = "}"
  BY <1>1, HolderIs
<1>3. p \in Text /\ Len(p) = 4
  BY <1>1, HolderIs
<1>4. Joined(h, u) \in Text /\ Joined(h, u)[3] = m
  BY AddHolder
<1> HIDE DEF h, p
<1>5. Len(p) > 0 /\ h \in Seq(Char) /\ u \in Seq(Char) /\ h # <<>>
  <2>1. Len(p) > 0 /\ h # <<>>
    BY <1>2, <1>3, NotNothing
  <2> QED BY <1>2, <2>1 DEF Text
<1>6. r \in Seq(Char) /\ r \in Text
  BY <1>3, <1>5, ReplaceType DEF Text
<1>7. /\ h = Joined(c, g) /\ c \in Seq(Char) /\ g \in Seq(Char) /\ Len(g) = Len(h) - 1
      /\ \A i \in 1 .. Len(h) - 1 : g[i] = h[i + 1]
  BY <1>5, OneAndRest
<1>8. Len(c) = 1
  OBVIOUS
<1>9. g[1] = "{" /\ g[2] = m /\ g[3] = "}" /\ Len(g) = 3
  <2>4. Len(g) = Len(h) - 1 /\ Len(h) = 4
    BY <1>2, <1>7
  <2>1. Len(g) = 3 /\ Len(h) - 1 = 3
    BY <2>4
  <2>2. 1 \in 1 .. 3 /\ 2 \in 1 .. 3 /\ 3 \in 1 .. 3 /\ 1 + 1 = 2 /\ 2 + 1 = 3 /\ 3 + 1 = 4
    OBVIOUS
  <2>3. g[1] = h[1 + 1] /\ g[2] = h[2 + 1] /\ g[3] = h[3 + 1]
    BY <1>7, <2>1, <2>2
  <2> QED BY <1>2, <2>1, <2>2, <2>3
<1> HIDE DEF c, g, r
<1>10. Plain(g)
  <2>1. g \in Text /\ g[Len(g)] # "$"
    BY <1>7, <1>9 DEF Text
  <2>2. \A i \in 1 .. 3 : i = 1 \/ i = 2 \/ i = 3
    OBVIOUS
  <2>3. \A i \in 1 .. Len(g) : g[i] # "$"
    BY <1>1, <1>9, <2>2
  <2>4. \A i \in 1 .. Len(g) : ~OpensAt(g, i)
    BY <2>3 DEF OpensAt
  <2> QED BY <2>1, <2>4 DEF Plain
<1>11. ReplaceAll(Joined(g, u), p, v) = Joined(g, r)
  BY <1>1, <1>10, ReplacePlain DEF p, r
<1>12. Joined(h, u) = Joined(c, Joined(g, u)) /\ Joined(h, r) = Joined(c, Joined(g, r))
  BY <1>5, <1>6, <1>7, Assoc
<1>13. ~Matches(Joined(h, u), p, 1)
  <2>1. Matches(Joined(h, u), p, 1) => HoldsAt(Joined(h, u), n, 1)
    BY <1>1, <1>4, HolderAt DEF p
  <2>2. HoldsAt(Joined(h, u), n, 1) => Joined(h, u)[3] = n
    <3>1. 1 + 2 = 3
      OBVIOUS
    <3> QED BY <3>1, Zenon DEF HoldsAt
  <2> QED BY <1>4, <2>1, <2>2 DEF h
<1>14. ReplaceAll(Joined(c, Joined(g, u)), p, v) = Joined(c, ReplaceAll(Joined(g, u), p, v))
  <2>1. c \in Text /\ Len(c) > 0 /\ Joined(g, u) \in Text
    <3>1. Joined(g, u) \in Seq(Char)
      BY <1>5, <1>7, CharBehind
    <3> QED BY <1>7, <1>8, <3>1 DEF Text
  <2>2. ~Matches(Joined(c, Joined(g, u)), p, 1)
    BY <1>12, <1>13
  <2>3. p \in Text /\ Len(p) > 0 /\ Single(c)
    BY <1>3, <1>5, <1>8 DEF Single
  <2> QED BY <2>1, <2>2, <2>3, ReplaceCopy
<1>15. ReplaceAll(Joined(h, u), p, v) = Joined(h, r)
  BY <1>11, <1>12, <1>14
<1> QED BY <1>15 DEF h, p, r

\* Replacing one name more is putting in one name more.
LEMMA ReplacePut ==
  ASSUME NEW t \in Text, WellFormed(t), NEW R, NEW val, NEW n \in Declared,
         AllInert(R \cup {n}, val)
  PROVE  ReplaceAll(Put(t, R, val), Holder(<<n>>), val[n]) = Put(t, R \cup {n}, val)
<1> DEFINE p == Holder(<<n>>)
           Q == R \cup {n}
           C == {z \in Text : WellFormed(z)
                                /\ ReplaceAll(Put(z, R, val), p, val[n]) # Put(z, Q, val)}
<1> SUFFICES ASSUME C # {} PROVE FALSE
  OBVIOUS
<1>1. PICK z \in C : \A h \in C : Len(z) <= Len(h)
  <2>1. C \in SUBSET Seq(Char)
    BY DEF Text
  <2> HIDE DEF C
  <2> QED BY <2>1, ShortestText
<1>2. z \in Text /\ WellFormed(z) /\ ReplaceAll(Put(z, R, val), p, val[n]) # Put(z, Q, val)
  BY <1>1
<1>3. \A u \in Text : WellFormed(u) /\ Len(u) < Len(z)
                        => ReplaceAll(Put(u, R, val), p, val[n]) = Put(u, Q, val)
  <2> SUFFICES ASSUME NEW u \in Text, WellFormed(u), Len(u) < Len(z), u \in C PROVE FALSE
    OBVIOUS
  <2>1. Len(u) \in Nat /\ Len(z) \in Nat
    BY <1>2 DEF Text
  <2>2. Len(z) <= Len(u)
    BY <1>1
  <2> HIDE DEF C
  <2> QED BY <2>1, <2>2
<1> HIDE DEF C
<1>4. n \in Char
  BY DeclaredChars
<1>5. p \in Text /\ Len(p) = 4
  BY <1>4, HolderIs
<1>6. AllInert(R, val) /\ AllInert(Q, val) /\ val[n] \in Text /\ Plain(val[n])
  BY DEF AllInert, Inert, Plain
<1> HIDE DEF p, Q
<1>7. Len(p) > 0
  BY <1>5
<1>8. z # <<>>
  <2>1. Put(<<>>, R, val) = <<>> /\ Put(<<>>, Q, val) = <<>>
    BY PutNothing
  <2> QED BY <1>2, <2>1, ReplaceNothing
<1>9. ASSUME NEW x \in Text, NEW u \in Text, Len(x) = 1, z = Joined(x, u), ~OpensAt(z, 1),
             WellFormed(u), Len(u) < Len(z)
      PROVE  FALSE
  <2> DEFINE r == Put(u, R, val)
  <2>1. Put(z, R, val) = Joined(x, r) /\ Put(z, Q, val) = Joined(x, Put(u, Q, val))
    BY <1>6, <1>9, PutChar
  <2>2. r \in Text
    BY <1>6, <1>9, PutType
  <2>3. ~OpensAt(Joined(x, r), 1)
    BY <1>6, <1>9, PutOpensNothing
  <2> HIDE DEF r
  <2>4. x # <<>> /\ Len(x) > 0
    BY <1>9, NotNothing
  <2>5. ~Matches(Joined(x, r), p, 1)
    BY <1>4, <2>2, <2>3, <2>4, FirstOfJoined, HolderOpens DEF p
  <2>6. ReplaceAll(Joined(x, r), p, val[n]) = Joined(x, ReplaceAll(r, p, val[n]))
    <3>1. p \in Text /\ Len(p) > 0 /\ val[n] \in Text /\ Single(x)
      BY <1>5, <1>6, <1>7, <1>9 DEF Single
    <3> QED BY <2>2, <2>5, <3>1, ReplaceCopy
  <2>7. ReplaceAll(r, p, val[n]) = Put(u, Q, val)
    BY <1>3, <1>9 DEF r
  <2> QED BY <1>2, <2>1, <2>6, <2>7
<1>10. ASSUME NEW m \in Declared, NEW u \in Text, z = Joined(Holder(<<m>>), u),
             WellFormed(u), Len(u) < Len(z)
      PROVE  FALSE
  <2> DEFINE r == Put(u, R, val)
  <2>1. /\ Put(z, R, val) = Joined(Fill(m, R, val), r)
        /\ Put(z, Q, val) = Joined(Fill(m, Q, val), Put(u, Q, val))
    BY <1>6, <1>10, PutHolder
  <2>2. r \in Text
    BY <1>6, <1>10, PutType
  <2>7. ReplaceAll(r, p, val[n]) = Put(u, Q, val)
    BY <1>3, <1>10
  <2> HIDE DEF r
  <2>3. CASE m \in R
    <3>1. Fill(m, R, val) = val[m] /\ Fill(m, Q, val) = val[m]
      BY <2>3 DEF Fill, Q
    <3>2. Plain(val[m])
      BY <1>6, <2>3 DEF AllInert, Inert
    <3>3. ReplaceAll(Joined(val[m], r), p, val[n]) = Joined(val[m], ReplaceAll(r, p, val[n]))
      BY <1>4, <1>6, <2>2, <3>2, ReplacePlain DEF p
    <3> QED BY <1>2, <2>1, <2>7, <3>1, <3>3
  <2>4. CASE m \notin R /\ m = n
    <3>1. Fill(m, R, val) = p /\ Fill(m, Q, val) = val[n]
      BY <2>4 DEF Fill, p, Q
    <3>2. Matches(Joined(p, r), p, 1)
      BY <2>2, AddHolder DEF p
    <3>3. ReplaceAll(Joined(p, r), p, val[n]) = Joined(val[n], ReplaceAll(r, p, val[n]))
      <4>1. p \in Text /\ Len(p) > 0 /\ val[n] \in Text /\ Len(p) = Len(p)
        BY <1>5, <1>6, <1>7
      <4> QED BY <2>2, <3>2, <4>1, ReplaceMatch
    <3> QED BY <1>2, <2>1, <2>7, <3>1, <3>3
  <2>5. CASE m \notin R /\ m # n
    <3>1. Fill(m, R, val) = Holder(<<m>>) /\ Fill(m, Q, val) = Holder(<<m>>)
      BY <2>5 DEF Fill, Q
    <3>3. ReplaceAll(Joined(Holder(<<m>>), r), p, val[n])
            = Joined(Holder(<<m>>), ReplaceAll(r, p, val[n]))
      BY <1>6, <2>2, <2>5, ReplaceOther DEF p
    <3> QED BY <1>2, <2>1, <2>7, <3>1, <3>3
  <2> QED BY <2>3, <2>4, <2>5
<1> QED BY <1>2, <1>8, <1>9, <1>10, FirstOfWellFormed

\* Putting values in takes away their names and adds none.
LEMMA NamesOfPut ==
  ASSUME NEW t \in Text, WellFormed(t), NEW R, NEW val, AllInert(R, val)
  PROVE  WellFormed(Put(t, R, val)) /\ NamesOf(Put(t, R, val)) = NamesOf(t) \ R
<1> DEFINE Good(z) == /\ WellFormed(Put(z, R, val))
                      /\ NamesOf(Put(z, R, val)) = NamesOf(z) \ R
           C == {z \in Text : WellFormed(z) /\ ~Good(z)}
<1> SUFFICES ASSUME C # {} PROVE FALSE
  OBVIOUS
<1>1. PICK z \in C : \A h \in C : Len(z) <= Len(h)
  <2>1. C \in SUBSET Seq(Char)
    BY DEF Text
  <2> HIDE DEF C
  <2> QED BY <2>1, ShortestText
<1>2. z \in Text /\ WellFormed(z) /\ ~Good(z)
  BY <1>1
<1>3. \A u \in Text : WellFormed(u) /\ Len(u) < Len(z) => Good(u)
  <2> SUFFICES ASSUME NEW u \in Text, WellFormed(u), Len(u) < Len(z), u \in C PROVE FALSE
    OBVIOUS
  <2>1. Len(u) \in Nat /\ Len(z) \in Nat
    BY <1>2 DEF Text
  <2>2. Len(z) <= Len(u)
    BY <1>1
  <2> HIDE DEF C
  <2> QED BY <2>1, <2>2
<1> HIDE DEF C
<1>5. z # <<>>
  <2>1. Good(<<>>)
    BY PutNothing DEF WellFormed, NamesOf
  <2> QED BY <1>2, <2>1
<1>6. ASSUME NEW x \in Text, NEW u \in Text, Len(x) = 1, z = Joined(x, u), ~OpensAt(z, 1),
             WellFormed(u), Len(u) < Len(z)
      PROVE  FALSE
  <2>1. Len(x) = 1 /\ ~OpensAt(Joined(x, u), 1) /\ WellFormed(u)
    BY <1>6
  <2> DEFINE r == Put(u, R, val)
  <2>2. Put(Joined(x, u), R, val) = Joined(x, r)
    BY <2>1, PutChar
  <2>3. r \in Text /\ ~OpensAt(Joined(x, r), 1)
    BY <2>1, PutType, PutOpensNothing
  <2>4. WellFormed(r) /\ NamesOf(r) = NamesOf(u) \ R
    BY <1>3, <1>6
  <2> HIDE DEF r
  <2>5. WellFormed(Joined(x, r)) /\ NamesOf(Joined(x, r)) = NamesOf(r)
    BY <2>1, <2>3, <2>4, AddChar
  <2>6. NamesOf(Joined(x, u)) = NamesOf(u)
    BY <2>1, AddChar
  <2> QED BY <1>2, <1>6, <2>2, <2>4, <2>5, <2>6
<1>7. ASSUME NEW n \in Declared, NEW u \in Text, z = Joined(Holder(<<n>>), u),
             WellFormed(u), Len(u) < Len(z)
      PROVE  FALSE
  <2>1. WellFormed(u)
    BY <1>7
  <2> DEFINE r == Put(u, R, val)
             h == Holder(<<n>>)
  <2>2. Put(Joined(h, u), R, val) = Joined(Fill(n, R, val), r)
    BY <2>1, PutHolder
  <2>3. r \in Text
    BY <2>1, PutType
  <2>4. WellFormed(r) /\ NamesOf(r) = NamesOf(u) \ R
    BY <1>3, <1>7
  <2> HIDE DEF r
  <2>5. NamesOf(Joined(h, u)) = NamesOf(u) \cup {n}
    BY <2>1, AddHolder
  <2>6. WellFormed(Joined(Fill(n, R, val), r))
    <3>1. CASE n \in R
      BY <2>3, <2>4, <3>1, PlainBefore DEF Fill, AllInert, Inert
    <3>2. CASE n \notin R
      BY <2>3, <2>4, <3>2, AddHolder DEF Fill
    <3> QED BY <3>1, <3>2
  <2>7. NamesOf(Joined(Fill(n, R, val), r)) = (NamesOf(u) \cup {n}) \ R
    <3>1. CASE n \in R
      <4>1. NamesOf(Joined(Fill(n, R, val), r)) = NamesOf(r)
        BY <2>3, <2>4, <3>1, PlainBefore DEF Fill, AllInert, Inert
      <4> QED BY <2>4, <3>1, <4>1
    <3>2. CASE n \notin R
      <4>1. NamesOf(Joined(Fill(n, R, val), r)) = NamesOf(r) \cup {n}
        BY <2>3, <2>4, <3>2, AddHolder DEF Fill
      <4> QED BY <2>4, <3>2, <4>1
    <3> QED BY <3>1, <3>2
  <2> QED BY <1>2, <1>7, <2>2, <2>5, <2>6, <2>7
<1> QED BY <1>2, <1>5, <1>6, <1>7, FirstOfWellFormed

LEMMA CharsJoined ==
  ASSUME NEW X, NEW x \in Seq(X), NEW t \in Seq(X)
  PROVE  CharsOf(Joined(x, t)) = CharsOf(x) \cup CharsOf(t)
<1> DEFINE s == Joined(x, t)
<1>1. Len(x) \in Nat /\ Len(t) \in Nat
  OBVIOUS
<1>2. /\ Len(s) = Len(x) + Len(t)
      /\ \A i \in 1 .. Len(x) : s[i] = x[i]
      /\ \A i \in 1 .. Len(t) : s[Len(x) + i] = t[i]
  BY CharBehind DEF Joined
<1> HIDE DEF s
<1>3. /\ \A i \in 1 .. Len(x) : i \in 1 .. Len(s)
      /\ \A i \in 1 .. Len(t) : Len(x) + i \in 1 .. Len(s)
  BY <1>1, <1>2
<1>4. \A j \in 1 .. Len(s) : j \notin 1 .. Len(x) =>
        j - Len(x) \in 1 .. Len(t) /\ Len(x) + (j - Len(x)) = j
  BY <1>1, <1>2
<1>5. \A j \in 1 .. Len(s) : s[j] \in CharsOf(x) \cup CharsOf(t)
  BY <1>2, <1>4 DEF CharsOf
<1>6. /\ \A i \in 1 .. Len(x) : x[i] \in CharsOf(s)
      /\ \A i \in 1 .. Len(t) : t[i] \in CharsOf(s)
  BY <1>2, <1>3 DEF CharsOf
<1>7. CharsOf(s) \subseteq CharsOf(x) \cup CharsOf(t)
  BY <1>5 DEF CharsOf
<1>8. CharsOf(x) \subseteq CharsOf(s) /\ CharsOf(t) \subseteq CharsOf(s)
  BY <1>6 DEF CharsOf
<1> QED BY <1>7, <1>8 DEF s

\* TemplateVars lists the name of the placeholder in front.
LEMMA VarsHolder ==
  ASSUME NEW n \in Declared, NEW u \in Text
  PROVE  TemplateVars(Joined(Holder(<<n>>), u)) = Joined(<<<<n>>>>, TemplateVars(u))
<1> DEFINE x == Holder(<<n>>)
           s == Joined(x, u)
<1>1. n \in Char
  BY DeclaredChars
<1>2. x \in Text /\ Len(x) = 4
  BY <1>1, HolderIs
<1>3. s \in Text /\ OpensAt(s, 1) /\ s[3] = n /\ ClosedAt(s, 1) = 4
  BY AddHolder
<1> HIDE DEF x
<1>4. x \in Seq(Char) /\ u \in Seq(Char) /\ s \in Seq(Char)
  BY <1>2, <1>3 DEF Text
<1>5. Len(s) = Len(x) + Len(u) /\ Len(u) \in Nat
  BY <1>4, CharBehind
<1>6. Len(x) > 0 /\ Len(x) - 1 = 3 /\ 3 <= Len(s)
  BY <1>2, <1>5
<1>7. SubSeq(s, 3, 3) = <<n>>
  <2>1. 3 \in 1 .. Len(s) /\ s[3] = n
    BY <1>3, <1>5, <1>6
  <2> QED BY <1>4, <2>1, PartOfOne
<1>8. ClosedAt(s, 1) = Len(x)
  BY <1>2, <1>3
<1>9. TemplateVars(s) = Joined(<<SubSeq(s, 3, Len(x) - 1)>>, TemplateVars(u))
  BY <1>2, <1>3, <1>6, <1>8, VarsFirst
<1> QED BY <1>6, <1>7, <1>9 DEF x

\* The names extracted are the names of the placeholders.
LEMMA VarsAreNames ==
  ASSUME NEW t \in Text, WellFormed(t)
  PROVE  CharsOf(TemplateVars(t)) = {<<n>> : n \in NamesOf(t)} /\ NamesOf(t) \subseteq Declared
<1> DEFINE Good(z) == /\ CharsOf(TemplateVars(z)) = {<<n>> : n \in NamesOf(z)}
                      /\ NamesOf(z) \subseteq Declared
           C == {z \in Text : WellFormed(z) /\ ~Good(z)}
<1> SUFFICES ASSUME C # {} PROVE FALSE
  OBVIOUS
<1>1. PICK z \in C : \A h \in C : Len(z) <= Len(h)
  <2>1. C \in SUBSET Seq(Char)
    BY DEF Text
  <2> HIDE DEF C
  <2> QED BY <2>1, ShortestText
<1>2. z \in Text /\ WellFormed(z) /\ ~Good(z)
  BY <1>1
<1>3. \A u \in Text : WellFormed(u) /\ Len(u) < Len(z) => Good(u)
  <2> SUFFICES ASSUME NEW u \in Text, WellFormed(u), Len(u) < Len(z), u \in C PROVE FALSE
    OBVIOUS
  <2>1. Len(u) \in Nat /\ Len(z) \in Nat
    BY <1>2 DEF Text
  <2>2. Len(z) <= Len(u)
    BY <1>1
  <2> HIDE DEF C
  <2> QED BY <2>1, <2>2
<1> HIDE DEF C
<1>5. z # <<>>
  <2>1. Good(<<>>)
    BY VarsNothing DEF NamesOf, CharsOf
  <2> QED BY <1>2, <2>1
<1>6. ASSUME NEW x \in Text, NEW u \in Text, Len(x) = 1, z = Joined(x, u), ~OpensAt(z, 1),
             WellFormed(u), Len(u) < Len(z)
      PROVE  FALSE
  <2>1. Len(x) = 1 /\ ~OpensAt(Joined(x, u), 1) /\ WellFormed(u) /\ Len(x) > 0
    BY <1>6
  <2>2. TemplateVars(Joined(x, u)) = TemplateVars(u)
    BY <2>1, VarsFirst
  <2>3. NamesOf(Joined(x, u)) = NamesOf(u)
    BY <2>1, AddChar
  <2> QED BY <1>2, <1>3, <1>6, <2>2, <2>3
<1>7. ASSUME NEW n \in Declared, NEW u \in Text, z = Joined(Holder(<<n>>), u),
             WellFormed(u), Len(u) < Len(z)
      PROVE  FALSE
  <2>1. WellFormed(u)
    BY <1>7
  <2> DEFINE h == Holder(<<n>>)
  <2>2. TemplateVars(Joined(h, u)) = Joined(<<<<n>>>>, TemplateVars(u))
    BY VarsHolder
  <2>3. NamesOf(Joined(h, u)) = NamesOf(u) \cup {n}
    BY <2>1, AddHolder
  <2>4. CharsOf(TemplateVars(Joined(h, u))) = {<<n>>} \cup CharsOf(TemplateVars(u))
    <3> DEFINE w == <<<<n>>>>
               v == TemplateVars(u)
    <3>1. v \in Seq(Text)
      BY VarsType
    <3>2. w \in Seq(Text)
      <4>1. n \in Char
        BY DeclaredChars
      <4>2. <<n>> \in Text
        BY <4>1 DEF Text
      <4> QED BY <4>2
    <3>3. CharsOf(w) = {<<n>>}
      BY DEF CharsOf
    <3> HIDE DEF w, v
    <3>4. CharsOf(Joined(w, v)) = CharsOf(w) \cup CharsOf(v)
      BY <3>1, <3>2, CharsJoined
    <3> QED BY <2>2, <3>3, <3>4 DEF w, v
  <2>5. CharsOf(TemplateVars(u)) = {<<m>> : m \in NamesOf(u)} /\ NamesOf(u) \subseteq Declared
    BY <1>3, <1>7
  <2> HIDE DEF h
  <2>6. {<<m>> : m \in NamesOf(Joined(h, u))} = {<<n>>} \cup {<<m>> : m \in NamesOf(u)}
    BY <2>3
  <2>7. Good(Joined(h, u))
    BY <2>3, <2>4, <2>5, <2>6
  <2> QED BY <1>2, <1>7, <2>7 DEF h
<1> QED BY <1>2, <1>5, <1>6, <1>7, FirstOfWellFormed

Finals == [n \in Declared |-> Final(n)]

\* The reference result is the template with every value put in at once.
LEMMA AtOnceIsPut ==
  ASSUME template \in Text, WellFormed(template), NEW R, NamesOf(template) \subseteq R
  PROVE  AtOnce = Put(template, R, Finals)
<1>1. ASSUME NEW i \in 1 .. Len(template)
      PROVE  (IF Matches(template, Opening, i) THEN Step(Final(template[i + 2]), i + 4)
              ELSE Copy(template, i)) = PutStep(template, R, Finals)[i]
  <2>1. /\ Matches(template, Opening, i) => OpensAt(template, i)
        /\ OpensAt(template, i) => Matches(template, Opening, i)
    <3>1. i \in Nat \ {0}
      OBVIOUS
    <3> QED BY <3>1, OpeningAt
  <2>2. CASE OpensAt(template, i)
    <3>1. template[i + 2] \in Declared
      BY <2>2 DEF WellFormed, DeclaredAt
    <3>2. template[i + 2] \in R
      BY <2>2 DEF NamesOf
    <3>3. Fill(template[i + 2], R, Finals) = Final(template[i + 2])
      BY <3>1, <3>2 DEF Fill, Finals
    <3>4. PutStep(template, R, Finals)[i] = Step(Final(template[i + 2]), i + 4)
      BY <2>2, <3>3 DEF PutStep
    <3> QED BY <2>1, <2>2, <3>4
  <2>3. CASE ~OpensAt(template, i)
    <3>1. PutStep(template, R, Finals)[i] = Copy(template, i)
      BY <2>3 DEF PutStep
    <3> QED BY <2>1, <2>3, <3>1
  <2> QED BY <2>2, <2>3
<1>2. [i \in 1 .. Len(template) |->
        IF Matches(template, Opening, i) THEN Step(Final(template[i + 2]), i + 4)
        ELSE Copy(template, i)]
      = [i \in 1 .. Len(template) |-> PutStep(template, R, Finals)[i]]
  BY <1>1
<1>3. [i \in 1 .. Len(template) |-> PutStep(template, R, Finals)[i]] = PutStep(template, R, Finals)
  BY DEF PutStep
<1> QED BY <1>2, <1>3 DEF AtOnce, Put

-----------------------------------------------------------------------------
(***************************************************************************)
(* Quoted values (Quote, Escaped).                                         *)
(***************************************************************************)
QuoteStep(v) == [i \in 1 .. Len(v) |-> Step(Escaped(v[i]), i + 1)]
Inner(v) == Rewrite(Len(v), QuoteStep(v))
Ending == <<"\"">>
Quoted(v) == Joined(Inner(v), Ending)
Alone(c) == <<c>>

LEMMA AloneIs ==
  ASSUME NEW c \in Char
  PROVE  Alone(c) \in Text /\ Alone(c) \in Seq(Char) /\ Single(Alone(c)) /\ Alone(c)[1] = c
BY One DEF Alone, Single, Text

LEMMA EndingIs ==
  /\ Ending = Alone("\"") /\ Ending \in Text /\ Ending \in Seq(Char) /\ Single(Ending)
  /\ Ending[1] = "\""
<1>1. Ending = Alone("\"")
  BY DEF Ending, Alone
<1>2. "\"" \in Char
  BY SubstitutionChars
<1> QED BY <1>1, <1>2, AloneIs

LEMMA SingleIs ==
  ASSUME NEW x \in Text, Single(x)
  PROVE  x # <<>> /\ (\A j \in 1 .. Len(x) : j = 1) /\ Len(x) \in Nat \ {0} /\ 1 \in 1 .. Len(x)
<1>1. Len(x) = 1
  BY DEF Single
<1>2. (\A j \in 1 .. Len(x) : j = 1) /\ Len(x) \in Nat \ {0} /\ 1 \in 1 .. Len(x)
  BY <1>1
<1>3. x # <<>>
  BY <1>1, NotNothing
<1> QED BY <1>2, <1>3

LEMMA SingleBefore ==
  ASSUME NEW x \in Text, Single(x), NEW u \in Text
  PROVE  /\ OpensAt(Joined(x, u), 1) => x[1] = "$" /\ BeginsWithBrace(u)
         /\ x[1] = "$" /\ BeginsWithBrace(u) => OpensAt(Joined(x, u), 1)
         /\ Joined(x, u) # <<>> /\ Joined(x, u)[1] = x[1] /\ Joined(x, u) \in Text
<1>1. x # <<>>
  BY SingleIs
<1>2. Len(x) = 1
  BY DEF Single
<1> QED BY <1>1, <1>2, FirstOfJoined DEF BeginsWithBrace

\* What Quote writes for each character.
LEMMA EscapedIs ==
  ASSUME NEW c \in Char
  PROVE  /\ Escaped(c) \in Text
         /\ c \in {"\"", "\\"} => Escaped(c) = <<"\\", c>>
         /\ c = "lf" => Escaped(c) = <<"\\", "n">>
         /\ c \notin {"\"", "\\", "lf"} => Escaped(c) = <<c>>
<1>1. "\\" \in Char /\ "n" \in Char
  BY SubstitutionChars, DeclaredChars
<1>2. <<"\\", c>> \in Seq(Char) /\ <<"\\", "n">> \in Seq(Char)
  BY <1>1, Two
<1>3. <<c>> \in Seq(Char)
  OBVIOUS
<1>4. CASE c \in {"\"", "\\"}
  BY <1>2, <1>4 DEF Escaped, Text
<1>5. CASE c = "lf"
  BY <1>2, <1>5 DEF Escaped, Text
<1>6. CASE c \notin {"\"", "\\", "lf"}
  BY <1>3, <1>6 DEF Escaped, Text
<1> QED BY <1>4, <1>5, <1>6

LEMMA QuotePass ==
  ASSUME NEW v \in Text
  PROVE  IsPass(Len(v), QuoteStep(v), Char)
<1> SUFFICES ASSUME NEW i \in 1 .. Len(v)
             PROVE  /\ QuoteStep(v)[i].write \in Seq(Char)
                    /\ QuoteStep(v)[i].goto \in i + 1 .. Len(v) + 1
  BY DEF IsPass
<1>1. v \in Seq(Char) /\ Len(v) \in Nat
  BY DEF Text
<1>2. Escaped(v[i]) \in Seq(Char)
  <2>1. v[i] \in Char
    BY <1>1
  <2> QED BY <2>1, EscapedIs DEF Text
<1>3. QuoteStep(v)[i].write = Escaped(v[i]) /\ QuoteStep(v)[i].goto = i + 1
  BY DEF QuoteStep, Step
<1> QED BY <1>1, <1>2, <1>3

LEMMA InnerType ==
  ASSUME NEW v \in Text
  PROVE  Inner(v) \in Text /\ Quoted(v) \in Text
<1>1. Inner(v) \in Seq(Char)
  <2>1. Len(v) \in Nat
    BY DEF Text
  <2> QED BY <2>1, QuotePass, RewriteType DEF Inner
<1>2. Joined(Inner(v), Ending) \in Seq(Char)
  BY <1>1, EndingIs, CharBehind
<1> QED BY <1>1, <1>2 DEF Text, Quoted

\* Escaping goes character by character.
LEMMA InnerChar ==
  ASSUME NEW c \in Char, NEW u \in Text
  PROVE  Inner(Joined(Alone(c), u)) = Joined(Escaped(c), Inner(u))
<1> DEFINE x == Alone(c)
           s == Joined(x, u)
           step == QuoteStep(u)
           other == QuoteStep(s)
<1>1. x \in Seq(Char) /\ u \in Seq(Char) /\ Len(x) = 1 /\ x[1] = c
  BY AloneIs DEF Text, Single
<1> HIDE DEF x
<1>2. /\ s \in Text /\ Len(s) = Len(x) + Len(u) /\ \A i \in 1 .. Len(x) : s[i] = x[i]
      /\ \A i \in 1 .. Len(u) : s[Len(x) + i] = u[i]
  BY <1>1, CharBehind DEF Text, Joined
<1>3. IsPass(Len(u), step, Char) /\ IsPass(Len(s), other, Char)
  BY <1>2, QuotePass
<1> HIDE DEF s
<1>4. Len(u) \in Nat /\ Len(s) \in Nat /\ Len(x) \in Nat \ {0} /\ 1 \in 1 .. Len(s) /\ 1 \in 1 .. Len(x)
  BY <1>1, <1>2
<1>5. Behind(Len(x), Len(u), step, other)
  <2> SUFFICES ASSUME NEW i \in 1 .. Len(u)
               PROVE  /\ other[Len(x) + i].write = step[i].write
                      /\ other[Len(x) + i].goto = Len(x) + step[i].goto
    BY DEF Behind
  <2>1. Len(x) + i \in 1 .. Len(s) /\ Len(x) + i + 1 = Len(x) + (i + 1)
    BY <1>2, <1>4
  <2>2. other[Len(x) + i] = Step(Escaped(u[i]), Len(x) + i + 1)
    BY <1>2, <2>1 DEF QuoteStep
  <2>3. step[i] = Step(Escaped(u[i]), i + 1)
    BY DEF QuoteStep
  <2> HIDE DEF step, other
  <2> QED BY <2>1, <2>2, <2>3 DEF Step
<1>6. other[1] = Step(Escaped(c), 1 + 1)
  <2>1. s[1] = c
    BY <1>1, <1>2, <1>4
  <2> QED BY <1>4, <2>1 DEF QuoteStep
<1> DEFINE w == Escaped(c)
<1> HIDE DEF step, other, w
<1>7. other[1].write = w /\ other[1].goto = Len(x) + 1
  BY <1>1, <1>6 DEF Step, w
<1>8. Rewrite(Len(s), other) = Joined(w, Rewrite(Len(u), step))
  BY <1>2, <1>3, <1>4, <1>5, <1>7, RewriteSplit
<1> QED BY <1>8 DEF Inner, step, other, s, x, w

LEMMA QuotedChar ==
  ASSUME NEW c \in Char, NEW u \in Text
  PROVE  Quoted(Joined(Alone(c), u)) = Joined(Escaped(c), Quoted(u))
<1>1. Escaped(c) \in Seq(Char)
  BY EscapedIs DEF Text
<1>2. Inner(u) \in Seq(Char)
  BY InnerType DEF Text
<1>3. Joined(Joined(Escaped(c), Inner(u)), Ending) = Joined(Escaped(c), Joined(Inner(u), Ending))
  <2>1. Ending \in Seq(Char)
    BY EndingIs
  <2> QED BY <1>1, <1>2, <2>1, Assoc
<1> QED BY <1>3, InnerChar DEF Quoted

LEMMA QuotedNothing == Quoted(<<>>) = Ending
<1>1. Inner(<<>>) = <<>>
  BY RewriteNothing DEF Inner
<1> QED BY <1>1, EndingIs, JoinedNothing DEF Quoted

\* What stands before a plain text and begins no placeholder is plain, too.
LEMMA PlainJoin ==
  ASSUME NEW x \in Text, NEW g, Plain(g), g # <<>>,
         \A j \in 1 .. Len(x) : ~OpensAt(Joined(x, g), j)
  PROVE  Plain(Joined(x, g))
<1> DEFINE s == Joined(x, g)
<1>1. x \in Seq(Char) /\ g \in Seq(Char) /\ g \in Text /\ Len(x) \in Nat /\ Len(g) \in Nat \ {0}
  BY DEF Plain, Text
<1>2. /\ s \in Seq(Char) /\ Len(s) = Len(x) + Len(g)
      /\ \A i \in 1 .. Len(g) : s[Len(x) + i] = g[i]
  BY <1>1, CharBehind
<1>3. s[Len(s)] # "$"
  <2>1. Len(g) \in 1 .. Len(g)
    BY <1>1
  <2>2. s[Len(s)] = g[Len(g)]
    BY <1>2, <2>1
  <2> QED BY <2>2 DEF Plain
<1>4. ASSUME NEW j \in 1 .. Len(s), OpensAt(s, j) PROVE FALSE
  <2>1. j \notin 1 .. Len(x)
    BY <1>4
  <2>2. PICK i \in 1 .. Len(g) : OpensAt(g, i)
    BY <1>1, <1>4, <2>1, OpeningsBehind
  <2> QED BY <2>2 DEF Plain
<1> QED BY <1>2, <1>3, <1>4 DEF Plain, Text

Literal(c) == c \notin {"\"", "\\", "lf"} /\ Escaped(c) = Alone(c)
Slashed(c, d) ==
  /\ Escaped(c) = Joined(Alone("\\"), Alone(d)) /\ d # "$" /\ d # "{"
  /\ c = "lf" => d = "n"
  /\ c # "lf" => d = c /\ c # "n"

\* What escaping writes is one plain character or a pair that begins with a backslash.
LEMMA EscapedCases ==
  ASSUME NEW c \in Char
  PROVE  Literal(c) \/ \E d \in Char : Slashed(c, d)
<1>1. "\\" \in Char /\ "n" \in Char
  BY SubstitutionChars, DeclaredChars
<1>2. \A d \in Char : <<"\\", d>> = Joined(Alone("\\"), Alone(d))
  BY <1>1 DEF Joined, Alone
<1>3. CASE c = "\"" \/ c = "\\"
  <2>1. Slashed(c, c)
    BY <1>2, <1>3, EscapedIs DEF Slashed
  <2> QED BY <2>1
<1>4. CASE c = "lf"
  <2>1. Slashed(c, "n")
    BY <1>1, <1>2, <1>4, EscapedIs DEF Slashed
  <2> QED BY <1>1, <2>1
<1>5. CASE c \notin {"\"", "\\", "lf"}
  <2>1. Literal(c)
    BY <1>5, EscapedIs DEF Alone, Literal
  <2> QED BY <2>1
<1> QED BY <1>3, <1>4, <1>5

LEMMA PairBefore ==
  ASSUME NEW c \in Char, NEW d \in Char, NEW g \in Text
  PROVE  Joined(Joined(Alone(c), Alone(d)), g) = Joined(Alone(c), Joined(Alone(d), g))
<1>1. Alone(c) \in Seq(Char) /\ Alone(d) \in Seq(Char) /\ g \in Seq(Char)
  BY AloneIs DEF Text
<1> QED BY <1>1, Assoc

LEMMA PlainChar ==
  ASSUME NEW c \in Char, NEW g, Plain(g), g # <<>>, c = "$" => g[1] # "{"
  PROVE  /\ Plain(Joined(Alone(c), g)) /\ Joined(Alone(c), g) # <<>>
         /\ Joined(Alone(c), g)[1] = c
<1> DEFINE x == Alone(c)
<1>1. x \in Text /\ Single(x) /\ x[1] = c /\ g \in Text
  BY AloneIs DEF Plain
<1> HIDE DEF x
<1>2. ~OpensAt(Joined(x, g), 1)
  BY <1>1, SingleBefore DEF BeginsWithBrace
<1>3. \A j \in 1 .. Len(x) : ~OpensAt(Joined(x, g), j)
  BY <1>1, <1>2, SingleIs
<1>4. Plain(Joined(x, g))
  BY <1>1, <1>3, PlainJoin
<1> QED BY <1>1, <1>4, SingleBefore DEF x

LEMMA EscapedBefore ==
  ASSUME NEW c \in Char, NEW g, Plain(g), g # <<>>, c = "$" => g[1] # "{"
  PROVE  /\ Plain(Joined(Escaped(c), g)) /\ Joined(Escaped(c), g) # <<>>
         /\ Joined(Escaped(c), g)[1] = "{" => c = "{"
<1>1. CASE Escaped(c) = Alone(c)
  BY <1>1, PlainChar
<1>2. CASE \E d \in Char : Escaped(c) = Joined(Alone("\\"), Alone(d)) /\ d # "$"
  <2>1. PICK d \in Char : Escaped(c) = Joined(Alone("\\"), Alone(d)) /\ d # "$"
    BY <1>2
  <2>2. "\\" \in Char /\ g \in Seq(Char)
    BY SubstitutionChars DEF Plain, Text
  <2>3. Plain(Joined(Alone(d), g)) /\ Joined(Alone(d), g) # <<>>
    BY <2>1, PlainChar
  <2>4. /\ Plain(Joined(Alone("\\"), Joined(Alone(d), g)))
        /\ Joined(Alone("\\"), Joined(Alone(d), g)) # <<>>
        /\ Joined(Alone("\\"), Joined(Alone(d), g))[1] = "\\"
    BY <2>2, <2>3, PlainChar

  <2>6. g \in Text
    BY DEF Plain
  <2>7. Joined(Escaped(c), g) = Joined(Alone("\\"), Joined(Alone(d), g))
    <3>1. Joined(Joined(Alone("\\"), Alone(d)), g) = Joined(Alone("\\"), Joined(Alone(d), g))
      BY <2>2, <2>6, PairBefore, Zenon
    <3> QED BY <2>1, <3>1
  <2>8. Joined(Escaped(c), g)[1] # "{"
    BY <2>4, <2>7
  <2>9. Plain(Joined(Escaped(c), g)) /\ Joined(Escaped(c), g) # <<>>
    BY <2>4, <2>7
  <2> QED BY <2>8, <2>9
<1> QED BY <1>1, <1>2, EscapedCases DEF Literal, Slashed

OpensNothing(v) == \A i \in 1 .. Len(v) : ~OpensAt(v, i)

LEMMA TailOpensNothing ==
  ASSUME NEW x \in Text, Single(x), NEW u \in Text, OpensNothing(Joined(x, u))
  PROVE  OpensNothing(u) /\ ~OpensAt(Joined(x, u), 1)
<1>1. x \in Seq(Char) /\ u \in Seq(Char) /\ Len(u) \in Nat
  BY DEF Text
<1>2. Len(Joined(x, u)) = Len(x) + Len(u)
  BY <1>1, CharBehind
<1>3. Len(x) \in Nat \ {0}
  BY SingleIs
<1>4. 1 \in 1 .. Len(Joined(x, u)) /\ \A i \in 1 .. Len(u) : Len(x) + i \in 1 .. Len(Joined(x, u))
  BY <1>1, <1>2, <1>3
<1>5. ASSUME NEW i \in 1 .. Len(u), OpensAt(u, i) PROVE FALSE
  <2>1. OpensAt(Joined(x, u), Len(x) + i)
    <3>1. i \in Nat \ {0}
      OBVIOUS
    <3> QED BY <1>5, <3>1, OpensBehind
  <2> QED BY <1>4, <2>1 DEF OpensNothing
<1> QED BY <1>4, <1>5 DEF OpensNothing

\* An escaped value without placeholder fragments is plain with its quote.
LEMMA QuotedIsPlain ==
  ASSUME NEW v \in Text, OpensNothing(v)
  PROVE  /\ Plain(Quoted(v)) /\ Quoted(v) # <<>>
         /\ Quoted(v)[1] = "{" => v # <<>> /\ v[1] = "{"
<1> DEFINE Good(z) == /\ Plain(Quoted(z)) /\ Quoted(z) # <<>>
                      /\ Quoted(z)[1] = "{" => z # <<>> /\ z[1] = "{"
           C == {z \in Text : OpensNothing(z) /\ ~Good(z)}
<1> SUFFICES ASSUME C # {} PROVE FALSE
  OBVIOUS
<1>1. PICK z \in C : \A h \in C : Len(z) <= Len(h)
  <2>1. C \in SUBSET Seq(Char)
    BY DEF Text
  <2> HIDE DEF C
  <2> QED BY <2>1, ShortestText
<1>2. z \in Text /\ OpensNothing(z) /\ ~Good(z)
  BY <1>1
<1>3. \A u \in Text : OpensNothing(u) /\ Len(u) < Len(z) => Good(u)
  <2> SUFFICES ASSUME NEW u \in Text, OpensNothing(u), Len(u) < Len(z), u \in C PROVE FALSE
    OBVIOUS
  <2>1. Len(u) \in Nat /\ Len(z) \in Nat
    <3>1. z \in Seq(Char) /\ u \in Seq(Char)
      BY <1>2 DEF Text
    <3> HIDE DEF C
    <3> QED BY <3>1
  <2>2. Len(z) <= Len(u)
    BY <1>1
  <2> HIDE DEF C
  <2> QED BY <2>1, <2>2
<1> HIDE DEF C
<1>4. CASE z = <<>>
  <2>1. Quoted(z) = Ending
    BY <1>4, QuotedNothing
  <2>2. Ending # <<>> /\ \A i \in 1 .. Len(Ending) : i = 1
    BY EndingIs, SingleIs
  <2>3. \A i \in 1 .. Len(Ending) : ~OpensAt(Ending, i)
    BY <2>2, EndingIs DEF OpensAt
  <2>4. Ending[Len(Ending)] # "$"
    BY EndingIs DEF Single
  <2>5. Plain(Ending)
    BY <2>3, <2>4, EndingIs DEF Plain
  <2> QED BY <1>2, <2>1, <2>2, <2>5, EndingIs
<1>5. CASE z # <<>>
  <2> DEFINE c == z[1]
             u == Tail(z)
  <2>1. z = Joined(Alone(c), u) /\ u \in Text /\ c \in Char
    BY <1>2, <1>5, OneAndRest DEF Text, Alone
  <2>2. Len(u) < Len(z)
    <3>1. Len(u) = Len(z) - 1 /\ Len(z) \in Nat \ {0}
      BY <1>2, <1>5, OneAndRest DEF Text
    <3> HIDE DEF u
    <3> QED BY <3>1
  <2> HIDE DEF c, u
  <2>3. Quoted(z) = Joined(Escaped(c), Quoted(u))
    BY <2>1, QuotedChar
  <2>4. Alone(c) \in Text /\ Single(Alone(c)) /\ Alone(c)[1] = c
    BY <2>1, AloneIs
  <2>5. OpensNothing(u) /\ ~OpensAt(Joined(Alone(c), u), 1)
    <3>1. OpensNothing(Joined(Alone(c), u))
      BY <1>2, <2>1
    <3> QED BY <2>1, <2>4, <3>1, TailOpensNothing
  <2>6. Good(u)
    BY <1>3, <2>1, <2>2, <2>5
  <2>7. c = "$" => Quoted(u)[1] # "{"
    <3> SUFFICES ASSUME c = "$", Quoted(u)[1] = "{" PROVE FALSE
      OBVIOUS
    <3>1. BeginsWithBrace(u)
      BY <2>6 DEF BeginsWithBrace
    <3> QED BY <2>1, <2>4, <2>5, <3>1, SingleBefore
  <2>8. /\ Plain(Quoted(z)) /\ Quoted(z) # <<>>
        /\ Quoted(z)[1] = "{" => c = "{"
    BY <2>1, <2>3, <2>6, <2>7, EscapedBefore
  <2>9. z[1] = c
    BY DEF c
  <2> QED BY <1>2, <1>5, <2>8, <2>9
<1> QED BY <1>4, <1>5

LEMMA QuoteIs ==
  ASSUME NEW v \in Text
  PROVE  Quote(v) = Joined(Ending, Quoted(v)) /\ Quote(v) \in Text
<1>1. Quote(v) = Joined(Joined(Ending, Inner(v)), Ending)
  BY DEF Quote, Inner, QuoteStep, Joined, Ending
<1>2. Inner(v) \in Seq(Char) /\ Quoted(v) \in Seq(Char)
  BY InnerType DEF Text
<1>3. Quote(v) = Joined(Ending, Joined(Inner(v), Ending))
  <2>1. Ending \in Seq(Char)
    BY EndingIs
  <2>2. Joined(Joined(Ending, Inner(v)), Ending) = Joined(Ending, Joined(Inner(v), Ending))
    BY <1>2, <2>1, Assoc
  <2> QED BY <1>1, <2>2
<1>4. Joined(Ending, Quoted(v)) \in Seq(Char)
  BY <1>2, EndingIs, CharBehind
<1> QED BY <1>3, <1>4 DEF Quoted, Text

\* A quoted value that passed the scan for fragments is inert: putting it in
\* makes no placeholder (EmitScalar, secretValues).
LEMMA QuoteIsInert ==
  ASSUME NEW v \in Text, OpensNothing(v)
  PROVE  Inert(Quote(v))
<1>1. "\"" \in Char
  BY SubstitutionChars
<1>2. Plain(Quoted(v)) /\ Quoted(v) # <<>>
  BY QuotedIsPlain
<1>3. Quote(v) = Joined(Alone("\""), Quoted(v))
  BY QuoteIs, EndingIs
<1>4. /\ Plain(Joined(Alone("\""), Quoted(v))) /\ Joined(Alone("\""), Quoted(v)) # <<>>
      /\ Joined(Alone("\""), Quoted(v))[1] = "\""
  BY <1>1, <1>2, PlainChar
<1> QED BY <1>3, <1>4 DEF Inert

\* So is a number (EmitScalar).
LEMMA NumberIsInert ==
  ASSUME NEW v \in Text, IsNumber(v)
  PROVE  Inert(v)
<1>1. v # <<>> /\ CharsOf(v) \subseteq {"0", "1", "7"}
  BY DEF IsNumber, IsUnsignedDecimal, Digits
<1>2. Len(v) \in Nat \ {0} /\ \A i \in 1 .. Len(v) : v[i] # "$" /\ v[i] # "{"
  <2>1. Len(v) \in Nat \ {0}
    <3>1. v \in Seq(Char) /\ v # <<>>
      BY <1>1 DEF Text
    <3> QED BY <3>1
  <2>2. \A i \in 1 .. Len(v) : v[i] \in {"0", "1", "7"}
    BY <1>1 DEF CharsOf
  <2> QED BY <2>1, <2>2
<1>3. v[Len(v)] # "$" /\ v[1] # "{"
  <2>1. Len(v) \in Nat \ {0}
    BY <1>2
  <2>2. Len(v) \in 1 .. Len(v) /\ 1 \in 1 .. Len(v)
    BY <2>1
  <2> QED BY <1>2, <2>2
<1>4. \A i \in 1 .. Len(v) : ~OpensAt(v, i)
  BY <1>2 DEF OpensAt
<1> QED BY <1>1, <1>3, <1>4 DEF Inert, Plain

-----------------------------------------------------------------------------
(***************************************************************************)
(* Reading a quoted value back (ReadBack): the scalar ends at the quote that*)
(* Quote wrote last, and every escape gives the character it stands for.   *)
(***************************************************************************)
Unescaped(d) == IF d = "n" THEN "lf" ELSE d
BackWrite(a, i, n, b) ==
  IF a = "\"" THEN <<>> ELSE IF i = n THEN <<"unterminated">>
  ELSE IF a = "\\" THEN <<Unescaped(b)>> ELSE <<a>>
BackGoto(a, i, n) ==
  IF a = "\"" THEN n + 1 ELSE IF i = n THEN i + 1 ELSE IF a = "\\" THEN i + 2 ELSE i + 1
BackStep(s) ==
  [i \in 1 .. Len(s) |-> Step(BackWrite(s[i], i, Len(s), s[i + 1]), BackGoto(s[i], i, Len(s)))]
Back(s) == Rewrite(Len(s), BackStep(s))
Read == Char \cup {"unterminated"}

LEMMA BackPass ==
  ASSUME NEW s \in Text
  PROVE  IsPass(Len(s), BackStep(s), Read)
<1> SUFFICES ASSUME NEW i \in 1 .. Len(s)
             PROVE  /\ BackStep(s)[i].write \in Seq(Read)
                    /\ BackStep(s)[i].goto \in i + 1 .. Len(s) + 1
  BY DEF IsPass
<1>1. s \in Seq(Char) /\ Len(s) \in Nat
  BY DEF Text
<1>2. /\ BackStep(s)[i].write = BackWrite(s[i], i, Len(s), s[i + 1])
      /\ BackStep(s)[i].goto = BackGoto(s[i], i, Len(s))
  BY DEF BackStep, Step
<1>3. "lf" \in Read /\ "unterminated" \in Read
  BY SubstitutionChars DEF Read
<1>4. s[i] \in Char /\ (i # Len(s) => s[i + 1] \in Char)
  <2>1. i # Len(s) => i + 1 \in 1 .. Len(s)
    BY <1>1
  <2> QED BY <1>1, <2>1
<1>5. BackWrite(s[i], i, Len(s), s[i + 1]) \in Seq(Read)
  <2>1. <<>> \in Seq(Read) /\ \A a \in Read : <<a>> \in Seq(Read)
    OBVIOUS
  <2>2. s[i] \in Read /\ (i # Len(s) => Unescaped(s[i + 1]) \in Read)
    BY <1>3, <1>4 DEF Unescaped, Read
  <2> QED BY <1>3, <2>1, <2>2 DEF BackWrite
<1>6. BackGoto(s[i], i, Len(s)) \in i + 1 .. Len(s) + 1
  <2>1. /\ Len(s) + 1 \in i + 1 .. Len(s) + 1 /\ i + 1 \in i + 1 .. Len(s) + 1
        /\ i # Len(s) => i + 2 \in i + 1 .. Len(s) + 1
    BY <1>1
  <2> QED BY <2>1, Zenon DEF BackGoto
<1> QED BY <1>2, <1>5, <1>6

LEMMA BackBehind ==
  ASSUME NEW x \in Text, NEW t \in Text
  PROVE  Behind(Len(x), Len(t), BackStep(t), BackStep(Joined(x, t)))
<1> DEFINE s == Joined(x, t)
<1>1. x \in Seq(Char) /\ t \in Seq(Char) /\ Len(x) \in Nat /\ Len(t) \in Nat
  BY DEF Text
<1>2. Len(s) = Len(x) + Len(t) /\ \A i \in 1 .. Len(t) : s[Len(x) + i] = t[i]
  BY <1>1, CharBehind
<1> HIDE DEF s
<1> SUFFICES ASSUME NEW i \in 1 .. Len(t)
             PROVE  /\ BackStep(s)[Len(x) + i].write = BackStep(t)[i].write
                    /\ BackStep(s)[Len(x) + i].goto = Len(x) + BackStep(t)[i].goto
  BY DEF Behind, s
<1> DEFINE j == Len(x) + i
<1>3. j \in 1 .. Len(s) /\ (j = Len(s) => i = Len(t)) /\ (i = Len(t) => j = Len(s))
  <2>1. Len(s) = Len(x) + Len(t)
    BY <1>2
  <2> QED BY <1>1, <2>1
<1>4. s[j] = t[i]
  BY <1>2
<1>5. i # Len(t) => s[j + 1] = t[i + 1]
  <2> SUFFICES ASSUME i # Len(t) PROVE s[j + 1] = t[i + 1]
    OBVIOUS
  <2>1. i + 1 \in 1 .. Len(t) /\ j + 1 = Len(x) + (i + 1)
    BY <1>1
  <2> QED BY <1>2, <2>1
<1>6. j + 1 = Len(x) + (i + 1) /\ j + 2 = Len(x) + (i + 2) /\ Len(s) + 1 = Len(x) + (Len(t) + 1)
  BY <1>1, <1>2
<1> HIDE DEF j
<1>7. /\ BackStep(s)[j].write = BackWrite(s[j], j, Len(s), s[j + 1])
      /\ BackStep(s)[j].goto = BackGoto(s[j], j, Len(s))
      /\ BackStep(t)[i].write = BackWrite(t[i], i, Len(t), t[i + 1])
      /\ BackStep(t)[i].goto = BackGoto(t[i], i, Len(t))
  BY <1>3 DEF BackStep, Step
<1>8. BackWrite(s[j], j, Len(s), s[j + 1]) = BackWrite(t[i], i, Len(t), t[i + 1])
  BY <1>3, <1>4, <1>5, Zenon DEF BackWrite
<1>9. BackGoto(s[j], j, Len(s)) = Len(x) + BackGoto(t[i], i, Len(t))
  BY <1>3, <1>4, <1>6, Zenon DEF BackGoto
<1> QED BY <1>7, <1>8, <1>9 DEF j

\* The first step writes w and goes on behind x.
LEMMA BackSplit ==
  ASSUME NEW x \in Text, x # <<>>, NEW t \in Text, NEW w,
         BackStep(Joined(x, t))[1].write = w, BackStep(Joined(x, t))[1].goto = Len(x) + 1
  PROVE  Back(Joined(x, t)) = Joined(w, Back(t))
<1> DEFINE s == Joined(x, t)
           step == BackStep(t)
           other == BackStep(s)
<1>1. x \in Seq(Char) /\ t \in Seq(Char)
  BY DEF Text
<1>2. Len(x) \in Nat \ {0} /\ Len(t) \in Nat
  BY <1>1
<1>3. Len(s) = Len(x) + Len(t) /\ s \in Text
  BY <1>1, CharBehind DEF Text
<1>4. IsPass(Len(t), step, Read) /\ IsPass(Len(s), other, Read) /\ Behind(Len(x), Len(t), step, other)
  BY <1>3, BackPass, BackBehind
<1>5. other[1].write = w /\ other[1].goto = Len(x) + 1
  OBVIOUS
<1> HIDE DEF step, other, s
<1>6. Len(s) \in Nat
  BY <1>2, <1>3
<1>7. Rewrite(Len(s), other) = Joined(w, Rewrite(Len(t), step))
  BY <1>2, <1>3, <1>4, <1>5, <1>6, RewriteSplit
<1> QED BY <1>7 DEF Back, step, other, s

LEMMA BackFirst ==
  ASSUME NEW s \in Text, s # <<>>
  PROVE  /\ BackStep(s)[1].write = BackWrite(s[1], 1, Len(s), s[2])
         /\ BackStep(s)[1].goto = BackGoto(s[1], 1, Len(s))
<1>1. s \in Seq(Char)
  BY DEF Text
<1>2. 1 \in 1 .. Len(s)
  BY <1>1
<1>3. 1 + 1 = 2
  OBVIOUS
<1>4. BackStep(s)[1] = Step(BackWrite(s[1], 1, Len(s), s[1 + 1]), BackGoto(s[1], 1, Len(s)))
  BY <1>2 DEF BackStep
<1>5. BackStep(s)[1] = Step(BackWrite(s[1], 1, Len(s), s[2]), BackGoto(s[1], 1, Len(s)))
  BY <1>3, <1>4
<1> QED BY <1>5 DEF Step

\* Reading stops at the closing quote.
LEMMA BackEnding ==
  ASSUME NEW r \in Text
  PROVE  Back(Joined(Ending, r)) = <<>>
<1> DEFINE s == Joined(Ending, r)
           step == BackStep(s)
           n == Len(s)
<1>1. s \in Text /\ s # <<>> /\ s[1] = "\""
  BY EndingIs, SingleIs, FirstOfJoined
<1>2. IsPass(n, step, Read)
  BY <1>1, BackPass
<1>3. n \in Nat \ {0}
  <2>1. s \in Seq(Char) /\ s # <<>>
    BY <1>1 DEF Text
  <2> HIDE DEF s
  <2> QED BY <2>1
<1>4. step[1].write = <<>> /\ step[1].goto = n + 1
  BY <1>1, BackFirst DEF BackWrite, BackGoto
<1> HIDE DEF s, step, n
<1>5. Rewrite(n, step) = Joined(step[1].write, Written(n, step)[step[1].goto])
  BY <1>2, <1>3, FirstStep
<1>6. Written(n, step)[n + 1] = <<>>
  BY <1>2, <1>3, WrittenEnd
<1>7. Rewrite(n, step) = Joined(<<>>, <<>>)
  BY <1>4, <1>5, <1>6
<1>8. Joined(<<>>, <<>>) = <<>>
  <2>1. <<>> \in Seq(Char)
    OBVIOUS
  <2> QED BY <2>1, JoinedNothing
<1> QED BY <1>7, <1>8 DEF Back, s, step, n

\* A character that needed no escape is read as it is.
LEMMA BackLiteral ==
  ASSUME NEW c \in Char, Literal(c), NEW w \in Text, w # <<>>
  PROVE  Back(Joined(Alone(c), w)) = Joined(Alone(c), Back(w))
<1> DEFINE x == Alone(c)
           s == Joined(x, w)
<1>1. x \in Text /\ Single(x) /\ x # <<>> /\ x[1] = c
  BY AloneIs, SingleIs
<1> HIDE DEF x
<1>2. s \in Text /\ s # <<>> /\ s[1] = c
  BY <1>1, SingleBefore
<1>3. 1 # Len(s) /\ Len(x) + 1 = 2
  <2>1. Len(x) = 1
    BY <1>1 DEF Single
  <2>2. Len(s) = Len(x) + Len(w)
    BY <1>1, CharBehind DEF Text
  <2>3. Len(w) \in Nat \ {0}
    <3>1. w \in Seq(Char) /\ w # <<>>
      BY DEF Text
    <3> QED BY <3>1
  <2> HIDE DEF s
  <2> QED BY <2>1, <2>2, <2>3
<1>4. BackStep(s)[1].write = BackWrite(c, 1, Len(s), s[2]) /\ BackStep(s)[1].goto = BackGoto(c, 1, Len(s))
  BY <1>2, BackFirst
<1>5. c # "\"" /\ c # "\\"
  BY DEF Literal
<1>6. BackWrite(c, 1, Len(s), s[2]) = x
  BY <1>3, <1>5, Zenon DEF BackWrite, x, Alone
<1>7. BackGoto(c, 1, Len(s)) = Len(x) + 1
  <2>1. 1 + 1 = 2
    OBVIOUS
  <2> QED BY <1>3, <1>5, <2>1, Zenon DEF BackGoto
<1> HIDE DEF s
<1>8. BackStep(Joined(x, w))[1].write = x /\ BackStep(Joined(x, w))[1].goto = Len(x) + 1
  BY <1>4, <1>6, <1>7, Zenon DEF s
<1> QED BY <1>1, <1>8, BackSplit DEF x

\* An escaped one is read as the character it stands for.
LEMMA BackSlashed ==
  ASSUME NEW c \in Char, NEW d \in Char, Slashed(c, d), NEW w \in Text, w # <<>>
  PROVE  Back(Joined(Escaped(c), w)) = Joined(Alone(c), Back(w))
<1> DEFINE y == Alone("\\")
           z == Alone(d)
           x == Joined(y, z)
           s == Joined(x, w)
<1>1. "\\" \in Char
  BY SubstitutionChars
<1>2. /\ y \in Text /\ y \in Seq(Char) /\ Single(y) /\ y[1] = "\\"
      /\ z \in Text /\ z \in Seq(Char) /\ Single(z) /\ z[1] = d
  BY <1>1, AloneIs
<1>3. Len(y) = 1 /\ Len(z) = 1
  BY <1>2 DEF Single
<1> HIDE DEF y, z
<1>4. /\ x \in Seq(Char) /\ Len(x) = Len(y) + Len(z) /\ (\A i \in 1 .. Len(y) : x[i] = y[i])
      /\ (\A i \in 1 .. Len(z) : x[Len(y) + i] = z[i])
  <2>1. y \in Seq(Char) /\ z \in Seq(Char)
    BY <1>2
  <2> QED BY <2>1, CharBehind DEF Joined
<1>5. x \in Text /\ Len(x) = 2 /\ x # <<>>
  <2>1. Len(x) = 2
    BY <1>3, <1>4
  <2>2. x # <<>>
    BY <2>1, <1>4
  <2> QED BY <1>4, <2>1, <2>2 DEF Text
<1>6. x[1] = "\\" /\ x[2] = d
  <2>1. 1 \in 1 .. Len(y) /\ 1 \in 1 .. Len(z) /\ Len(y) + 1 = 2
    BY <1>3
  <2> QED BY <1>2, <1>4, <2>1
<1> HIDE DEF x
<1>7. s \in Seq(Char) /\ Len(s) = Len(x) + Len(w) /\ \A i \in 1 .. Len(x) : s[i] = x[i]
  <2>1. x \in Seq(Char) /\ w \in Seq(Char)
    BY <1>4 DEF Text
  <2> QED BY <2>1, CharBehind
<1>8. s \in Text /\ 1 # Len(s) /\ s # <<>>
  <2>1. Len(w) \in Nat
    BY DEF Text
  <2> HIDE DEF s
  <2>2. Len(s) = Len(x) + Len(w) /\ Len(x) = 2
    BY <1>5, <1>7
  <2>3. 1 # Len(s) /\ Len(s) # 0
    BY <2>1, <2>2
  <2> QED BY <1>7, <2>3 DEF Text
<1>9. s[1] = "\\" /\ s[2] = d
  <2>1. 1 \in 1 .. Len(x) /\ 2 \in 1 .. Len(x)
    BY <1>5
  <2> QED BY <1>6, <1>7, <2>1
<1>10. /\ BackStep(s)[1].write = BackWrite("\\", 1, Len(s), d)
       /\ BackStep(s)[1].goto = BackGoto("\\", 1, Len(s))
  BY <1>8, <1>9, BackFirst
<1>11. BackWrite("\\", 1, Len(s), d) = <<Unescaped(d)>>
  BY <1>8 DEF BackWrite
<1>12. Unescaped(d) = c
  BY DEF Slashed, Unescaped
<1>13. BackGoto("\\", 1, Len(s)) = Len(x) + 1
  <2>1. BackGoto("\\", 1, Len(s)) = 1 + 2
    BY <1>8 DEF BackGoto
  <2>2. 1 + 2 = 2 + 1
    OBVIOUS
  <2> QED BY <1>5, <2>1, <2>2
<1> HIDE DEF s
<1>14. /\ BackStep(Joined(x, w))[1].write = Alone(c)
       /\ BackStep(Joined(x, w))[1].goto = Len(x) + 1
  BY <1>10, <1>11, <1>12, <1>13, Zenon DEF s, Alone
<1>15. Back(Joined(x, w)) = Joined(Alone(c), Back(w))
  BY <1>5, <1>14, BackSplit
<1>16. Escaped(c) = x
  BY DEF Slashed, x, y, z
<1> QED BY <1>15, <1>16

LEMMA BackEscaped ==
  ASSUME NEW c \in Char, NEW w \in Text, w # <<>>
  PROVE  Back(Joined(Escaped(c), w)) = Joined(Alone(c), Back(w))
<1>1. CASE Literal(c)
  <2>1. Escaped(c) = Alone(c)
    BY <1>1 DEF Literal
  <2>2. Back(Joined(Alone(c), w)) = Joined(Alone(c), Back(w))
    BY <1>1, BackLiteral
  <2> QED BY <2>1, <2>2
<1>2. CASE \E d \in Char : Slashed(c, d)
  BY <1>2, BackSlashed
<1> QED BY <1>1, <1>2, EscapedCases

LEMMA JoinedIsNotNothing ==
  ASSUME NEW x \in Text, NEW y \in Text, x # <<>> \/ y # <<>>
  PROVE  Joined(x, y) # <<>>
<1>1. x \in Seq(Char) /\ y \in Seq(Char)
  BY DEF Text
<1>2. Len(Joined(x, y)) = Len(x) + Len(y)
  BY <1>1, CharBehind
<1>3. Len(x) \in Nat /\ Len(y) \in Nat /\ (Len(x) # 0 \/ Len(y) # 0)
  BY <1>1
<1>4. Len(Joined(x, y)) # 0
  BY <1>2, <1>3
<1> QED BY <1>4

LEMMA QuotedNotNothing ==
  ASSUME NEW v \in Text
  PROVE  Quoted(v) # <<>> /\ Quoted(v) \in Text
<1>1. Inner(v) \in Text /\ Quoted(v) \in Text
  BY InnerType
<1>2. Ending \in Text /\ Ending # <<>>
  BY EndingIs, SingleIs
<1> QED BY <1>1, <1>2, JoinedIsNotNothing DEF Quoted

\* What was quoted is read back, whatever follows.
LEMMA BackQuoted ==
  ASSUME NEW v \in Text, NEW r \in Text
  PROVE  Back(Joined(Quoted(v), r)) = v
<1> DEFINE Good(z) == Back(Joined(Quoted(z), r)) = z
           C == {z \in Text : ~Good(z)}
<1> SUFFICES ASSUME C # {} PROVE FALSE
  OBVIOUS
<1>1. PICK z \in C : \A h \in C : Len(z) <= Len(h)
  <2>1. C \in SUBSET Seq(Char)
    BY DEF Text
  <2> HIDE DEF C
  <2> QED BY <2>1, ShortestText
<1>2. z \in Text /\ ~Good(z)
  BY <1>1
<1>3. \A u \in Text : Len(u) < Len(z) => Good(u)
  <2> SUFFICES ASSUME NEW u \in Text, Len(u) < Len(z), u \in C PROVE FALSE
    OBVIOUS
  <2>1. Len(u) \in Nat /\ Len(z) \in Nat
    <3>1. z \in Seq(Char) /\ u \in Seq(Char)
      BY <1>2 DEF Text
    <3> HIDE DEF C
    <3> QED BY <3>1
  <2>2. Len(z) <= Len(u)
    BY <1>1
  <2> HIDE DEF C
  <2> QED BY <2>1, <2>2
<1> HIDE DEF C
<1>4. CASE z = <<>>
  <2>1. Back(Joined(Ending, r)) = <<>>
    BY BackEnding
  <2>2. Quoted(z) = Ending
    BY <1>4, QuotedNothing
  <2> QED BY <1>2, <1>4, <2>1, <2>2
<1>5. CASE z # <<>>
  <2> DEFINE c == z[1]
             u == Tail(z)
  <2>1. z = Joined(Alone(c), u) /\ u \in Text /\ c \in Char
    BY <1>2, <1>5, OneAndRest DEF Text, Alone
  <2>2. Len(u) < Len(z)
    <3>1. Len(u) = Len(z) - 1 /\ Len(z) \in Nat \ {0}
      BY <1>2, <1>5, OneAndRest DEF Text
    <3> HIDE DEF u
    <3> QED BY <3>1
  <2> HIDE DEF c, u
  <2>3. Quoted(z) = Joined(Escaped(c), Quoted(u))
    BY <2>1, QuotedChar
  <2> DEFINE w == Joined(Quoted(u), r)
  <2>4. w \in Text /\ w # <<>>
    <3>1. Quoted(u) \in Text /\ Quoted(u) # <<>>
      BY <2>1, QuotedNotNothing
    <3> QED BY <3>1, FirstOfJoined
  <2>5. Joined(Quoted(z), r) = Joined(Escaped(c), w)
    <3>1. Escaped(c) \in Seq(Char) /\ Quoted(u) \in Seq(Char) /\ r \in Seq(Char)
      BY <2>1, EscapedIs, QuotedNotNothing DEF Text
    <3>2. Joined(Joined(Escaped(c), Quoted(u)), r) = Joined(Escaped(c), Joined(Quoted(u), r))
      BY <3>1, Assoc
    <3> QED BY <2>3, <3>2
  <2>6. Back(w) = u
    BY <1>3, <2>1, <2>2
  <2> HIDE DEF w
  <2>7. Back(Joined(Escaped(c), w)) = Joined(Alone(c), Back(w))
    BY <2>1, <2>4, BackEscaped
  <2> QED BY <1>2, <2>1, <2>5, <2>6, <2>7
<1> QED BY <1>4, <1>5

ReadStep(s) ==
  [i \in 1 .. Len(s) |->
    IF i = 1 THEN Step(<<>>, 2)
    ELSE IF s[i] = "\"" THEN Step(<<>>, Len(s) + 1)
    ELSE IF i = Len(s) THEN Step(<<"unterminated">>, i + 1)
    ELSE IF s[i] = "\\" THEN Step(<<IF s[i + 1] = "n" THEN "lf" ELSE s[i + 1]>>, i + 2)
    ELSE Copy(s, i)]

LEMMA ReadSteps ==
  ASSUME NEW s \in Text, NEW i \in 1 .. Len(s)
  PROVE  /\ i = 1 => ReadStep(s)[i] = Step(<<>>, 2)
         /\ i # 1 => ReadStep(s)[i] = BackStep(s)[i]
<1>1. i = 1 => ReadStep(s)[i] = Step(<<>>, 2)
  BY DEF ReadStep
<1>2. ASSUME i # 1 PROVE ReadStep(s)[i] = BackStep(s)[i]
  <2>1. BackStep(s)[i] = Step(BackWrite(s[i], i, Len(s), s[i + 1]), BackGoto(s[i], i, Len(s)))
    BY DEF BackStep
  <2>2. ReadStep(s)[i] = (IF s[i] = "\"" THEN Step(<<>>, Len(s) + 1)
          ELSE IF i = Len(s) THEN Step(<<"unterminated">>, i + 1)
          ELSE IF s[i] = "\\" THEN Step(<<Unescaped(s[i + 1])>>, i + 2)
          ELSE Step(<<s[i]>>, i + 1))
    BY <1>2 DEF ReadStep, Unescaped, Copy
  <2>3. CASE s[i] = "\""
    BY <2>1, <2>2, <2>3, Zenon DEF BackWrite, BackGoto
  <2>4. CASE s[i] # "\"" /\ i = Len(s)
    BY <2>1, <2>2, <2>4, Zenon DEF BackWrite, BackGoto
  <2>5. CASE s[i] # "\"" /\ i # Len(s) /\ s[i] = "\\"
    BY <2>1, <2>2, <2>5, Zenon DEF BackWrite, BackGoto
  <2>6. CASE s[i] # "\"" /\ i # Len(s) /\ s[i] # "\\"
    BY <2>1, <2>2, <2>6, Zenon DEF BackWrite, BackGoto
  <2> QED BY <2>3, <2>4, <2>5, <2>6
<1> QED BY <1>1, <1>2

\* ReadBack as a pass of its own.
LEMMA ReadIs ==
  ASSUME NEW s
  PROVE  ReadBack(s) = Rewrite(Len(s), ReadStep(s))
BY DEF ReadBack, ReadStep

LEMMA ReadRest ==
  ASSUME NEW x \in Text, Single(x), NEW t \in Text
  PROVE  ReadBack(Joined(x, t)) = Back(t)
<1> DEFINE s == Joined(x, t)
           step == BackStep(t)
           other == ReadStep(s)
<1>1. x \in Seq(Char) /\ t \in Seq(Char)
  BY DEF Text
<1>2. Len(x) \in Nat \ {0} /\ Len(t) \in Nat /\ Len(x) = 1 /\ Len(x) + 1 = 2
  <2>1. Len(x) = 1
    BY DEF Single
  <2> QED BY <1>1, <2>1
<1>3. Len(s) = Len(x) + Len(t) /\ s \in Text
  BY <1>1, CharBehind DEF Text
<1>4. Len(s) \in Nat /\ 1 \in 1 .. Len(s)
  <2>1. Len(s) = Len(x) + Len(t)
    BY <1>3
  <2> QED BY <1>2, <2>1
<1>5. other[1] = Step(<<>>, 2)
  BY <1>3, <1>4, ReadSteps
<1>6. IsPass(Len(t), step, Read) /\ IsPass(Len(s), BackStep(s), Read)
  BY <1>3, BackPass
<1>7. IsPass(Len(s), other, Read)
  <2> SUFFICES ASSUME NEW i \in 1 .. Len(s)
               PROVE  other[i].write \in Seq(Read) /\ other[i].goto \in i + 1 .. Len(s) + 1
    BY DEF IsPass
  <2>1. CASE i # 1
    BY <1>3, <1>6, <2>1, ReadSteps DEF IsPass
  <2>2. CASE i = 1
    <3>1. other[i].write = <<>> /\ other[i].goto = 2
      BY <1>5, <2>2 DEF Step
    <3>2. 2 \in i + 1 .. Len(s) + 1
      BY <1>4, <2>2
    <3> QED BY <3>1, <3>2
  <2> QED BY <2>1, <2>2
<1>8. Behind(Len(x), Len(t), step, other)
  <2> SUFFICES ASSUME NEW i \in 1 .. Len(t)
               PROVE  /\ other[Len(x) + i].write = step[i].write
                      /\ other[Len(x) + i].goto = Len(x) + step[i].goto
    BY DEF Behind
  <2>1. Len(x) + i \in 1 .. Len(s) /\ Len(x) + i # 1
    <3>1. Len(s) = Len(x) + Len(t)
      BY <1>3
    <3> QED BY <1>2, <3>1
  <2>2. other[Len(x) + i] = BackStep(s)[Len(x) + i]
    BY <1>3, <2>1, ReadSteps
  <2>3. Behind(Len(x), Len(t), step, BackStep(s))
    BY BackBehind
  <2> QED BY <2>2, <2>3 DEF Behind
<1>9. other[1].write = <<>> /\ other[1].goto = Len(x) + 1
  BY <1>2, <1>5 DEF Step
<1>10. ReadBack(Joined(x, t)) = Rewrite(Len(s), other)
  BY ReadIs
<1> HIDE DEF step, other, s
<1>11. Rewrite(Len(s), other) = Joined(<<>>, Rewrite(Len(t), step))
  BY <1>2, <1>3, <1>4, <1>6, <1>7, <1>8, <1>9, RewriteSplit
<1>12. Rewrite(Len(t), step) \in Seq(Read)
  BY <1>2, <1>6, RewriteType
<1>13. Joined(<<>>, Rewrite(Len(t), step)) = Rewrite(Len(t), step)
  BY <1>12, JoinedNothing
<1> QED BY <1>10, <1>11, <1>13 DEF Back, step

\* A YAML reader gets from a quoted value what was quoted (Quote).
LEMMA QuoteReadsBack ==
  ASSUME NEW v \in Text, NEW r \in Text
  PROVE  ReadBack(Quote(v) \o r) = v
<1>1. Quoted(v) \in Text /\ Quoted(v) \in Seq(Char) /\ r \in Seq(Char)
  BY QuotedNotNothing DEF Text
<1>2. Ending \in Text /\ Ending \in Seq(Char) /\ Single(Ending)
  BY EndingIs
<1>3. Joined(Quoted(v), r) \in Text
  BY <1>1, CharBehind DEF Text
<1>4. Joined(Joined(Ending, Quoted(v)), r) = Joined(Ending, Joined(Quoted(v), r))
  <2>1. Ending \in Seq(Char) /\ Quoted(v) \in Seq(Char) /\ r \in Seq(Char)
    BY <1>1, <1>2
  <2> QED BY <2>1, Assoc
<1>5. Quote(v) \o r = Joined(Quote(v), r)
  BY DEF Joined
<1>6. Quote(v) = Joined(Ending, Quoted(v))
  BY QuoteIs
<1>7. ReadBack(Joined(Ending, Joined(Quoted(v), r))) = Back(Joined(Quoted(v), r))
  BY <1>2, <1>3, ReadRest
<1> QED BY <1>4, <1>5, <1>6, <1>7, BackQuoted

-----------------------------------------------------------------------------
(***************************************************************************)
(* The two phases.  The text is at every step the template with the values *)
(* of some names put in, and the names not yet put in are still to come.   *)
(***************************************************************************)
InputsOK ==
  /\ template \in Text /\ user \in Text
  /\ \A n \in DOMAIN document : document[n] \in Text
  /\ \A n \in DOMAIN bundle : bundle[n] \in Text

TodoOK == todo \in Seq(Text) /\ \A w \in CharsOf(todo) : Known(w)

TextIs(R) == AllInert(R, Finals) /\ text = Put(template, R, Finals)
Covered(R) ==
  /\ pc = "config" =>
       \A n \in NamesOf(template) : n \in R \/ <<n>> \in CharsOf(todo) \/ Kind[n] = "secret"
  /\ pc = "secrets" => \A n \in NamesOf(template) : n \in R \/ <<n>> \in CharsOf(todo)
  /\ pc = "done" => NamesOf(template) \subseteq R
Substituting ==
  WellFormed(template) /\ \E R \in SUBSET Declared : TextIs(R) /\ Covered(R)

SubstitutionInv ==
  /\ InputsOK /\ TodoOK
  /\ pc \in {"validate", "config", "secrets", "done", "refused"}
  /\ pc = "validate" => text = template
  /\ pc \in {"config", "secrets", "done"} => Substituting

\* A value the scan accepts holds no beginning of a placeholder.
LEMMA SafeOpensNothing ==
  ASSUME NEW v \in Text, ~Unsafe(v)
  PROVE  OpensNothing(v)
<1> SUFFICES ASSUME NEW i \in 1 .. Len(v), OpensAt(v, i) PROVE FALSE
  BY DEF OpensNothing
<1>1. i \in Nat \ {0}
  OBVIOUS
<1>2. Matches(v, Opening, i)
  BY <1>1, OpeningAt
<1> QED BY <1>2 DEF Unsafe, Places

\* A value of the document that was accepted is inert.
LEMMA FinalOfConfig ==
  ASSUME NEW n \in Declared, Kind[n] # "secret", document[n] \in Text,
         Acceptable(Kind[n], document[n])
  PROVE  Inert(Final(n)) /\ Final(n) = Emit(Kind[n], document[n])
<1>1. Final(n) = Emit(Kind[n], document[n])
  BY DEF Final
<1>2. CASE Kind[n] = "number"
  BY <1>1, <1>2, NumberIsInert DEF Acceptable, Emit
<1>3. CASE Kind[n] # "number"
  BY <1>1, <1>3, SafeOpensNothing, QuoteIsInert DEF Acceptable, Emit
<1> QED BY <1>1, <1>2, <1>3

\* So is a secret.
LEMMA FinalOfSecret ==
  ASSUME NEW n \in Declared, Kind[n] = "secret", Secret(n) \in Text, ~Unsafe(Secret(n))
  PROVE  Inert(Final(n)) /\ Final(n) = Quote(Secret(n))
BY SafeOpensNothing, QuoteIsInert DEF Final

LEMMA SecretType ==
  ASSUME InputsOK, NEW n \in Declared, Available(n)
  PROVE  Secret(n) \in Text
<1>1. CASE n = "h"
  <2>1. user \in Seq(Char) /\ bundle["s"] \in Seq(Char)
    BY <1>1 DEF InputsOK, Available, Text
  <2>2. ":" \in Char
    BY SubstitutionChars
  <2>3. <<":">> \in Seq(Char)
    BY <2>2, One
  <2> DEFINE colon == <<":">>
  <2> HIDE DEF colon
  <2>4. colon \in Seq(Char)
    BY <2>3 DEF colon
  <2>5. user \o colon \o bundle["s"] \in Seq(Char)
    BY <2>1, <2>4
  <2> QED BY <1>1, <2>5 DEF Secret, Text, colon
<1>2. CASE n # "h"
  BY <1>2 DEF InputsOK, Available, Secret
<1> QED BY <1>1, <1>2

LEMMA CharsOfTodo ==
  ASSUME NEW X, NEW s \in Seq(X)
  PROVE  /\ s # <<>> => /\ CharsOf(s) = {s[1]} \cup CharsOf(Tail(s)) /\ Tail(s) \in Seq(X)
                        /\ s[1] \in X
         /\ s = <<>> => CharsOf(s) = {}
         /\ CharsOf(s) = {} => s = <<>>
<1>1. ASSUME s # <<>> PROVE CharsOf(s) = {s[1]} \cup CharsOf(Tail(s)) /\ Tail(s) \in Seq(X) /\ s[1] \in X
  <2>1. s = Joined(<<s[1]>>, Tail(s)) /\ s[1] \in X /\ Tail(s) \in Seq(X) /\ <<s[1]>> \in Seq(X)
    BY <1>1, OneAndRest
  <2>2. CharsOf(<<s[1]>>) = {s[1]}
    BY DEF CharsOf
  <2>3. CharsOf(Joined(<<s[1]>>, Tail(s))) = CharsOf(<<s[1]>>) \cup CharsOf(Tail(s))
    BY <2>1, CharsJoined
  <2> QED BY <2>1, <2>2, <2>3
<1>2. s = <<>> => CharsOf(s) = {}
  BY DEF CharsOf
<1>3. ASSUME s # <<>> PROVE CharsOf(s) # {}
  <2>1. 1 \in 1 .. Len(s)
    BY <1>3
  <2> QED BY <2>1 DEF CharsOf
<1> QED BY <1>1, <1>2, <1>3

\* The name in front of the list.
LEMMA FirstTodo ==
  ASSUME TodoOK, todo # <<>>
  PROVE  /\ todo[1] = <<todo[1][1]>> /\ todo[1][1] \in Declared
         /\ CharsOf(todo) = {<<todo[1][1]>>} \cup CharsOf(Tail(todo))
         /\ Tail(todo) \in Seq(Text) /\ \A w \in CharsOf(Tail(todo)) : Known(w)
<1>1. /\ CharsOf(todo) = {todo[1]} \cup CharsOf(Tail(todo)) /\ Tail(todo) \in Seq(Text)
      /\ todo[1] \in Text
  BY CharsOfTodo DEF TodoOK
<1>2. Known(todo[1]) /\ \A w \in CharsOf(Tail(todo)) : Known(w)
  BY <1>1 DEF TodoOK
<1>3. todo[1] = <<todo[1][1]>> /\ todo[1][1] \in Declared
  <2> DEFINE w == todo[1]
  <2>1. w \in Seq(Char) /\ Len(w) = 1 /\ w[1] \in Declared
    BY <1>1, <1>2 DEF Known, Text
  <2> HIDE DEF w
  <2>2. w = <<w[1]>>
    BY <2>1
  <2> QED BY <2>1, <2>2 DEF w
<1> QED BY <1>1, <1>2, <1>3

\* Replacing the first name of the list is putting in its value (substitute).
LEMMA PutOne ==
  ASSUME InputsOK, WellFormed(template), NEW R, TextIs(R), NEW n \in Declared, Inert(Final(n))
  PROVE  /\ ReplaceAll(text, Holder(<<n>>), Final(n)) = Put(template, R \cup {n}, Finals)
         /\ AllInert(R \cup {n}, Finals)
<1>1. Finals[n] = Final(n)
  BY DEF Finals
<1>2. AllInert(R \cup {n}, Finals)
  BY <1>1 DEF AllInert, TextIs
<1>3. ReplaceAll(Put(template, R, Finals), Holder(<<n>>), Finals[n])
        = Put(template, R \cup {n}, Finals)
  BY <1>2, ReplacePut DEF InputsOK
<1> QED BY <1>1, <1>2, <1>3 DEF TextIs

\* The invariant holds when rendering begins.
LEMMA SubstitutionInitially == SubstitutionInit => SubstitutionInv
<1> SUFFICES ASSUME SubstitutionInit PROVE SubstitutionInv
  OBVIOUS
<1>1. InputsOK
  BY InputsAreTexts DEF SubstitutionInit, InputsOK
<1>2. TodoOK
  BY DEF SubstitutionInit, TodoOK, CharsOf
<1> QED BY <1>1, <1>2 DEF SubstitutionInit, SubstitutionInv

\* Every step of the two phases keeps it.
LEMMA SubstitutionStep == SubstitutionInv /\ [SubstitutionNext]_substitution => SubstitutionInv'
<1> SUFFICES ASSUME SubstitutionInv, [SubstitutionNext]_substitution PROVE SubstitutionInv'
  OBVIOUS
<1>0. UNCHANGED inputs
  BY DEF SubstitutionNext, ValidateTemplate, ConfigName, BeginSecrets, SecretName, Finish,
         substitution
<1>1. InputsOK /\ TodoOK /\ InputsOK' /\ Finals' = Finals /\ template' = template
  BY <1>0 DEF SubstitutionInv, inputs, InputsOK, Finals, Final, Secret
<1>2. ASSUME Refuse PROVE SubstitutionInv'
  <2>1. pc' = "refused" /\ TodoOK'
    BY <1>1, <1>2 DEF Refuse, TodoOK
  <2> QED BY <1>1, <2>1 DEF SubstitutionInv
\* Putting in the value of the first name of the list.
<1>3. ASSUME pc \in {"config", "secrets"}, todo # <<>>, Inert(Final(todo[1][1])),
             Advance(Final(todo[1][1]))
      PROVE  SubstitutionInv'
  <2>1. PICK R \in SUBSET Declared : WellFormed(template) /\ TextIs(R) /\ Covered(R)
    BY <1>3 DEF SubstitutionInv, Substituting
  <2>0. PICK n \in Declared : n = todo[1][1]
    BY <1>1, <1>3, FirstTodo
  <2>2. /\ todo[1] = <<n>> /\ CharsOf(todo) = {<<n>>} \cup CharsOf(Tail(todo))
        /\ Tail(todo) \in Seq(Text) /\ \A w \in CharsOf(Tail(todo)) : Known(w)
    BY <1>1, <1>3, <2>0, FirstTodo
  <2>3. Inert(Final(n)) /\ text' = ReplaceAll(text, Holder(todo[1]), Final(n))
        /\ todo' = Tail(todo) /\ pc' = pc
    BY <1>3, <2>0 DEF Advance
  <2>4. /\ ReplaceAll(text, Holder(<<n>>), Final(n)) = Put(template, R \cup {n}, Finals)
        /\ AllInert(R \cup {n}, Finals)
    BY <1>1, <2>1, <2>2, <2>3, PutOne
  <2>5. TextIs(R \cup {n})'
    BY <1>1, <2>2, <2>3, <2>4 DEF TextIs
  <2>6. \A m \in NamesOf(template) : <<m>> \in CharsOf(todo) => m = n \/ <<m>> \in CharsOf(todo')
    <3> SUFFICES ASSUME NEW m \in NamesOf(template), <<m>> = <<n>> PROVE m = n
      BY <2>2, <2>3
    <3> QED OBVIOUS
  <2>7. Covered(R \cup {n})'
    BY <1>1, <1>3, <2>1, <2>3, <2>6 DEF Covered
  <2>8. TodoOK'
    BY <2>2, <2>3 DEF TodoOK
  <2>9. R \cup {n} \in SUBSET Declared
    OBVIOUS
  <2> QED BY <1>1, <1>3, <2>1, <2>3, <2>5, <2>7, <2>8, <2>9 DEF SubstitutionInv, Substituting
<1>4. CASE ValidateTemplate
  <2>1. CASE Refuse
    BY <1>2, <2>1
  <2>2. CASE ~Refuse
    <3> DEFINE names == TemplateVars(template)
    <3>1. /\ pc = "validate" /\ ~Dangling(template) /\ pc' = "config" /\ todo' = names
          /\ text' = text /\ \A i \in 1 .. Len(names) : Known(names[i])
      BY <1>4, <2>2 DEF ValidateTemplate
    <3>2. WellFormed(template)
      BY <1>1, <3>1, ValidIsWellFormed DEF InputsOK
    <3>3. names \in Seq(Text) /\ CharsOf(names) = {<<n>> : n \in NamesOf(template)}
      BY <1>1, <3>2, VarsType, VarsAreNames DEF InputsOK
    <3>4. TodoOK'
      BY <3>1, <3>3 DEF TodoOK, CharsOf
    <3>5. text' = Put(template, {}, Finals)
      BY <1>1, <3>1, <3>2, PutNone DEF SubstitutionInv, InputsOK
    <3> HIDE DEF names
    <3>6. TextIs({})' /\ Covered({})'
      BY <1>1, <3>1, <3>3, <3>5 DEF TextIs, Covered, AllInert
    <3>7. Substituting'
      BY <1>1, <3>2, <3>6 DEF Substituting
    <3> QED BY <1>1, <3>1, <3>4, <3>7 DEF SubstitutionInv
  <2> QED BY <2>1, <2>2
<1>5. CASE ConfigName
  <2> DEFINE n == todo[1][1]
  <2>0. pc = "config" /\ todo # <<>>
    BY <1>5 DEF ConfigName
  <2>1. PICK R \in SUBSET Declared : WellFormed(template) /\ TextIs(R) /\ Covered(R)
    BY <2>0 DEF SubstitutionInv, Substituting
  <2>2. /\ todo[1] = <<n>> /\ n \in Declared /\ CharsOf(todo) = {<<n>>} \cup CharsOf(Tail(todo))
        /\ Tail(todo) \in Seq(Text) /\ \A w \in CharsOf(Tail(todo)) : Known(w)
    BY <1>1, <2>0, FirstTodo
  <2>3. \/ Kind[n] = "secret" /\ todo' = Tail(todo) /\ UNCHANGED <<pc, text>>
        \/ /\ Kind[n] # "secret" /\ n \in DOMAIN document
           /\ Acceptable(Kind[n], document[n]) /\ Advance(Emit(Kind[n], document[n]))
        \/ Refuse
    BY <1>5 DEF ConfigName
  <2> HIDE DEF n
  <2>4. CASE Kind[n] = "secret" /\ todo' = Tail(todo) /\ UNCHANGED <<pc, text>>
    <3>1. TodoOK'
      BY <2>2, <2>4 DEF TodoOK
    <3>2. TextIs(R)'
      BY <1>1, <2>1, <2>4 DEF TextIs
    <3>3. \A m \in NamesOf(template) : <<m>> \in CharsOf(todo) => m = n \/ <<m>> \in CharsOf(todo')
      <4> SUFFICES ASSUME NEW m \in NamesOf(template), <<m>> = <<n>> PROVE m = n
        BY <2>2, <2>4
      <4> QED OBVIOUS
    <3>4. Covered(R)'
      BY <1>1, <2>0, <2>1, <2>4, <3>3 DEF Covered
    <3> QED BY <1>1, <2>0, <2>1, <2>4, <3>1, <3>2, <3>4 DEF SubstitutionInv, Substituting
  <2>5. CASE /\ Kind[n] # "secret" /\ n \in DOMAIN document
             /\ Acceptable(Kind[n], document[n]) /\ Advance(Emit(Kind[n], document[n]))
    <3>1. document[n] \in Text
      BY <1>1, <2>5 DEF InputsOK
    <3>2. Inert(Final(n)) /\ Final(n) = Emit(Kind[n], document[n])
      BY <2>2, <2>5, <3>1, FinalOfConfig
    <3> QED BY <1>3, <2>0, <2>5, <3>2 DEF n
  <2> QED BY <1>2, <2>3, <2>4, <2>5
<1>6. CASE BeginSecrets
  <2>1. pc = "config" /\ todo = <<>> /\ pc' = "secrets" /\ todo' = TemplateVars(text) /\ text' = text
    BY <1>6 DEF BeginSecrets
  <2>2. PICK R \in SUBSET Declared : WellFormed(template) /\ TextIs(R) /\ Covered(R)
    BY <2>1 DEF SubstitutionInv, Substituting
  <2>3. text \in Text /\ WellFormed(text) /\ NamesOf(text) = NamesOf(template) \ R
    BY <1>1, <2>2, NamesOfPut, PutType DEF InputsOK, TextIs
  <2>4. /\ CharsOf(TemplateVars(text)) = {<<n>> : n \in NamesOf(text)}
        /\ NamesOf(text) \subseteq Declared /\ TemplateVars(text) \in Seq(Text)
    BY <2>3, VarsAreNames, VarsType
  <2>5. \A n \in Declared : Known(<<n>>)
    BY DEF Known
  <2>6. TodoOK'
    BY <2>1, <2>4, <2>5 DEF TodoOK
  <2>7. TextIs(R)'
    BY <1>1, <2>1, <2>2 DEF TextIs
  <2>8. Covered(R)'
    BY <1>1, <2>1, <2>3, <2>4 DEF Covered
  <2> QED BY <1>1, <2>1, <2>2, <2>6, <2>7, <2>8 DEF SubstitutionInv, Substituting
<1>7. CASE SecretName
  <2> DEFINE n == todo[1][1]
  <2>0. pc = "secrets" /\ todo # <<>>
    BY <1>7 DEF SecretName
  <2>1. CASE Refuse
    BY <1>2, <2>1
  <2>2. CASE ~Refuse
    <3>1. /\ Kind[n] = "secret" /\ Available(n) /\ ~Unsafe(Secret(n))
          /\ Advance(Quote(Secret(n)))
      BY <1>7, <2>2 DEF SecretName
    <3>2. n \in Declared
      BY <1>1, <2>0, FirstTodo
    <3> HIDE DEF n
    <3>3. Secret(n) \in Text
      BY <1>1, <3>1, <3>2, SecretType
    <3>4. Inert(Final(n)) /\ Final(n) = Quote(Secret(n))
      BY <3>1, <3>2, <3>3, FinalOfSecret
    <3> QED BY <1>3, <2>0, <3>1, <3>4 DEF n
  <2> QED BY <2>1, <2>2
<1>8. CASE Finish
  <2>1. pc = "secrets" /\ todo = <<>>
    BY <1>8 DEF Finish
  <2>2. CASE Refuse
    BY <1>2, <2>2
  <2>3. CASE ~Refuse
    <3>1. pc' = "done" /\ text' = text /\ todo' = todo
      BY <1>8, <2>3 DEF Finish
    <3>2. PICK R \in SUBSET Declared : WellFormed(template) /\ TextIs(R) /\ Covered(R)
      BY <2>1 DEF SubstitutionInv, Substituting
    <3>3. CharsOf(todo) = {}
      BY <2>1 DEF CharsOf
    <3>4. TodoOK' /\ TextIs(R)'
      BY <1>1, <3>1, <3>2 DEF TodoOK, TextIs
    <3>5. Covered(R)'
      BY <1>1, <2>1, <3>1, <3>2, <3>3 DEF Covered
    <3> QED BY <1>1, <3>1, <3>2, <3>4, <3>5 DEF SubstitutionInv, Substituting
  <2> QED BY <2>2, <2>3
<1>9. CASE UNCHANGED substitution
  <2>1. pc' = pc /\ text' = text /\ todo' = todo
    BY <1>9 DEF substitution
  <2>2. TodoOK' /\ (Substituting => Substituting')
    BY <1>1, <2>1 DEF TodoOK, Substituting, TextIs, Covered
  <2> QED BY <1>1, <2>1, <2>2 DEF SubstitutionInv
<1> QED BY <1>4, <1>5, <1>6, <1>7, <1>8, <1>9 DEF SubstitutionNext

\* It implies the property.
LEMMA SubstitutionImplied == SubstitutionInv => SubstitutionIsExact
<1> SUFFICES ASSUME SubstitutionInv PROVE SubstitutionIsExact
  OBVIOUS
<1>0. InputsOK /\ TodoOK
  BY DEF SubstitutionInv
<1>1. SubstitutionTypeOK
  BY DEF SubstitutionInv, SubstitutionTypeOK, TodoOK, CharsOf, Known
<1>2. SubstitutesAtOnce
  <2> SUFFICES ASSUME pc = "done" PROVE text = AtOnce
    BY DEF SubstitutesAtOnce
  <2>1. PICK R \in SUBSET Declared : WellFormed(template) /\ TextIs(R) /\ Covered(R)
    BY DEF SubstitutionInv, Substituting
  <2>2. NamesOf(template) \subseteq R /\ text = Put(template, R, Finals)
    BY <2>1 DEF TextIs, Covered
  <2> QED BY <1>0, <2>1, <2>2, AtOnceIsPut DEF InputsOK
<1>3. PostConditionsHold
  <2> SUFFICES ASSUME pc = "secrets", todo = <<>>
               PROVE  TemplateVars(text) = <<>> /\ ~Dangling(text)
    BY DEF PostConditionsHold
  <2>1. PICK R \in SUBSET Declared : WellFormed(template) /\ TextIs(R) /\ Covered(R)
    BY DEF SubstitutionInv, Substituting
  <2>2. CharsOf(todo) = {}
    BY DEF CharsOf
  <2>3. NamesOf(template) \subseteq R
    BY <2>1, <2>2 DEF Covered
  <2>4. text \in Text /\ WellFormed(text) /\ NamesOf(text) = NamesOf(template) \ R
    BY <1>0, <2>1, NamesOfPut, PutType DEF InputsOK, TextIs
  <2>5. CharsOf(TemplateVars(text)) = {} /\ TemplateVars(text) \in Seq(Text)
    BY <2>3, <2>4, VarsAreNames, VarsType
  <2> QED BY <2>4, <2>5, CharsOfTodo, WellFormedIsClosed
<1>4. ValuesReadBack
  BY <1>0, QuoteReadsBack DEF ValuesReadBack, InputsOK
<1> QED BY <1>1, <1>2, <1>3, <1>4 DEF SubstitutionIsExact

(***************************************************************************)
(* Whatever the template, the document and the secrets are, a finished     *)
(* rendering is the template with every value put in once, no value was    *)
(* read as a placeholder, and every quoted value reads back as what it was *)
(* (validateTemplate, substitute).                                         *)
(***************************************************************************)
THEOREM SubstitutionExact == SubstitutionSpec => []SubstitutionIsExact
<1>1. SubstitutionSpec => []SubstitutionInv
  BY SubstitutionInitially, SubstitutionStep, PTL DEF SubstitutionSpec
<1> QED BY <1>1, SubstitutionImplied, PTL

-----------------------------------------------------------------------------
(***************************************************************************)
(* Redaction: the patterns and one pass over the URLs.                     *)
(***************************************************************************)
LEMMA RedactionChars ==
  "M" \in Char /\ ":" \in Char /\ "/" \in Char /\ "A" \in Char /\ " " \in Char /\ "lf" \in Char
BY RedactedTexts

SchemeAt(s, i) == i + 2 <= Len(s) /\ s[i] = ":" /\ s[i + 1] = "/" /\ s[i + 2] = "/"
HeaderAt(s, i) == i + 2 <= Len(s) /\ s[i] = "A" /\ s[i + 1] = ":" /\ s[i + 2] = " "

\* A scheme, character by character.
LEMMA SchemeIs ==
  ASSUME NEW s \in Text, NEW i \in Nat \ {0}
  PROVE  /\ Matches(s, Scheme, i) => SchemeAt(s, i)
         /\ SchemeAt(s, i) => Matches(s, Scheme, i)
<1>1. ":" \in Char /\ "/" \in Char /\ s \in Seq(Char)
  BY RedactionChars DEF Text
<1> QED BY <1>1, ThreeAt DEF Scheme, SchemeAt

\* The header's name, character by character.
LEMMA HeaderIs ==
  ASSUME NEW s \in Text, NEW i \in Nat \ {0}
  PROVE  /\ Matches(s, AuthHeader, i) => HeaderAt(s, i)
         /\ HeaderAt(s, i) => Matches(s, AuthHeader, i)
<1>1. "A" \in Char /\ ":" \in Char /\ " " \in Char
  BY RedactionChars
<1>2. s \in Seq(Char)
  BY DEF Text
<1>3. \A a, b, c \in Char :
        /\ Matches(s, <<a, b, c>>, i) => i + 2 <= Len(s) /\ s[i] = a /\ s[i + 1] = b /\ s[i + 2] = c
        /\ i + 2 <= Len(s) /\ s[i] = a /\ s[i + 1] = b /\ s[i + 2] = c => Matches(s, <<a, b, c>>, i)
  BY <1>2, ThreeAt
<1> QED BY <1>1, <1>3, Zenon DEF AuthHeader, HeaderAt

LEMMA PatternTypes ==
  /\ Scheme \in Text /\ Len(Scheme) = 3
  /\ Scheme[1] = ":" /\ Scheme[2] = "/" /\ Scheme[3] = "/"
  /\ AuthHeader \in Text /\ Len(AuthHeader) = 3
  /\ AuthHeader[1] = "A" /\ AuthHeader[2] = ":" /\ AuthHeader[3] = " "
  /\ Mask = Alone("M") /\ Mask \in Text /\ Single(Mask) /\ Mask[1] = "M"
<1>1. "M" \in Char /\ ":" \in Char /\ "/" \in Char /\ "A" \in Char /\ " " \in Char
  BY RedactionChars
<1>2. /\ Scheme \in Text /\ Len(Scheme) = 3
      /\ Scheme[1] = ":" /\ Scheme[2] = "/" /\ Scheme[3] = "/"
  BY <1>1, Three DEF Scheme, Text
<1>3. /\ AuthHeader \in Text /\ Len(AuthHeader) = 3
      /\ AuthHeader[1] = "A" /\ AuthHeader[2] = ":" /\ AuthHeader[3] = " "
  BY <1>1, Three DEF AuthHeader, Text
<1>4. Mask = Alone("M")
  BY DEF Mask, Alone
<1>5. Mask \in Text /\ Single(Mask) /\ Mask[1] = "M"
  BY <1>1, <1>4, AloneIs
<1> QED BY <1>2, <1>3, <1>4, <1>5

OnceStep(s) ==
  [i \in 1 .. Len(s) |->
    IF Matches(s, Scheme, i) THEN Step(MaskedURL(s, i), AuthorityEnd(s, i)) ELSE Copy(s, i)]
Once(s) == redactURLCredsOnce(s)

LEMMA OnceIs ==
  ASSUME NEW s
  PROVE  Once(s) = Rewrite(Len(s), OnceStep(s))
BY DEF Once, redactURLCredsOnce, OnceStep

\* Where the authority of a URL ends.
LEMMA AuthorityFacts ==
  ASSUME NEW s \in Text, NEW i \in 1 .. Len(s), SchemeAt(s, i)
  PROVE  /\ AuthorityEnd(s, i) \in i + 3 .. Len(s) + 1 /\ i + 3 \in 1 .. Len(s) + 1
         /\ \A j \in i + 3 .. AuthorityEnd(s, i) - 1 : s[j] \notin Terminators
         /\ AuthorityEnd(s, i) <= Len(s) => s[AuthorityEnd(s, i)] \in Terminators
<1>1. s \in Seq(Char) /\ Len(s) \in Nat
  BY DEF Text
<1>2. i + 2 <= Len(s)
  BY DEF SchemeAt
<1>3. i + 3 \in 1 .. Len(s) + 1
  BY <1>1, <1>2
<1> QED BY <1>1, <1>3, EndAtFacts DEF AuthorityEnd

\* The last "@" of an authority.
LEMMA LastAt ==
  ASSUME NEW s \in Text, NEW i \in 1 .. Len(s), SchemeAt(s, i), Ats(s, i) # {}
  PROVE  /\ Greatest(Ats(s, i)) \in Ats(s, i) /\ \A j \in Ats(s, i) : j <= Greatest(Ats(s, i))
         /\ Greatest(Ats(s, i)) \in i + 3 .. AuthorityEnd(s, i) - 1
<1>1. /\ AuthorityEnd(s, i) \in i + 3 .. Len(s) + 1
      /\ Len(s) \in Nat
  BY AuthorityFacts DEF Text
<1>2. Ats(s, i) \in SUBSET (1 .. Len(s))
  BY <1>1 DEF Ats
<1>3. Greatest(Ats(s, i)) \in Ats(s, i) /\ \A j \in Ats(s, i) : j <= Greatest(Ats(s, i))
  BY <1>1, <1>2, GreatestFacts
<1> QED BY <1>3 DEF Ats

LEMMA PartType ==
  ASSUME NEW s \in Text, NEW a \in 1 .. Len(s) + 1, NEW b \in a - 1 .. Len(s)
  PROVE  SubSeq(s, a, b) \in Text /\ Len(SubSeq(s, a, b)) = b - a + 1
<1>1. s \in Seq(Char) /\ Len(s) \in Nat
  BY DEF Text
<1> QED BY <1>1 DEF Text

LEMMA OncePass ==
  ASSUME NEW s \in Text
  PROVE  IsPass(Len(s), OnceStep(s), Char)
<1> SUFFICES ASSUME NEW i \in 1 .. Len(s)
             PROVE  /\ OnceStep(s)[i].write \in Seq(Char)
                    /\ OnceStep(s)[i].goto \in i + 1 .. Len(s) + 1
  BY DEF IsPass
<1>1. s \in Seq(Char) /\ Len(s) \in Nat
  BY DEF Text
<1>2. CASE Matches(s, Scheme, i)
  <2>1. OnceStep(s)[i].write = MaskedURL(s, i) /\ OnceStep(s)[i].goto = AuthorityEnd(s, i)
    BY <1>2 DEF OnceStep, Step
  <2>2. SchemeAt(s, i)
    BY <1>2, SchemeIs
  <2> DEFINE e == AuthorityEnd(s, i)
  <2>3. e \in i + 3 .. Len(s) + 1
    BY <2>2, AuthorityFacts
  <2> HIDE DEF e
  <2>4. e \in i + 1 .. Len(s) + 1 /\ i \in 1 .. Len(s) + 1 /\ e - 1 \in i - 1 .. Len(s)
    BY <1>1, <2>3
  <2>5. SubSeq(s, i, e - 1) \in Text
    BY <2>4, PartType
  <2>6. CASE Ats(s, i) = {}
    BY <2>1, <2>4, <2>5, <2>6 DEF MaskedURL, e, Text
  <2>7. CASE Ats(s, i) # {}
    <3> DEFINE g == Greatest(Ats(s, i))
    <3>1. g \in i + 3 .. e - 1
      BY <2>2, <2>7, LastAt DEF e
    <3> HIDE DEF g
    <3>2. g \in 1 .. Len(s) + 1 /\ e - 1 \in g - 1 .. Len(s)
      BY <1>1, <2>3, <3>1
    <3>3. SubSeq(s, g, e - 1) \in Seq(Char)
      BY <3>2, PartType DEF Text
    <3>4. Scheme \in Seq(Char) /\ Mask \in Seq(Char)
      BY PatternTypes DEF Text
    <3>5. Scheme \o Mask \o SubSeq(s, g, e - 1) \in Seq(Char)
      BY <3>3, <3>4
    <3> QED BY <2>1, <2>4, <2>7, <3>5 DEF MaskedURL, e, g
  <2> QED BY <2>6, <2>7
<1>3. CASE ~Matches(s, Scheme, i)
  <2>1. OnceStep(s)[i].write = <<s[i]>> /\ OnceStep(s)[i].goto = i + 1
    BY <1>3 DEF OnceStep, Step, Copy
  <2>2. s[i] \in Char /\ i + 1 \in i + 1 .. Len(s) + 1
    BY <1>1
  <2> QED BY <2>1, <2>2
<1> QED BY <1>2, <1>3

LEMMA SchemeBehind ==
  ASSUME NEW x \in Text, NEW t \in Text, NEW i \in Nat \ {0}
  PROVE  /\ SchemeAt(t, i) => SchemeAt(Joined(x, t), Len(x) + i)
         /\ SchemeAt(Joined(x, t), Len(x) + i) => SchemeAt(t, i)
<1>1. x \in Seq(Char) /\ t \in Seq(Char) /\ Scheme \in Seq(Char) /\ Len(x) \in Nat
  <2>1. Scheme \in Text
    BY PatternTypes
  <2> QED BY <2>1 DEF Text
<1>2. Joined(x, t) \in Text
  BY <1>1, CharBehind DEF Text
<1>3. Len(x) + i \in Nat \ {0}
  BY <1>1
<1>4. /\ Matches(t, Scheme, i) => Matches(Joined(x, t), Scheme, Len(x) + i)
      /\ Matches(Joined(x, t), Scheme, Len(x) + i) => Matches(t, Scheme, i)
  BY <1>1, MatchBehind
<1> QED BY <1>2, <1>3, <1>4, SchemeIs

AtsBefore(s, i, e) == {j \in i + 3 .. e - 1 : s[j] = "@"}
CutURL(s, i, e, ats) ==
  IF ats = {} THEN SubSeq(s, i, e - 1)
  ELSE Scheme \o Mask \o SubSeq(s, Greatest(ats), e - 1)

\* A URL behind another text is masked as it is on its own.
LEMMA AuthorityBehind ==
  ASSUME NEW x \in Text, NEW t \in Text, NEW i \in 1 .. Len(t), SchemeAt(t, i)
  PROVE  /\ AuthorityEnd(Joined(x, t), Len(x) + i) = Len(x) + AuthorityEnd(t, i)
         /\ MaskedURL(Joined(x, t), Len(x) + i) = MaskedURL(t, i)
<1> DEFINE s == Joined(x, t)
           k == Len(x)
           e == AuthorityEnd(t, i)
<1>1. x \in Seq(Char) /\ t \in Seq(Char) /\ k \in Nat /\ Len(t) \in Nat
  BY DEF Text
<1>2. e \in i + 3 .. Len(t) + 1 /\ i + 3 \in 1 .. Len(t) + 1
  BY AuthorityFacts
<1>3. AuthorityEnd(s, k + i) = k + e
  <2>1. EndAt(Joined(x, t), Terminators, Len(x) + (i + 3)) = Len(x) + EndAt(t, Terminators, i + 3)
    BY <1>1, <1>2, EndBehind
  <2>2. Len(x) + (i + 3) = k + i + 3
    BY <1>1
  <2> QED BY <2>1, <2>2 DEF AuthorityEnd
<1>4. \A j \in 1 .. Len(t) : s[k + j] = t[j]
  BY TextJoined
<1> HIDE DEF k, e, s
<1>5. \A j \in i + 3 .. e - 1 : k + j \in k + i + 3 .. (k + e) - 1 /\ j \in 1 .. Len(t)
  BY <1>1, <1>2
<1>6. \A j \in k + i + 3 .. (k + e) - 1 : j - k \in i + 3 .. e - 1 /\ k + (j - k) = j
  BY <1>1, <1>2
<1>7. Ats(s, k + i) = {k + j : j \in Ats(t, i)}
  <2>1. Ats(s, k + i) = {j \in k + i + 3 .. (k + e) - 1 : s[j] = "@"}
    <3>1. Ats(s, k + i) = AtsBefore(s, k + i, AuthorityEnd(s, k + i))
      BY DEF Ats, AtsBefore
    <3>2. Ats(s, k + i) = AtsBefore(s, k + i, k + e)
      BY <1>3, <3>1
    <3> QED BY <3>2 DEF AtsBefore
  <2>2. Ats(t, i) = {j \in i + 3 .. e - 1 : t[j] = "@"}
    BY DEF Ats, e
  <2>3. ASSUME NEW j \in Ats(s, k + i) PROVE \E h \in Ats(t, i) : j = k + h
    <3>1. j \in k + i + 3 .. (k + e) - 1 /\ s[j] = "@"
      BY <2>1, <2>3
    <3>2. j - k \in i + 3 .. e - 1 /\ k + (j - k) = j
      BY <1>6, <3>1
    <3>3. t[j - k] = "@"
      BY <1>4, <1>5, <3>1, <3>2
    <3> QED BY <2>2, <3>2, <3>3
  <2>4. ASSUME NEW j \in Ats(t, i) PROVE k + j \in Ats(s, k + i)
    BY <1>4, <1>5, <2>1, <2>2, <2>4
  <2> QED BY <2>3, <2>4
<1>8. k + i \in 1 .. Len(t) + k /\ i \in 1 .. Len(t) + 1 /\ e - 1 \in i - 1 .. Len(t)
      /\ k + (e - 1) = (k + e) - 1
  BY <1>1, <1>2
<1>9. CASE Ats(t, i) = {}
  <2>1. Ats(s, k + i) = {}
    BY <1>7, <1>9
  <2>2. SubSeq(Joined(x, t), Len(x) + i, Len(x) + (e - 1)) = SubSeq(t, i, e - 1)
    BY <1>1, <1>8, PartBehind
  <2>3. SubSeq(s, k + i, (k + e) - 1) = SubSeq(t, i, e - 1)
    BY <1>8, <2>2 DEF s, k
  <2>4. MaskedURL(s, k + i) = SubSeq(s, k + i, (k + e) - 1)
    <3>1. MaskedURL(s, k + i) = CutURL(s, k + i, AuthorityEnd(s, k + i), Ats(s, k + i))
      BY DEF MaskedURL, CutURL
    <3>2. MaskedURL(s, k + i) = CutURL(s, k + i, k + e, {})
      BY <1>3, <2>1, <3>1
    <3> QED BY <3>2 DEF CutURL
  <2>5. MaskedURL(t, i) = SubSeq(t, i, e - 1)
    BY <1>9 DEF MaskedURL, e
  <2> QED BY <1>3, <2>3, <2>4, <2>5 DEF s, k, e
<1>10. CASE Ats(t, i) # {}
  <2> DEFINE g == Greatest(Ats(t, i))
  <2>1. g \in Ats(t, i) /\ g \in i + 3 .. e - 1 /\ \A j \in Ats(t, i) : j <= g
    BY <1>10, LastAt DEF e
  <2> HIDE DEF g
  <2>2. g \in 1 .. Len(t) + 1 /\ e - 1 \in g - 1 .. Len(t) /\ g \in Nat
    BY <1>1, <1>2, <2>1
  <2>3. Ats(s, k + i) # {}
    BY <1>7, <1>10
  <2>4. Greatest(Ats(s, k + i)) = k + g
    <3>1. \A j \in Ats(t, i) : j \in Nat
      BY <1>1, <1>2 DEF Ats
    <3>2. k + g \in Ats(s, k + i) /\ \A j \in Ats(s, k + i) : j <= k + g /\ j \in Nat
      <4>1. k + g \in Ats(s, k + i)
        BY <1>7, <2>1
      <4>2. ASSUME NEW j \in Ats(t, i) PROVE k + j <= k + g /\ k + j \in Nat
        <5>1. j <= g /\ j \in Nat
          BY <2>1, <3>1
        <5> QED BY <1>1, <2>2, <5>1
      <4> QED BY <1>7, <4>1, <4>2
    <3>3. k + g \in Nat
      BY <1>1, <2>2
    <3>4. \A h \in Ats(s, k + i) : (\A j \in Ats(s, k + i) : j <= h) => h = k + g
      <4> SUFFICES ASSUME NEW h \in Ats(s, k + i), \A j \in Ats(s, k + i) : j <= h
                   PROVE  h = k + g
        OBVIOUS
      <4>1. k + g <= h /\ h <= k + g /\ h \in Nat
        BY <3>2
      <4> QED BY <3>3, <4>1
    <3> QED BY <3>2, <3>4 DEF Greatest
  <2>5. SubSeq(Joined(x, t), Len(x) + g, Len(x) + (e - 1)) = SubSeq(t, g, e - 1)
    BY <1>1, <2>2, PartBehind
  <2>6. SubSeq(s, k + g, (k + e) - 1) = SubSeq(t, g, e - 1)
    BY <1>8, <2>5 DEF s, k
  <2>7. MaskedURL(s, k + i) = Scheme \o Mask \o SubSeq(s, k + g, (k + e) - 1)
    <3>1. MaskedURL(s, k + i) = CutURL(s, k + i, AuthorityEnd(s, k + i), Ats(s, k + i))
      BY DEF MaskedURL, CutURL
    <3>2. MaskedURL(s, k + i) = CutURL(s, k + i, k + e, Ats(s, k + i))
      BY <1>3, <3>1
    <3>3. CutURL(s, k + i, k + e, Ats(s, k + i))
            = Scheme \o Mask \o SubSeq(s, Greatest(Ats(s, k + i)), (k + e) - 1)
      BY <2>3 DEF CutURL
    <3> QED BY <2>4, <3>2, <3>3
  <2>8. MaskedURL(t, i) = Scheme \o Mask \o SubSeq(t, g, e - 1)
    BY <1>10 DEF MaskedURL, e, g
  <2> QED BY <1>3, <2>6, <2>7, <2>8 DEF s, k, e
<1> QED BY <1>9, <1>10

LEMMA OnceBehind ==
  ASSUME NEW x \in Text, NEW t \in Text
  PROVE  Behind(Len(x), Len(t), OnceStep(t), OnceStep(Joined(x, t)))
<1> DEFINE s == Joined(x, t)
<1>1. x \in Seq(Char) /\ t \in Seq(Char)
  BY DEF Text
<1>2. s \in Text /\ Len(s) = Len(x) + Len(t) /\ \A i \in 1 .. Len(t) : s[Len(x) + i] = t[i]
  <2>1. s \in Seq(Char) /\ Len(s) = Len(x) + Len(t) /\ \A i \in 1 .. Len(t) : s[Len(x) + i] = t[i]
    BY <1>1, CharBehind DEF Joined
  <2> QED BY <2>1 DEF Text
<1> SUFFICES ASSUME NEW i \in 1 .. Len(t)
             PROVE  /\ OnceStep(s)[Len(x) + i].write = OnceStep(t)[i].write
                    /\ OnceStep(s)[Len(x) + i].goto = Len(x) + OnceStep(t)[i].goto
  BY DEF Behind
<1> HIDE DEF s
<1> DEFINE j == Len(x) + i
<1>3. j \in 1 .. Len(s) /\ j \in Nat \ {0} /\ i \in Nat \ {0} /\ j + 1 = Len(x) + (i + 1)
  <2>1. Len(s) = Len(x) + Len(t) /\ Len(x) \in Nat /\ Len(t) \in Nat
    BY <1>1, <1>2
  <2> QED BY <2>1
<1>4. s[j] = t[i]
  BY <1>2
<1>5. /\ SchemeAt(t, i) => SchemeAt(s, j)
      /\ SchemeAt(s, j) => SchemeAt(t, i)
  BY <1>3, SchemeBehind DEF s
<1>6. /\ SchemeAt(t, i) => AuthorityEnd(s, j) = Len(x) + AuthorityEnd(t, i)
      /\ SchemeAt(t, i) => MaskedURL(s, j) = MaskedURL(t, i)
  BY AuthorityBehind DEF s
<1> HIDE DEF j
<1>7. CASE SchemeAt(t, i)
  <2>1. Matches(s, Scheme, j) /\ Matches(t, Scheme, i)
    BY <1>2, <1>3, <1>5, <1>7, SchemeIs
  <2>2. /\ OnceStep(s)[j] = Step(MaskedURL(s, j), AuthorityEnd(s, j))
        /\ OnceStep(t)[i] = Step(MaskedURL(t, i), AuthorityEnd(t, i))
    BY <1>3, <2>1 DEF OnceStep
  <2>3. OnceStep(s)[j] = Step(MaskedURL(t, i), Len(x) + AuthorityEnd(t, i))
    BY <1>6, <1>7, <2>2
  <2> QED BY <2>2, <2>3 DEF Step, j
<1>8. CASE ~SchemeAt(t, i)
  <2>1. ~Matches(s, Scheme, j) /\ ~Matches(t, Scheme, i)
    BY <1>2, <1>3, <1>5, <1>8, SchemeIs
  <2>2. OnceStep(s)[j] = Step(<<s[j]>>, j + 1) /\ OnceStep(t)[i] = Step(<<t[i]>>, i + 1)
    BY <1>3, <2>1 DEF OnceStep, Copy
  <2>3. OnceStep(s)[j] = Step(<<t[i]>>, Len(x) + (i + 1))
    BY <1>3, <1>4, <2>2
  <2> QED BY <2>2, <2>3 DEF Step, j
<1> QED BY <1>7, <1>8

LEMMA OnceType ==
  ASSUME NEW s \in Text
  PROVE  Once(s) \in Text
<1>1. Len(s) \in Nat
  BY DEF Text
<1>2. Rewrite(Len(s), OnceStep(s)) \in Seq(Char)
  BY <1>1, OncePass, RewriteType
<1> QED BY <1>2, OnceIs DEF Text

LEMMA OnceNothing == Once(<<>>) = <<>>
<1>1. Len(<<>>) = 0
  OBVIOUS
<1> QED BY <1>1, OnceIs, RewriteNothing

LEMMA OnceSplit ==
  ASSUME NEW x \in Text, x # <<>>, NEW t \in Text, NEW w,
         OnceStep(Joined(x, t))[1].write = w, OnceStep(Joined(x, t))[1].goto = Len(x) + 1
  PROVE  Once(Joined(x, t)) = Joined(w, Once(t))
<1> DEFINE s == Joined(x, t)
           step == OnceStep(t)
           other == OnceStep(s)
<1>1. x \in Seq(Char) /\ t \in Seq(Char)
  BY DEF Text
<1>2. Len(x) \in Nat \ {0} /\ Len(t) \in Nat
  BY <1>1
<1>3. Len(s) = Len(x) + Len(t) /\ s \in Text
  BY <1>1, CharBehind DEF Text
<1>4. IsPass(Len(t), step, Char) /\ IsPass(Len(s), other, Char) /\ Behind(Len(x), Len(t), step, other)
  BY <1>3, OncePass, OnceBehind
<1>5. other[1].write = w /\ other[1].goto = Len(x) + 1
  OBVIOUS
<1> HIDE DEF step, other, s
<1>6. Len(s) \in Nat
  BY <1>2, <1>3
<1>7. Rewrite(Len(s), other) = Joined(w, Rewrite(Len(t), step))
  BY <1>2, <1>3, <1>4, <1>5, <1>6, RewriteSplit
<1> QED BY <1>7, OnceIs DEF step, other, s

\* A text that begins with a URL, whose authority ends where t begins.
URL(a, t) ==
  /\ a \in Text /\ t \in Text /\ SchemeAt(a, 1)
  /\ \A j \in 4 .. Len(a) : a[j] \notin Terminators
  /\ t # <<>> => t[1] \in Terminators
NoUser(a) == \A j \in 1 .. Len(a) : a[j] # "@"
User(x, y) ==
  /\ x \in Text /\ y \in Text /\ Len(x) >= 3 /\ y # <<>> /\ y[1] = "@"
  /\ \A j \in 2 .. Len(y) : y[j] # "@"

\* A text that begins with a URL.
LEMMA URLFacts ==
  ASSUME NEW a, NEW t, URL(a, t)
  PROVE  /\ a \in Seq(Char) /\ t \in Seq(Char) /\ a # <<>> /\ Len(a) \in Nat /\ Len(a) >= 3
         /\ Joined(a, t) \in Text /\ SchemeAt(Joined(a, t), 1)
         /\ Len(Joined(a, t)) = Len(a) + Len(t) /\ 1 \in 1 .. Len(Joined(a, t))
         /\ AuthorityEnd(Joined(a, t), 1) = Len(a) + 1
<1> DEFINE s == Joined(a, t)
           e == Len(a) + 1
<1>1. a \in Seq(Char) /\ t \in Seq(Char) /\ a \in Text /\ t \in Text
  BY DEF URL, Text
<1>2. Len(a) \in Nat /\ Len(t) \in Nat
  BY <1>1
<1>3. 1 + 2 <= Len(a) /\ a[1] = ":" /\ a[1 + 1] = "/" /\ a[1 + 2] = "/"
  BY DEF URL, SchemeAt
<1>4. Len(a) >= 3
  <2>1. 1 + 2 <= Len(a)
    BY <1>3
  <2> QED BY <1>2, <2>1
<1>5. a # <<>>
  BY <1>1, <1>4
<1>6. /\ s \in Seq(Char) /\ Len(s) = Len(a) + Len(t) /\ \A i \in 1 .. Len(a) : s[i] = a[i]
      /\ \A i \in 1 .. Len(t) : s[Len(a) + i] = t[i]
  <2>1. a \in Seq(Char) /\ t \in Seq(Char)
    BY <1>1
  <2> QED BY <2>1, CharBehind DEF Joined
<1> HIDE DEF s
<1>7. Len(s) = Len(a) + Len(t)
  BY <1>6
<1>8. 1 \in 1 .. Len(s) /\ 1 \in 1 .. Len(a) /\ 1 + 1 \in 1 .. Len(a) /\ 1 + 2 \in 1 .. Len(a)
      /\ 1 + 2 <= Len(s)
  BY <1>2, <1>4, <1>7
<1>9. SchemeAt(s, 1)
  BY <1>3, <1>6, <1>8 DEF SchemeAt
<1>10. e \in 4 .. Len(s) + 1 /\ 4 \in 1 .. Len(s) + 1
  BY <1>2, <1>4, <1>7
<1>11. \A j \in 4 .. e - 1 : s[j] \notin Terminators
  <2>1. \A j \in 4 .. e - 1 : j \in 4 .. Len(a) /\ j \in 1 .. Len(a)
    BY <1>2
  <2> QED BY <1>6, <2>1 DEF URL
<1>12. e <= Len(s) => s[e] \in Terminators
  <2> SUFFICES ASSUME e <= Len(s) PROVE s[e] \in Terminators
    OBVIOUS
  <2>1. 1 \in 1 .. Len(t)
    BY <1>2, <1>7
  <2>2. s[e] = t[1]
    BY <1>6, <2>1
  <2>3. t # <<>>
    BY <2>1
  <2> QED BY <2>2, <2>3 DEF URL
<1> HIDE DEF e
<1>13. EndAt(s, Terminators, 4) = e
  BY <1>6, <1>10, <1>11, <1>12, EndAtIs
<1>14. AuthorityEnd(s, 1) = e
  <2>1. 1 + 3 = 4
    OBVIOUS
  <2> QED BY <1>13, <2>1 DEF AuthorityEnd
<1> QED BY <1>1, <1>2, <1>4, <1>5, <1>6, <1>8, <1>9, <1>14 DEF s, e, Text

LEMMA URLStep ==
  ASSUME NEW a, NEW t, URL(a, t)
  PROVE  Once(Joined(a, t)) = Joined(MaskedURL(Joined(a, t), 1), Once(t))
<1> DEFINE s == Joined(a, t)
<1>1. /\ a \in Text /\ t \in Text /\ a # <<>> /\ s \in Text /\ SchemeAt(s, 1) /\ 1 \in 1 .. Len(s)
      /\ AuthorityEnd(s, 1) = Len(a) + 1
  BY URLFacts DEF URL
<1>2. Matches(s, Scheme, 1)
  <2>1. 1 \in Nat \ {0}
    OBVIOUS
  <2> QED BY <1>1, <2>1, SchemeIs
<1>3. OnceStep(s)[1] = Step(MaskedURL(s, 1), Len(a) + 1)
  BY <1>1, <1>2 DEF OnceStep
<1>4. OnceStep(s)[1].write = MaskedURL(s, 1) /\ OnceStep(s)[1].goto = Len(a) + 1
  BY <1>3 DEF Step
<1> QED BY <1>1, <1>4, OnceSplit

\* Without a user the URL stays as it is.
LEMMA OncePlain ==
  ASSUME NEW a, NEW t, URL(a, t), NoUser(a)
  PROVE  Once(Joined(a, t)) = Joined(a, Once(t))
<1> DEFINE s == Joined(a, t)
<1>1. /\ a \in Seq(Char) /\ t \in Seq(Char) /\ s \in Text /\ Len(a) \in Nat /\ Len(a) >= 3
      /\ AuthorityEnd(s, 1) = Len(a) + 1
  BY URLFacts
<1>2. \A i \in 1 .. Len(a) : s[i] = a[i]
  <2>1. a \in Seq(Char) /\ t \in Seq(Char)
    BY <1>1
  <2> QED BY <2>1, CharBehind
<1> HIDE DEF s
<1>3. Ats(s, 1) = {}
  <2> SUFFICES ASSUME NEW j \in Ats(s, 1) PROVE FALSE
    OBVIOUS
  <2>1. j \in 1 + 3 .. Len(a) + 1 - 1 /\ s[j] = "@"
    BY <1>1 DEF Ats
  <2>2. j \in 1 .. Len(a)
    BY <1>1, <2>1
  <2> QED BY <1>2, <2>1, <2>2 DEF NoUser
<1>4. MaskedURL(s, 1) = SubSeq(s, 1, (Len(a) + 1) - 1)
  BY <1>1, <1>3 DEF MaskedURL
<1>5. (Len(a) + 1) - 1 = Len(a)
  BY <1>1
<1>6. MaskedURL(s, 1) = SubSeq(s, 1, Len(a))
  BY <1>4, <1>5
<1>7. SubSeq(s, 1, Len(a)) = a
  <2>1. a \in Seq(Char) /\ t \in Seq(Char) /\ s = a \o t
    BY <1>1 DEF s, Joined
  <2> QED BY <2>1
<1> QED BY <1>6, <1>7, URLStep DEF s

SchemeMask == Joined(Scheme, Mask)

\* What stands before the last "@" becomes the mask.
LEMMA OnceUser ==
  ASSUME NEW x, NEW y, NEW t, URL(Joined(x, y), t), User(x, y)
  PROVE  Once(Joined(Joined(x, y), t)) = Joined(Joined(SchemeMask, y), Once(t))
<1> DEFINE a == Joined(x, y)
           s == Joined(a, t)
           g == Len(x) + 1
<1>1. /\ a \in Seq(Char) /\ t \in Seq(Char) /\ s \in Text /\ Len(a) \in Nat /\ Len(a) >= 3
      /\ AuthorityEnd(s, 1) = Len(a) + 1
  BY URLFacts
<1>2. x \in Seq(Char) /\ y \in Seq(Char) /\ Len(x) \in Nat /\ Len(y) \in Nat \ {0} /\ Len(x) >= 3
  BY DEF User, Text
<1>3. \A i \in 1 .. Len(a) : s[i] = a[i]
  <2>1. a \in Seq(Char) /\ t \in Seq(Char)
    BY <1>1
  <2> QED BY <2>1, CharBehind
<1>4. Len(a) = Len(x) + Len(y) /\ \A i \in 1 .. Len(y) : a[Len(x) + i] = y[i]
  <2>1. x \in Seq(Char) /\ y \in Seq(Char)
    BY <1>2
  <2> QED BY <2>1, CharBehind
<1> HIDE DEF s, a
<1>5. Ats(s, 1) = {j \in 1 + 3 .. Len(a) + 1 - 1 : s[j] = "@"}
  BY <1>1 DEF Ats
<1>6. g \in Ats(s, 1)
  <2>1. Len(a) = Len(x) + Len(y)
    BY <1>4
  <2>2. g \in 1 + 3 .. Len(a) + 1 - 1 /\ 1 \in 1 .. Len(y) /\ g \in 1 .. Len(a)
    BY <1>2, <2>1
  <2>3. s[g] = "@"
    BY <1>3, <1>4, <2>2 DEF User
  <2> QED BY <1>5, <2>2, <2>3
<1>7. \A j \in Ats(s, 1) : j <= g /\ j \in Nat
  <2> SUFFICES ASSUME NEW j \in Ats(s, 1) PROVE j <= g /\ j \in Nat
    OBVIOUS
  <2>1. j \in 1 + 3 .. Len(a) + 1 - 1 /\ s[j] = "@"
    BY <1>5
  <2>2. Len(a) = Len(x) + Len(y)
    BY <1>4
  <2>3. CASE j > g
    <3> DEFINE i == j - Len(x)
    <3>1. i \in 2 .. Len(y) /\ i \in 1 .. Len(y) /\ Len(x) + i = j /\ j \in 1 .. Len(a)
      BY <1>2, <2>1, <2>2, <2>3
    <3> HIDE DEF i
    <3>2. y[i] = "@"
      BY <1>3, <1>4, <2>1, <3>1
    <3> QED BY <3>1, <3>2 DEF User
  <2>4. j \in Nat
    BY <2>1
  <2> QED BY <1>2, <2>3, <2>4
<1>8. g \in Nat
  BY <1>2
<1> HIDE DEF g
<1>9. Greatest(Ats(s, 1)) = g
  <2>1. \A h \in Ats(s, 1) : (\A j \in Ats(s, 1) : j <= h) => h = g
    <3> SUFFICES ASSUME NEW h \in Ats(s, 1), \A j \in Ats(s, 1) : j <= h PROVE h = g
      OBVIOUS
    <3>1. g <= h /\ h <= g /\ h \in Nat
      BY <1>6, <1>7
    <3> QED BY <1>8, <3>1
  <2> QED BY <1>6, <1>7, <2>1 DEF Greatest
<1>10. MaskedURL(s, 1) = Scheme \o Mask \o SubSeq(s, g, (Len(a) + 1) - 1)
  BY <1>1, <1>6, <1>9 DEF MaskedURL
<1>11. SubSeq(s, g, (Len(a) + 1) - 1) = y
  <2>1. s = Joined(x, Joined(y, t))
    BY <1>1, <1>2, Assoc DEF s, a
  <2>2. Joined(y, t) \in Seq(Char) /\ Len(Joined(y, t)) = Len(y) + Len(t) /\ Len(t) \in Nat
    <3>1. y \in Seq(Char) /\ t \in Seq(Char)
      BY <1>1, <1>2
    <3> QED BY <3>1, CharBehind
  <2>3. 1 \in 1 .. Len(Joined(y, t)) + 1 /\ Len(y) \in 1 - 1 .. Len(Joined(y, t))
    BY <1>2, <2>2
  <2>4. SubSeq(Joined(x, Joined(y, t)), Len(x) + 1, Len(x) + Len(y)) = SubSeq(Joined(y, t), 1, Len(y))
    BY <1>2, <2>2, <2>3, PartBehind
  <2>5. SubSeq(Joined(y, t), 1, Len(y)) = y
    <3>1. y \in Seq(Char) /\ t \in Seq(Char)
      BY <1>1, <1>2
    <3> QED BY <3>1 DEF Joined
  <2>6. (Len(a) + 1) - 1 = Len(x) + Len(y)
    <3>1. Len(a) = Len(x) + Len(y)
      BY <1>4
    <3> QED BY <1>2, <3>1
  <2> QED BY <2>1, <2>4, <2>5, <2>6 DEF g
<1>12. MaskedURL(s, 1) = Joined(SchemeMask, y)
  BY <1>10, <1>11 DEF SchemeMask, Joined
<1> QED BY <1>12, URLStep DEF s, a

\* A character that begins no scheme is copied.
LEMMA OnceChar ==
  ASSUME NEW c \in Char, NEW t \in Text, ~SchemeAt(Joined(Alone(c), t), 1)
  PROVE  Once(Joined(Alone(c), t)) = Joined(Alone(c), Once(t))
<1> DEFINE x == Alone(c)
           s == Joined(x, t)
<1>1. x \in Text /\ Single(x) /\ x # <<>> /\ x[1] = c
  BY AloneIs, SingleIs
<1>2. s \in Text /\ s # <<>> /\ s[1] = c
  BY <1>1, SingleBefore
<1>3. 1 \in 1 .. Len(s)
  <2>1. s \in Seq(Char) /\ s # <<>>
    BY <1>2 DEF Text
  <2> HIDE DEF s
  <2> QED BY <2>1
<1>4. ~Matches(s, Scheme, 1)
  <2>1. 1 \in Nat \ {0}
    OBVIOUS
  <2> QED BY <1>2, <2>1, SchemeIs
<1>5. OnceStep(s)[1] = Step(<<s[1]>>, 1 + 1)
  BY <1>3, <1>4 DEF OnceStep, Copy
<1>6. OnceStep(s)[1].write = Alone(c) /\ OnceStep(s)[1].goto = 1 + 1
  BY <1>2, <1>5 DEF Step, Alone
<1>7. Len(x) = 1
  BY <1>1 DEF Single
<1> HIDE DEF x
<1>8. OnceStep(Joined(x, t))[1].write = x /\ OnceStep(Joined(x, t))[1].goto = Len(x) + 1
  BY <1>6, <1>7 DEF x
<1> QED BY <1>1, <1>8, OnceSplit DEF x

\* How a text begins: with a character that begins no URL, with a URL without
\* a user, or with one that has a user.
BeginsWithChar(s, c, t) ==
  s = Joined(Alone(c), t) /\ c \in Char /\ t \in Text /\ ~SchemeAt(s, 1) /\ Len(t) < Len(s)
BeginsWithURL(s, a, t) == s = Joined(a, t) /\ URL(a, t) /\ NoUser(a) /\ Len(t) < Len(s)
BeginsWithUser(s, x, y, t) ==
  s = Joined(Joined(x, y), t) /\ URL(Joined(x, y), t) /\ User(x, y) /\ Len(t) < Len(s)

LEMMA BeginningChar ==
  ASSUME NEW s \in Text, s # <<>>, ~SchemeAt(s, 1)
  PROVE  \E c, t : BeginsWithChar(s, c, t)
<1> DEFINE c == s[1]
           t == Tail(s)
<1>1. s = Joined(Alone(c), t) /\ t \in Text /\ c \in Char
  BY OneAndRest DEF Text, Alone
<1>2. Len(t) < Len(s)
  <2>1. Len(t) = Len(s) - 1 /\ Len(s) \in Nat \ {0}
    BY OneAndRest DEF Text
  <2> HIDE DEF t
  <2> QED BY <2>1
<1>3. BeginsWithChar(s, c, t)
  BY <1>1, <1>2 DEF BeginsWithChar
<1> QED BY <1>3

LEMMA BeginningURL ==
  ASSUME NEW s \in Text, SchemeAt(s, 1), s # <<>>
  PROVE  \E a, t : s = Joined(a, t) /\ URL(a, t) /\ Len(t) < Len(s) /\ a \in Text
<1> DEFINE e == AuthorityEnd(s, 1)
           k == e - 1
           a == SubSeq(s, 1, k)
           t == SubSeq(s, k + 1, Len(s))
<1>1. s \in Seq(Char) /\ Len(s) \in Nat /\ 1 \in 1 .. Len(s)
  BY DEF Text
<1>2. /\ e \in 1 + 3 .. Len(s) + 1
      /\ \A j \in 1 + 3 .. e - 1 : s[j] \notin Terminators
      /\ e <= Len(s) => s[e] \in Terminators
  BY <1>1, AuthorityFacts
<1> HIDE DEF e
<1>3. k \in 0 .. Len(s) /\ k >= 3 /\ k \in Nat /\ k + 1 = e
  BY <1>1, <1>2
<1> HIDE DEF k
<1>4. /\ a \in Seq(Char) /\ Len(a) = k /\ t \in Seq(Char) /\ Len(t) = Len(s) - k
      /\ (\A i \in 1 .. k : a[i] = s[i]) /\ (\A i \in 1 .. Len(s) - k : t[i] = s[k + i])
      /\ s = Joined(a, t)
  BY <1>1, <1>3, Parts
<1> HIDE DEF a, t
<1>5. SchemeAt(a, 1)
  <2>1. 1 + 2 <= Len(a) /\ 1 \in 1 .. k /\ 1 + 1 \in 1 .. k /\ 1 + 2 \in 1 .. k
    <3>1. Len(a) = k
      BY <1>4
    <3> QED BY <1>3, <3>1
  <2> QED BY <1>4, <2>1 DEF SchemeAt
<1>6. \A j \in 4 .. Len(a) : a[j] \notin Terminators
  <2> SUFFICES ASSUME NEW j \in 4 .. Len(a) PROVE a[j] \notin Terminators
    OBVIOUS
  <2>1. Len(a) = k
    BY <1>4
  <2>2. j \in 1 .. k /\ j \in 1 + 3 .. e - 1
    BY <1>3, <2>1
  <2> QED BY <1>2, <1>4, <2>2
<1>7. t # <<>> => t[1] \in Terminators
  <2> SUFFICES ASSUME t # <<>> PROVE t[1] \in Terminators
    OBVIOUS
  <2>1. Len(t) = Len(s) - k /\ t \in Seq(Char)
    BY <1>4
  <2>2. Len(t) \in Nat \ {0}
    BY <2>1
  <2>3. 1 \in 1 .. Len(s) - k /\ e <= Len(s)
    BY <1>1, <1>3, <2>1, <2>2
  <2>4. t[1] = s[e]
    BY <1>3, <1>4, <2>3
  <2> QED BY <1>2, <2>3, <2>4
<1>8. URL(a, t)
  BY <1>4, <1>5, <1>6, <1>7 DEF URL, Text
<1>9. Len(t) < Len(s)
  <2>1. Len(t) = Len(s) - k
    BY <1>4
  <2> QED BY <1>1, <1>3, <2>1
<1> QED BY <1>4, <1>8, <1>9 DEF Text

LEMMA URLParts ==
  ASSUME NEW a, NEW t, URL(a, t)
  PROVE  NoUser(a) \/ \E x, y : a = Joined(x, y) /\ User(x, y)
<1> SUFFICES ASSUME ~NoUser(a) PROVE \E x, y : a = Joined(x, y) /\ User(x, y)
  OBVIOUS
<1> DEFINE ats == {j \in 1 .. Len(a) : a[j] = "@"}
<1>1. a \in Seq(Char) /\ Len(a) \in Nat
  BY URLFacts
<1>2. ats # {} /\ ats \in SUBSET (1 .. Len(a))
  BY DEF NoUser
<1> HIDE DEF ats
<1>3. PICK g \in ats : \A j \in ats : j <= g
  BY <1>1, <1>2, LastPlace
<1>4. g \in 1 .. Len(a) /\ a[g] = "@" /\ \A j \in 1 .. Len(a) : a[j] = "@" => j <= g
  BY <1>3 DEF ats
<1>5. g # 1 /\ g # 2 /\ g # 3
  <2>1. a[1] = ":" /\ a[1 + 1] = "/" /\ a[1 + 2] = "/"
    BY DEF URL, SchemeAt
  <2>2. 1 + 1 = 2 /\ 1 + 2 = 3
    OBVIOUS
  <2> QED BY <1>4, <2>1, <2>2
<1> DEFINE k == g - 1
           x == SubSeq(a, 1, k)
           y == SubSeq(a, k + 1, Len(a))
<1>6. k \in 0 .. Len(a) /\ k >= 3 /\ k + 1 = g /\ Len(a) - k >= 1 /\ k \in Nat
  BY <1>1, <1>4, <1>5
<1> HIDE DEF k
<1>7. /\ x \in Seq(Char) /\ Len(x) = k /\ y \in Seq(Char) /\ Len(y) = Len(a) - k
      /\ (\A i \in 1 .. Len(a) - k : y[i] = a[k + i]) /\ a = Joined(x, y)
  BY <1>1, <1>6, Parts
<1> HIDE DEF x, y
<1>8. y[1] = "@" /\ y # <<>>
  <2>1. 1 \in 1 .. Len(a) - k
    BY <1>1, <1>6
  <2>2. y[1] = "@"
    BY <1>4, <1>6, <1>7, <2>1
  <2>3. Len(y) = Len(a) - k
    BY <1>7
  <2>4. Len(y) # 0
    BY <1>6, <2>3, <1>1
  <2> QED BY <2>2, <2>4
<1>9. \A j \in 2 .. Len(y) : y[j] # "@"
  <2> SUFFICES ASSUME NEW j \in 2 .. Len(y), y[j] = "@" PROVE FALSE
    OBVIOUS
  <2>1. Len(y) = Len(a) - k
    BY <1>7
  <2>2. j \in 1 .. Len(a) - k /\ k + j \in 1 .. Len(a) /\ ~(k + j <= g)
    BY <1>1, <1>6, <2>1
  <2>3. a[k + j] = "@"
    BY <1>7, <2>2
  <2> QED BY <1>4, <2>2, <2>3
<1>10. Len(x) >= 3
  <2>1. Len(x) = k
    BY <1>7
  <2> QED BY <1>6, <2>1
<1>11. User(x, y)
  BY <1>7, <1>8, <1>9, <1>10 DEF User, Text
<1> QED BY <1>7, <1>11

\* How a text begins for the pass over the URLs.
LEMMA Beginning ==
  ASSUME NEW s \in Text, s # <<>>
  PROVE  \/ \E c, t : BeginsWithChar(s, c, t)
         \/ \E a, t : BeginsWithURL(s, a, t)
         \/ \E x, y, t : BeginsWithUser(s, x, y, t)
<1>1. CASE ~SchemeAt(s, 1)
  BY <1>1, BeginningChar
<1>2. CASE SchemeAt(s, 1)
  <2>1. PICK a, t : s = Joined(a, t) /\ URL(a, t) /\ Len(t) < Len(s)
    BY <1>2, BeginningURL
  <2>2. CASE NoUser(a)
    BY <2>1, <2>2 DEF BeginsWithURL
  <2>3. CASE \E x, y : a = Joined(x, y) /\ User(x, y)
    BY <2>1, <2>3 DEF BeginsWithUser
  <2> QED BY <2>1, <2>2, <2>3, URLParts
<1> QED BY <1>1, <1>2

\* What one pass makes of each.
LEMMA OnceOfChar ==
  ASSUME NEW s, NEW c, NEW t, BeginsWithChar(s, c, t)
  PROVE  Once(s) = Joined(Alone(c), Once(t)) /\ t \in Text /\ Once(t) \in Text /\ c \in Char
BY OnceChar, OnceType DEF BeginsWithChar

LEMMA OnceOfURL ==
  ASSUME NEW s, NEW a, NEW t, BeginsWithURL(s, a, t)
  PROVE  Once(s) = Joined(a, Once(t)) /\ t \in Text /\ Once(t) \in Text /\ a \in Text
BY OncePlain, OnceType DEF BeginsWithURL, URL

LEMMA OnceOfUser ==
  ASSUME NEW s, NEW x, NEW y, NEW t, BeginsWithUser(s, x, y, t)
  PROVE  /\ Once(s) = Joined(Joined(SchemeMask, y), Once(t))
         /\ t \in Text /\ Once(t) \in Text /\ x \in Text /\ y \in Text
BY OnceUser, OnceType DEF BeginsWithUser, URL, User

-----------------------------------------------------------------------------
(***************************************************************************)
(* The rounds over the URLs end: each that changes the text leaves fewer   *)
(* URLs that are not masked (redactURLCreds).                              *)
(***************************************************************************)
SameUpto(t, u, n) ==
  \A k \in 1 .. n : /\ k <= Len(t) => k <= Len(u) /\ u[k] = t[k]
                    /\ k <= Len(u) => k <= Len(t)

LEMMA SameBehind ==
  ASSUME NEW x \in Text, NEW t \in Text, NEW u \in Text, SameUpto(t, u, 3)
  PROVE  SameUpto(Joined(x, t), Joined(x, u), Len(x) + 3)
<1> DEFINE s == Joined(x, t)
           r == Joined(x, u)
<1>1. x \in Seq(Char) /\ t \in Seq(Char) /\ u \in Seq(Char)
  BY DEF Text
<1>2. /\ Len(s) = Len(x) + Len(t) /\ (\A i \in 1 .. Len(x) : s[i] = x[i])
      /\ \A i \in 1 .. Len(t) : s[Len(x) + i] = t[i]
  <2>1. x \in Seq(Char) /\ t \in Seq(Char)
    BY <1>1
  <2> QED BY <2>1, CharBehind DEF Joined
<1>3. /\ Len(r) = Len(x) + Len(u) /\ (\A i \in 1 .. Len(x) : r[i] = x[i])
      /\ \A i \in 1 .. Len(u) : r[Len(x) + i] = u[i]
  <2>1. x \in Seq(Char) /\ u \in Seq(Char)
    BY <1>1
  <2> QED BY <2>1, CharBehind DEF Joined
<1> HIDE DEF s, r
<1>4. Len(x) \in Nat /\ Len(t) \in Nat /\ Len(u) \in Nat
  BY <1>1
<1>5. Len(s) = Len(x) + Len(t) /\ Len(r) = Len(x) + Len(u)
  BY <1>2, <1>3
<1> SUFFICES ASSUME NEW p \in 1 .. Len(x) + 3
             PROVE  /\ p <= Len(s) => p <= Len(r) /\ r[p] = s[p]
                    /\ p <= Len(r) => p <= Len(s)
  BY DEF SameUpto, s, r
<1>6. CASE p <= Len(x)
  <2>1. p \in 1 .. Len(x) /\ p <= Len(s) /\ p <= Len(r)
    BY <1>4, <1>5, <1>6
  <2> QED BY <1>2, <1>3, <2>1
<1>7. CASE ~(p <= Len(x))
  <2> DEFINE k == p - Len(x)
  <2>1. k \in 1 .. 3 /\ Len(x) + k = p
    BY <1>4, <1>7
  <2> HIDE DEF k
  <2>2. /\ k <= Len(t) => k <= Len(u) /\ u[k] = t[k]
        /\ k <= Len(u) => k <= Len(t)
    BY <2>1 DEF SameUpto
  <2>3. /\ p <= Len(s) => k <= Len(t)
        /\ k <= Len(t) => k \in 1 .. Len(t)
        /\ k <= Len(u) => p <= Len(r) /\ k \in 1 .. Len(u)
        /\ k <= Len(t) => p <= Len(s)
        /\ p <= Len(r) => k <= Len(u)
    BY <1>4, <1>5, <2>1
  <2> QED BY <1>2, <1>3, <2>1, <2>2, <2>3
<1> QED BY <1>6, <1>7

\* The masked URL, grouped from the right.
LEMMA MaskedIs ==
  ASSUME NEW y \in Text, NEW t \in Text
  PROVE  /\ Joined(Joined(SchemeMask, y), t) = Joined(Scheme, Joined(Mask, Joined(y, t)))
         /\ Joined(Joined(SchemeMask, y), t) = Joined(SchemeMask, Joined(y, t))
         /\ Joined(Mask, Joined(y, t)) \in Text /\ Joined(y, t) \in Text /\ SchemeMask \in Text
<1>1. Scheme \in Seq(Char) /\ Mask \in Seq(Char) /\ y \in Seq(Char) /\ t \in Seq(Char)
  BY PatternTypes DEF Text
<1>2. Scheme \in Seq(Char) /\ Mask \in Seq(Char)
  BY <1>1
<1>3. SchemeMask \in Seq(Char)
  BY <1>2, CharBehind DEF SchemeMask
<1>4. y \in Seq(Char) /\ t \in Seq(Char)
  BY <1>1
<1>5. Joined(y, t) \in Seq(Char)
  BY <1>4, CharBehind
<1>6. Joined(Mask, Joined(y, t)) \in Seq(Char)
  BY <1>2, <1>5, CharBehind
<1>7. Joined(Joined(SchemeMask, y), t) = Joined(SchemeMask, Joined(y, t))
  BY <1>3, <1>4, Assoc
<1>8. Joined(Joined(Scheme, Mask), Joined(y, t)) = Joined(Scheme, Joined(Mask, Joined(y, t)))
  BY <1>2, <1>5, Assoc
<1> QED BY <1>3, <1>5, <1>6, <1>7, <1>8 DEF SchemeMask, Text

\* A pass keeps the first three characters.
LEMMA OnceSameBegin ==
  ASSUME NEW s \in Text
  PROVE  SameUpto(s, Once(s), 3)
<1> DEFINE Good(z) == SameUpto(z, Once(z), 3)
           C == {z \in Text : ~Good(z)}
<1> SUFFICES ASSUME C # {} PROVE FALSE
  OBVIOUS
<1>1. PICK z \in C : \A h \in C : Len(z) <= Len(h)
  <2>1. C \in SUBSET Seq(Char)
    BY DEF Text
  <2> HIDE DEF C
  <2> QED BY <2>1, ShortestText
<1>2. z \in Text /\ ~Good(z)
  BY <1>1
<1>3. \A u \in Text : Len(u) < Len(z) => Good(u)
  <2> SUFFICES ASSUME NEW u \in Text, Len(u) < Len(z), u \in C PROVE FALSE
    OBVIOUS
  <2>1. Len(u) \in Nat /\ Len(z) \in Nat
    <3>1. z \in Seq(Char) /\ u \in Seq(Char)
      BY <1>2 DEF Text
    <3> HIDE DEF C
    <3> QED BY <3>1
  <2>2. Len(z) <= Len(u)
    BY <1>1
  <2> HIDE DEF C
  <2> QED BY <2>1, <2>2
<1> HIDE DEF C
<1>4. CASE z = <<>>
  <2>1. Once(z) = z
    BY <1>4, OnceNothing
  <2> QED BY <1>2, <2>1 DEF SameUpto
<1>5. CASE \E c, t : BeginsWithChar(z, c, t)
  <2>1. PICK c, t : BeginsWithChar(z, c, t)
    BY <1>5
  <2>2. /\ Once(z) = Joined(Alone(c), Once(t)) /\ t \in Text /\ Once(t) \in Text /\ c \in Char
        /\ z = Joined(Alone(c), t) /\ Len(t) < Len(z)
    BY <2>1, OnceOfChar DEF BeginsWithChar
  <2>3. SameUpto(t, Once(t), 3)
    BY <1>3, <2>2
  <2>4. SameUpto(Joined(Alone(c), t), Joined(Alone(c), Once(t)), Len(Alone(c)) + 3)
    BY <2>2, <2>3, AloneIs, SameBehind
  <2>5. Len(Alone(c)) + 3 = 4
    <3>1. Len(Alone(c)) = 1
      BY <2>2, AloneIs DEF Single
    <3> QED BY <3>1
  <2>6. \A k \in 1 .. 3 : k \in 1 .. 4
    OBVIOUS
  <2> QED BY <1>2, <2>2, <2>4, <2>5, <2>6 DEF SameUpto
<1>6. CASE \E a, t : BeginsWithURL(z, a, t)
  <2>1. PICK a, t : BeginsWithURL(z, a, t)
    BY <1>6
  <2>2. /\ Once(z) = Joined(a, Once(t)) /\ t \in Text /\ Once(t) \in Text /\ a \in Text
        /\ z = Joined(a, t) /\ Len(t) < Len(z) /\ URL(a, t)
    BY <2>1, OnceOfURL DEF BeginsWithURL
  <2>3. SameUpto(t, Once(t), 3)
    BY <1>3, <2>2
  <2>4. SameUpto(Joined(a, t), Joined(a, Once(t)), Len(a) + 3)
    BY <2>2, <2>3, SameBehind
  <2>5. \A k \in 1 .. 3 : k \in 1 .. Len(a) + 3
    <3>1. Len(a) \in Nat
      BY <2>2 DEF Text
    <3> QED BY <3>1
  <2> QED BY <1>2, <2>2, <2>4, <2>5 DEF SameUpto
<1>7. CASE \E x, y, t : BeginsWithUser(z, x, y, t)
  <2>1. PICK x, y, t : BeginsWithUser(z, x, y, t)
    BY <1>7
  <2>2. /\ Once(z) = Joined(Joined(SchemeMask, y), Once(t)) /\ t \in Text /\ Once(t) \in Text
        /\ x \in Text /\ y \in Text /\ z = Joined(Joined(x, y), t) /\ URL(Joined(x, y), t)
    BY <2>1, OnceOfUser DEF BeginsWithUser
  <2>3. SchemeAt(z, 1)
    BY <2>2, URLFacts
  <2>4. /\ Once(z) = Joined(Scheme, Joined(Mask, Joined(y, Once(t))))
        /\ Joined(Mask, Joined(y, Once(t))) \in Text
    BY <2>2, MaskedIs
  <2>5. /\ \A k \in 1 .. Len(Scheme) : Once(z)[k] = Scheme[k]
        /\ Len(Once(z)) >= 3
    <3> DEFINE r == Joined(Mask, Joined(y, Once(t)))
    <3>1. Scheme \in Seq(Char) /\ r \in Seq(Char)
      BY <2>4, PatternTypes DEF Text
    <3>2. Once(z) = Joined(Scheme, r)
      BY <2>4
    <3> HIDE DEF r
    <3>3. /\ \A k \in 1 .. Len(Scheme) : Joined(Scheme, r)[k] = Scheme[k]
          /\ Len(Joined(Scheme, r)) = Len(Scheme) + Len(r)
      BY <3>1, CharBehind
    <3>4. Len(Once(z)) = Len(Scheme) + Len(r) /\ Len(Scheme) = 3
      BY <3>2, <3>3, PatternTypes
    <3>5. Len(r) \in Nat
      BY <3>1
    <3>6. Len(Once(z)) >= 3
      BY <3>4, <3>5
    <3> QED BY <3>2, <3>3, <3>6
  <2>6. Once(z)[1] = ":" /\ Once(z)[2] = "/" /\ Once(z)[3] = "/"
    <3>1. Len(Scheme) = 3 /\ Scheme[1] = ":" /\ Scheme[2] = "/" /\ Scheme[3] = "/"
      BY PatternTypes
    <3>2. Len(Scheme) = 3
      BY <3>1
    <3>3. 1 \in 1 .. Len(Scheme) /\ 2 \in 1 .. Len(Scheme) /\ 3 \in 1 .. Len(Scheme)
      BY <3>2
    <3> QED BY <2>5, <3>1, <3>3
  <2>7. z[1] = ":" /\ z[2] = "/" /\ z[3] = "/" /\ 3 <= Len(z)
    <3>1. 1 + 1 = 2 /\ 1 + 2 = 3
      OBVIOUS
    <3> QED BY <2>3, <3>1 DEF SchemeAt
  <2>8. Len(z) \in Nat /\ Len(Once(z)) \in Nat
    BY <1>2, OnceType DEF Text
  <2>9. \A k \in 1 .. 3 : (k = 1 \/ k = 2 \/ k = 3) /\ k <= Len(z) /\ k <= Len(Once(z))
    <3>1. 3 <= Len(z) /\ 3 <= Len(Once(z))
      BY <2>5, <2>7, <2>8
    <3> QED BY <2>8, <3>1
  <2>10. \A k \in 1 .. 3 : Once(z)[k] = z[k]
    BY <2>6, <2>7, <2>9
  <2> QED BY <1>2, <2>9, <2>10 DEF SameUpto
<1> QED BY <1>2, <1>4, <1>5, <1>6, <1>7, Beginning

\* URLs that are not masked, by their place.
Unmasked(s, i) == SchemeAt(s, i) /\ ~(i + 3 <= Len(s) /\ s[i + 3] = "M")
Openings(s) == {i \in 1 .. Len(s) : Unmasked(s, i)}
Count(s) == Cardinality(Openings(s))
FrontOpenings(x, t) == {j \in 1 .. Len(x) : Unmasked(Joined(x, t), j)}

LEMMA OpeningsFinite ==
  ASSUME NEW s \in Text
  PROVE  IsFiniteSet(Openings(s)) /\ Count(s) \in Nat
<1>1. Len(s) \in Nat
  BY DEF Text
<1>2. IsFiniteSet(1 .. Len(s))
  BY <1>1, FS_Interval
<1>3. Openings(s) \in SUBSET (1 .. Len(s))
  BY DEF Openings
<1>4. IsFiniteSet(Openings(s))
  BY <1>2, <1>3, FS_Subset
<1> QED BY <1>4, FS_CardinalityType DEF Count

LEMMA FrontFinite ==
  ASSUME NEW x \in Text, NEW t
  PROVE  IsFiniteSet(FrontOpenings(x, t)) /\ Cardinality(FrontOpenings(x, t)) \in Nat
<1>1. Len(x) \in Nat
  BY DEF Text
<1>2. IsFiniteSet(1 .. Len(x))
  BY <1>1, FS_Interval
<1>3. FrontOpenings(x, t) \in SUBSET (1 .. Len(x))
  BY DEF FrontOpenings
<1>4. IsFiniteSet(FrontOpenings(x, t))
  BY <1>2, <1>3, FS_Subset
<1> QED BY <1>4, FS_CardinalityType

LEMMA UnmaskedBehind ==
  ASSUME NEW x \in Text, NEW t \in Text, NEW i \in 1 .. Len(t)
  PROVE  /\ Unmasked(t, i) => Unmasked(Joined(x, t), Len(x) + i)
         /\ Unmasked(Joined(x, t), Len(x) + i) => Unmasked(t, i)
<1> DEFINE s == Joined(x, t)
<1>1. x \in Seq(Char) /\ t \in Seq(Char)
  BY DEF Text
<1>2. Len(s) = Len(x) + Len(t) /\ \A j \in 1 .. Len(t) : s[Len(x) + j] = t[j]
  BY <1>1, CharBehind DEF Joined
<1>3. i \in Nat \ {0}
  OBVIOUS
<1>4. /\ SchemeAt(t, i) => SchemeAt(s, Len(x) + i)
      /\ SchemeAt(s, Len(x) + i) => SchemeAt(t, i)
  BY <1>3, SchemeBehind
<1> HIDE DEF s
<1>5. Len(x) \in Nat /\ Len(t) \in Nat /\ Len(s) = Len(x) + Len(t)
  BY <1>1, <1>2
<1>6. /\ Len(x) + i + 3 = Len(x) + (i + 3)
      /\ i + 3 <= Len(t) => Len(x) + (i + 3) <= Len(s) /\ i + 3 \in 1 .. Len(t)
      /\ Len(x) + (i + 3) <= Len(s) => i + 3 <= Len(t)
  BY <1>3, <1>5
<1>7. i + 3 <= Len(t) => s[Len(x) + (i + 3)] = t[i + 3]
  BY <1>2, <1>6
<1> QED BY <1>4, <1>6, <1>7 DEF Unmasked, s

\* URLs that are not masked are counted part by part.
LEMMA CountBehind ==
  ASSUME NEW x \in Text, NEW t \in Text
  PROVE  Count(Joined(x, t)) = Cardinality(FrontOpenings(x, t)) + Count(t)
<1> DEFINE s == Joined(x, t)
           k == Len(x)
           S == Openings(t)
           T == {k + i : i \in S}
           F == FrontOpenings(x, t)
           f == [i \in S |-> k + i]
<1>1. x \in Seq(Char) /\ t \in Seq(Char)
  BY DEF Text
<1>2. Len(s) = Len(x) + Len(t)
  BY <1>1, CharBehind
<1>3. k \in Nat /\ Len(t) \in Nat
  BY <1>1
<1>4. S \subseteq 1 .. Len(t)
  BY DEF Openings
<1>5. \A i \in 1 .. Len(t) : /\ Unmasked(t, i) => Unmasked(s, k + i)
                             /\ Unmasked(s, k + i) => Unmasked(t, i)
  BY UnmaskedBehind
<1> HIDE DEF k, s
<1>6. Openings(s) = F \cup T
  <2>1. ASSUME NEW j \in Openings(s) PROVE j \in F \cup T
    <3>1. j \in 1 .. Len(s) /\ Unmasked(s, j)
      BY <2>1 DEF Openings
    <3>2. CASE j \in 1 .. k
      BY <3>1, <3>2 DEF FrontOpenings, s, k
    <3>3. CASE j \notin 1 .. k
      <4> DEFINE i == j - k
      <4>1. Len(s) = k + Len(t)
        BY <1>2 DEF k
      <4>2. i \in 1 .. Len(t) /\ k + i = j
        BY <1>3, <3>1, <3>3, <4>1
      <4> HIDE DEF i
      <4>3. i \in S
        BY <1>5, <3>1, <4>2 DEF Openings
      <4> QED BY <4>2, <4>3
    <3> QED BY <3>2, <3>3
  <2>2. ASSUME NEW j \in F PROVE j \in Openings(s)
    <3>1. j \in 1 .. k /\ Unmasked(s, j)
      BY <2>2 DEF FrontOpenings, s, k
    <3>2. Len(s) = k + Len(t)
      BY <1>2 DEF k
    <3>3. j \in 1 .. Len(s)
      BY <1>3, <3>1, <3>2
    <3> QED BY <3>1, <3>3 DEF Openings
  <2>3. ASSUME NEW i \in S PROVE k + i \in Openings(s)
    <3>1. i \in 1 .. Len(t) /\ Unmasked(t, i)
      BY <2>3 DEF Openings
    <3>2. Len(s) = k + Len(t)
      BY <1>2 DEF k
    <3>3. k + i \in 1 .. Len(s)
      BY <1>3, <3>1, <3>2
    <3> QED BY <1>5, <3>1, <3>3 DEF Openings
  <2> HIDE DEF S, F
  <2> QED BY <2>1, <2>2, <2>3
<1>7. F \cap T = {}
  <2> SUFFICES ASSUME NEW i \in S, k + i \in F PROVE FALSE
    OBVIOUS
  <2>1. k + i \in 1 .. k
    BY DEF FrontOpenings, k
  <2>2. i \in 1 .. Len(t)
    BY <1>4
  <2> QED BY <1>3, <2>1, <2>2
<1>8. IsFiniteSet(S) /\ IsFiniteSet(F) /\ Cardinality(S) \in Nat /\ Cardinality(F) \in Nat
  BY OpeningsFinite, FrontFinite DEF Count
<1> HIDE DEF S, F
<1>9. IsFiniteSet(T) /\ Cardinality(T) = Cardinality(S)
  <2>1. f \in Bijection(S, T)
    <3>1. f \in [S -> T]
      OBVIOUS
    <3>2. \A a, b \in S : f[a] = f[b] => a = b
      <4> SUFFICES ASSUME NEW a \in S, NEW b \in S, k + a = k + b PROVE a = b
        OBVIOUS
      <4>1. a \in Nat /\ b \in Nat
        BY <1>3, <1>4
      <4> QED BY <1>3, <4>1
    <3>3. \A h \in T : \E a \in S : f[a] = h
      OBVIOUS
    <3> QED BY <3>1, <3>2, <3>3, Fun_IsBij
  <2>2. ExistsBijection(S, T)
    BY <2>1 DEF ExistsBijection
  <2> QED BY <1>8, <2>2, FS_Bijection
<1> HIDE DEF T
<1>10. Cardinality(F \cup T) = Cardinality(F) + Cardinality(T) - Cardinality(F \cap T)
  BY <1>8, <1>9, FS_Union
<1>11. Cardinality(F \cap T) = 0
  BY <1>7, FS_EmptySet
<1>12. Cardinality(F \cup T) = Cardinality(F) + Cardinality(S)
  BY <1>8, <1>9, <1>10, <1>11
<1> QED BY <1>6, <1>12 DEF Count, S, F, s

\* What a pass changes further back makes no URL in front of it, nor takes one
\* away.
LEMMA SameFront ==
  ASSUME NEW x \in Text, NEW t \in Text, NEW u \in Text, SameUpto(t, u, 3)
  PROVE  FrontOpenings(x, t) = FrontOpenings(x, u)
<1> DEFINE s == Joined(x, t)
           r == Joined(x, u)
<1>1. SameUpto(s, r, Len(x) + 3)
  BY SameBehind
<1> HIDE DEF s, r
<1>2. \A p \in 1 .. Len(x) + 3 : /\ p <= Len(s) => p <= Len(r) /\ r[p] = s[p]
                                 /\ p <= Len(r) => p <= Len(s)
  BY <1>1 DEF SameUpto
<1>3. ASSUME NEW j \in 1 .. Len(x)
      PROVE  (Unmasked(s, j) => Unmasked(r, j)) /\ (Unmasked(r, j) => Unmasked(s, j))
  <2>1. Len(x) \in Nat /\ Len(s) \in Nat /\ Len(r) \in Nat
    <3>1. x \in Seq(Char) /\ t \in Seq(Char) /\ u \in Seq(Char)
      BY DEF Text
    <3>2. s \in Seq(Char) /\ r \in Seq(Char)
      BY <3>1, CharBehind DEF s, r
    <3> QED BY <3>1, <3>2
  <2>2. /\ j \in 1 .. Len(x) + 3 /\ j + 1 \in 1 .. Len(x) + 3 /\ j + 2 \in 1 .. Len(x) + 3
        /\ j + 3 \in 1 .. Len(x) + 3
        /\ j + 2 <= Len(s) => j <= Len(s) /\ j + 1 <= Len(s)
        /\ j + 2 <= Len(r) => j <= Len(r) /\ j + 1 <= Len(r)
    BY <2>1
  <2>3. /\ j <= Len(s) => r[j] = s[j]
        /\ j + 1 <= Len(s) => r[j + 1] = s[j + 1]
        /\ j + 2 <= Len(s) => r[j + 2] = s[j + 2] /\ j + 2 <= Len(r)
        /\ j + 3 <= Len(s) => r[j + 3] = s[j + 3] /\ j + 3 <= Len(r)
        /\ j + 2 <= Len(r) => j + 2 <= Len(s)
        /\ j + 3 <= Len(r) => j + 3 <= Len(s)
    BY <1>2, <2>2
  <2> QED BY <2>2, <2>3 DEF Unmasked, SchemeAt
<1> QED BY <1>3 DEF FrontOpenings, s, r

LEMMA SchemeMaskIs ==
  /\ SchemeMask \in Text /\ Len(SchemeMask) = 4
  /\ SchemeMask[1] = ":" /\ SchemeMask[2] = "/" /\ SchemeMask[3] = "/" /\ SchemeMask[4] = "M"
<1>1. Scheme \in Seq(Char) /\ Mask \in Seq(Char)
  BY PatternTypes DEF Text
<1>2. Len(Scheme) = 3 /\ Len(Mask) = 1
  BY PatternTypes DEF Single
<1>3. /\ SchemeMask \in Seq(Char) /\ Len(SchemeMask) = Len(Scheme) + Len(Mask)
      /\ (\A i \in 1 .. Len(Scheme) : SchemeMask[i] = Scheme[i])
      /\ \A i \in 1 .. Len(Mask) : SchemeMask[Len(Scheme) + i] = Mask[i]
  BY <1>1, CharBehind DEF SchemeMask, Joined
<1>4. Len(SchemeMask) = 4 /\ Len(Scheme) + 1 = 4
  <2>1. Len(SchemeMask) = Len(Scheme) + Len(Mask)
    BY <1>3
  <2> QED BY <1>2, <2>1
<1>5. 1 \in 1 .. Len(Scheme) /\ 2 \in 1 .. Len(Scheme) /\ 3 \in 1 .. Len(Scheme) /\ 1 \in 1 .. Len(Mask)
  BY <1>2
<1>6. SchemeMask[1] = ":" /\ SchemeMask[2] = "/" /\ SchemeMask[3] = "/"
  BY <1>3, <1>5, PatternTypes
<1>7. SchemeMask[Len(Scheme) + 1] = "M"
  BY <1>3, <1>5, PatternTypes
<1>8. SchemeMask[4] = "M"
  BY <1>4, <1>7
<1> QED BY <1>3, <1>4, <1>6, <1>8 DEF Text

\* The masked beginning of a URL counts for none.
LEMMA MaskedFront ==
  ASSUME NEW w \in Text
  PROVE  FrontOpenings(SchemeMask, w) = {}
<1> DEFINE s == Joined(SchemeMask, w)
<1>1. SchemeMask \in Seq(Char) /\ w \in Seq(Char)
  BY SchemeMaskIs DEF Text
<1>2. Len(s) = Len(SchemeMask) + Len(w) /\ \A i \in 1 .. Len(SchemeMask) : s[i] = SchemeMask[i]
  BY <1>1, CharBehind
<1> HIDE DEF s
<1>3. Len(SchemeMask) = 4
  BY SchemeMaskIs
<1>4. Len(w) \in Nat /\ Len(s) = Len(SchemeMask) + Len(w)
  BY <1>1, <1>2
<1>5. /\ 1 \in 1 .. Len(SchemeMask) /\ 2 \in 1 .. Len(SchemeMask) /\ 3 \in 1 .. Len(SchemeMask)
      /\ 4 \in 1 .. Len(SchemeMask) /\ 1 + 3 = 4 /\ 4 <= Len(s)
      /\ \A j \in 1 .. Len(SchemeMask) : j = 1 \/ j = 2 \/ j = 3 \/ j = 4
  BY <1>3, <1>4
<1>6. s[2] = "/" /\ s[3] = "/" /\ s[4] = "M"
  BY <1>2, <1>5, SchemeMaskIs
<1>7. \A j \in 1 .. Len(SchemeMask) : ~Unmasked(s, j)
  <2>1. ~Unmasked(s, 1)
    BY <1>5, <1>6 DEF Unmasked
  <2>2. ~Unmasked(s, 2) /\ ~Unmasked(s, 3) /\ ~Unmasked(s, 4)
    BY <1>6 DEF Unmasked, SchemeAt
  <2> QED BY <1>5, <2>1, <2>2
<1> QED BY <1>7 DEF FrontOpenings, s

\* The URL with userinfo counted for one.
LEMMA UserFront ==
  ASSUME NEW x, NEW y, NEW t, URL(Joined(x, y), t), User(x, y)
  PROVE  Cardinality(FrontOpenings(x, Joined(y, t))) >= 1
<1> DEFINE a == Joined(x, y)
           s == Joined(a, t)
           w == Joined(y, t)
<1>1. a \in Seq(Char) /\ t \in Seq(Char) /\ SchemeAt(s, 1)
  BY URLFacts
<1>2. x \in Seq(Char) /\ y \in Seq(Char) /\ x \in Text /\ Len(x) \in Nat /\ Len(x) >= 3 /\ Len(y) \in Nat \ {0}
  BY DEF User, Text
<1>3. Len(a) = Len(x) + Len(y)
  <2>1. x \in Seq(Char) /\ y \in Seq(Char)
    BY <1>2
  <2> QED BY <2>1, CharBehind
<1>4. Len(s) = Len(a) + Len(t) /\ \A i \in 1 .. Len(a) : s[i] = a[i]
  <2>1. a \in Seq(Char) /\ t \in Seq(Char)
    BY <1>1
  <2> QED BY <2>1, CharBehind DEF Joined
<1>5. s = Joined(x, w)
  <2>1. x \in Seq(Char) /\ y \in Seq(Char) /\ t \in Seq(Char)
    BY <1>1, <1>2
  <2> QED BY <2>1, Assoc
<1> HIDE DEF s, w, a
<1>6. 4 \in 4 .. Len(a) /\ 4 \in 1 .. Len(a) /\ 1 + 3 = 4
  BY <1>2, <1>3
<1>7. s[1 + 3] # "M"
  <2>1. a[4] \notin Terminators
    BY <1>6 DEF URL, a
  <2>2. s[1 + 3] = a[4]
    BY <1>4, <1>6
  <2> QED BY <2>1, <2>2 DEF Terminators
<1>8. 1 \in FrontOpenings(x, w)
  <2>1. 1 \in 1 .. Len(x)
    BY <1>2
  <2> QED BY <1>1, <1>5, <1>7, <2>1 DEF FrontOpenings, Unmasked
<1>9. {1} \in SUBSET FrontOpenings(x, w)
  BY <1>8
<1>10. IsFiniteSet(FrontOpenings(x, w)) /\ Cardinality(FrontOpenings(x, w)) \in Nat
  BY <1>2, FrontFinite
<1>11. Cardinality({1}) <= Cardinality(FrontOpenings(x, w))
  BY <1>9, <1>10, FS_Subset
<1>12. Cardinality({1}) = 1
  BY FS_Singleton
<1>13. Cardinality(FrontOpenings(x, w)) >= 1
  BY <1>10, <1>11, <1>12
<1> QED BY <1>13 DEF w

Fewer(s) == /\ Count(Once(s)) <= Count(s)
            /\ Once(s) # s => Count(Once(s)) < Count(s)

\* Behind the same front fewer remain fewer.
LEMMA FewerBehind ==
  ASSUME NEW x \in Text, NEW t \in Text, Fewer(t)
  PROVE  /\ Count(Joined(x, Once(t))) <= Count(Joined(x, t))
         /\ Joined(x, Once(t)) # Joined(x, t) => Count(Joined(x, Once(t))) < Count(Joined(x, t))
<1>1. Once(t) \in Text
  BY OnceType
<1>2. FrontOpenings(x, t) = FrontOpenings(x, Once(t))
  BY <1>1, OnceSameBegin, SameFront
<1>3. /\ Count(Joined(x, t)) = Cardinality(FrontOpenings(x, t)) + Count(t)
      /\ Count(Joined(x, Once(t))) = Cardinality(FrontOpenings(x, t)) + Count(Once(t))
  BY <1>1, <1>2, CountBehind
<1>4. Cardinality(FrontOpenings(x, t)) \in Nat /\ Count(t) \in Nat /\ Count(Once(t)) \in Nat
  BY <1>1, FrontFinite, OpeningsFinite
<1>5. Count(Once(t)) <= Count(t)
  BY DEF Fewer
<1>6. Count(Joined(x, Once(t))) <= Count(Joined(x, t))
  BY <1>3, <1>4, <1>5
<1>7. ASSUME Joined(x, Once(t)) # Joined(x, t)
      PROVE  Count(Joined(x, Once(t))) < Count(Joined(x, t))
  <2>1. Once(t) # t
    BY <1>7
  <2>2. Count(Once(t)) < Count(t)
    BY <2>1 DEF Fewer
  <2> QED BY <1>3, <1>4, <2>2
<1> QED BY <1>6, <1>7

\* A round leaves no more URLs that are not masked, and fewer if it changes the
\* text (redactURLCreds).
LEMMA OnceFewer ==
  ASSUME NEW s \in Text
  PROVE  Fewer(s)
<1> DEFINE C == {z \in Text : ~Fewer(z)}
<1> SUFFICES ASSUME C # {} PROVE FALSE
  OBVIOUS
<1>1. PICK z \in C : \A h \in C : Len(z) <= Len(h)
  <2>1. C \in SUBSET Seq(Char)
    BY DEF Text
  <2> HIDE DEF C
  <2> QED BY <2>1, ShortestText
<1>2. z \in Text /\ ~Fewer(z)
  BY <1>1
<1>3. \A u \in Text : Len(u) < Len(z) => Fewer(u)
  <2> SUFFICES ASSUME NEW u \in Text, Len(u) < Len(z), u \in C PROVE FALSE
    OBVIOUS
  <2>1. Len(u) \in Nat /\ Len(z) \in Nat
    <3>1. z \in Seq(Char) /\ u \in Seq(Char)
      BY <1>2 DEF Text
    <3> HIDE DEF C
    <3> QED BY <3>1
  <2>2. Len(z) <= Len(u)
    BY <1>1
  <2> HIDE DEF C
  <2> QED BY <2>1, <2>2
<1> HIDE DEF C
<1>4. CASE z = <<>>
  <2>1. Once(z) = z
    BY <1>4, OnceNothing
  <2>2. Count(z) \in Nat
    BY <1>2, OpeningsFinite
  <2> QED BY <1>2, <2>1, <2>2 DEF Fewer
<1>5. CASE \E c, t : BeginsWithChar(z, c, t)
  <2>1. PICK c, t : BeginsWithChar(z, c, t)
    BY <1>5
  <2>2. /\ Once(z) = Joined(Alone(c), Once(t)) /\ t \in Text /\ c \in Char
        /\ z = Joined(Alone(c), t) /\ Len(t) < Len(z)
    BY <2>1, OnceOfChar DEF BeginsWithChar
  <2>3. Fewer(t)
    BY <1>3, <2>2
  <2>4. Alone(c) \in Text
    BY <2>2, AloneIs
  <2> QED BY <1>2, <2>2, <2>3, <2>4, FewerBehind DEF Fewer
<1>6. CASE \E a, t : BeginsWithURL(z, a, t)
  <2>1. PICK a, t : BeginsWithURL(z, a, t)
    BY <1>6
  <2>2. /\ Once(z) = Joined(a, Once(t)) /\ t \in Text /\ a \in Text
        /\ z = Joined(a, t) /\ Len(t) < Len(z)
    BY <2>1, OnceOfURL DEF BeginsWithURL
  <2>3. Fewer(t)
    BY <1>3, <2>2
  <2> QED BY <1>2, <2>2, <2>3, FewerBehind DEF Fewer
<1>7. CASE \E x, y, t : BeginsWithUser(z, x, y, t)
  <2>1. PICK x, y, t : BeginsWithUser(z, x, y, t)
    BY <1>7
  <2>2. /\ Once(z) = Joined(Joined(SchemeMask, y), Once(t)) /\ t \in Text /\ Once(t) \in Text
        /\ x \in Text /\ y \in Text /\ z = Joined(Joined(x, y), t)
        /\ URL(Joined(x, y), t) /\ User(x, y) /\ Len(t) < Len(z)
    BY <2>1, OnceOfUser DEF BeginsWithUser
  <2>3. Fewer(t)
    BY <1>3, <2>2
  <2>4. Count(Joined(y, Once(t))) <= Count(Joined(y, t))
    BY <2>2, <2>3, FewerBehind
  <2>5. /\ Joined(y, t) \in Text /\ Joined(y, Once(t)) \in Text
        /\ Once(z) = Joined(SchemeMask, Joined(y, Once(t)))
    BY <2>2, MaskedIs
  <2>6. z = Joined(x, Joined(y, t))
    <3>1. x \in Seq(Char) /\ y \in Seq(Char) /\ t \in Seq(Char)
      BY <2>2 DEF Text
    <3>2. Joined(Joined(x, y), t) = Joined(x, Joined(y, t))
      BY <3>1, Assoc
    <3> QED BY <2>2, <3>2
  <2>7. Count(z) = Cardinality(FrontOpenings(x, Joined(y, t))) + Count(Joined(y, t))
    BY <2>2, <2>5, <2>6, CountBehind
  <2>8. Count(Once(z)) = Cardinality(FrontOpenings(SchemeMask, Joined(y, Once(t))))
                           + Count(Joined(y, Once(t)))
    BY <2>5, SchemeMaskIs, CountBehind
  <2>9. Cardinality(FrontOpenings(SchemeMask, Joined(y, Once(t)))) = 0
    BY <2>5, MaskedFront, FS_EmptySet
  <2>10. Cardinality(FrontOpenings(x, Joined(y, t))) >= 1
    BY <2>2, UserFront
  <2>11. /\ Cardinality(FrontOpenings(x, Joined(y, t))) \in Nat
         /\ Count(Joined(y, t)) \in Nat /\ Count(Joined(y, Once(t))) \in Nat
    BY <2>2, <2>5, FrontFinite, OpeningsFinite
  <2>12. Count(Once(z)) < Count(z) /\ Count(Once(z)) <= Count(z)
    BY <2>4, <2>7, <2>8, <2>9, <2>10, <2>11
  <2> QED BY <1>2, <2>12 DEF Fewer
<1> QED BY <1>2, <1>4, <1>5, <1>6, <1>7, Beginning

\* The bound of the rounds is above the number of URLs that are not masked.
LEMMA BoundIsEnough ==
  ASSUME NEW s \in Text
  PROVE  Bound(s) \in Nat /\ Count(s) + 1 <= Bound(s)
<1>1. Len(s) \in Nat
  BY DEF Text
<1>2. IsFiniteSet(1 .. Len(s))
  BY <1>1, FS_Interval
<1>3. Places(s, Scheme, 1) \in SUBSET (1 .. Len(s))
  BY DEF Places
<1>4. IsFiniteSet(Places(s, Scheme, 1))
  BY <1>2, <1>3, FS_Subset
<1>5. Cardinality(Places(s, Scheme, 1)) \in Nat
  BY <1>4, FS_CardinalityType
<1>6. Openings(s) \in SUBSET Places(s, Scheme, 1)
  <2> SUFFICES ASSUME NEW i \in Openings(s) PROVE i \in Places(s, Scheme, 1)
    OBVIOUS
  <2>1. i \in 1 .. Len(s) /\ SchemeAt(s, i)
    BY DEF Openings, Unmasked
  <2>2. i \in Nat \ {0}
    BY <2>1
  <2>3. Matches(s, Scheme, i)
    BY <2>1, <2>2, SchemeIs
  <2> QED BY <2>1, <2>3 DEF Places
<1>7. Cardinality(Openings(s)) <= Cardinality(Places(s, Scheme, 1))
  BY <1>4, <1>6, FS_Subset
<1>8. Cardinality(Openings(s)) \in Nat
  BY OpeningsFinite DEF Count
<1> QED BY <1>5, <1>7, <1>8 DEF Bound, Count

-----------------------------------------------------------------------------
(***************************************************************************)
(* A blank ends a URL: the pass over the URLs goes over what stands before *)
(* a blank and over what begins with it as over two texts.                 *)
(***************************************************************************)
LEMMA Regrouped ==
  ASSUME NEW x \in Text, NEW y \in Text, NEW z \in Text
  PROVE  /\ Joined(Joined(x, y), z) = Joined(x, Joined(y, z))
         /\ Joined(<<>>, x) = x /\ Joined(x, <<>>) = x
         /\ Joined(x, y) \in Text /\ Joined(y, z) \in Text
<1>1. x \in Seq(Char) /\ y \in Seq(Char) /\ z \in Seq(Char)
  BY DEF Text
<1>2. Joined(x, y) \in Text /\ Joined(y, z) \in Text
  BY TextJoined
<1> QED BY <1>1, <1>2, Assoc, JoinedNothing

\* Behind the same beginning stands the same.
LEMMA SameRest ==
  ASSUME NEW x \in Text, NEW y \in Text, NEW z \in Text, Joined(x, y) = Joined(x, z)
  PROVE  y = z
<1>1. /\ Len(Joined(x, y)) = Len(x) + Len(y)
      /\ \A i \in 1 .. Len(y) : Joined(x, y)[Len(x) + i] = y[i]
  BY TextJoined
<1>2. /\ Len(Joined(x, z)) = Len(x) + Len(z)
      /\ \A i \in 1 .. Len(z) : Joined(x, z)[Len(x) + i] = z[i]
  BY TextJoined
<1>3. Len(x) \in Nat /\ Len(y) \in Nat /\ Len(z) \in Nat
  BY TextLength
<1>4. Len(x) + Len(y) = Len(x) + Len(z)
  BY <1>1, <1>2
<1>5. Len(y) = Len(z)
  BY <1>3, <1>4
<1>6. \A i \in 1 .. Len(y) : y[i] = z[i]
  BY <1>1, <1>2, <1>5
<1>7. y \in Seq(Char) /\ z \in Seq(Char)
  BY DEF Text
<1> QED BY <1>5, <1>6, <1>7, SameText

Blank(u) == u = <<>> \/ u[1] = " " \/ u[1] = "lf"
BlankIn(c) == c = " " \/ c = "lf"

LEMMA BlankAhead ==
  ASSUME NEW x \in Text, NEW u \in Text, u # <<>>, Blank(u)
  PROVE  /\ Len(x) + 1 \in 1 .. Len(Joined(x, u)) /\ BlankIn(Joined(x, u)[Len(x) + 1])
         /\ Len(x) \in Nat /\ Len(Joined(x, u)) = Len(x) + Len(u) /\ Len(u) \in Nat \ {0}
<1>1. /\ Len(Joined(x, u)) = Len(x) + Len(u)
      /\ \A i \in 1 .. Len(u) : Joined(x, u)[Len(x) + i] = u[i]
  BY TextJoined
<1>2. Len(x) \in Nat /\ Len(u) \in Nat \ {0} /\ 1 \in 1 .. Len(u)
  BY TextLength
<1>3. Len(Joined(x, u)) = Len(x) + Len(u)
  BY <1>1
<1>4. Len(x) + 1 \in 1 .. Len(Joined(x, u))
  BY <1>2, <1>3
<1>5. Joined(x, u)[Len(x) + 1] = u[1]
  BY <1>1, <1>2
<1>6. u[1] = " " \/ u[1] = "lf"
  BY DEF Blank
<1> QED BY <1>2, <1>3, <1>4, <1>5, <1>6 DEF BlankIn

\* No scheme and no header's name reaches over a blank.
LEMMA NoSchemeOver ==
  ASSUME NEW x \in Text, x # <<>>, NEW u \in Text, Blank(u), ~SchemeAt(x, 1)
  PROVE  ~SchemeAt(Joined(x, u), 1)
<1> DEFINE s == Joined(x, u)
<1> SUFFICES ASSUME SchemeAt(s, 1) PROVE FALSE
  OBVIOUS
<1>1. s[1] = ":" /\ s[1 + 1] = "/" /\ s[1 + 2] = "/" /\ 1 + 2 <= Len(s)
  BY DEF SchemeAt
<1>2. Len(s) = Len(x) + Len(u) /\ \A i \in 1 .. Len(x) : s[i] = x[i]
  BY TextJoined
<1>3. Len(x) \in Nat \ {0} /\ Len(u) \in Nat
  BY TextLength
<1>4. CASE Len(x) >= 3
  <2>1. 1 \in 1 .. Len(x) /\ 1 + 1 \in 1 .. Len(x) /\ 1 + 2 \in 1 .. Len(x) /\ 1 + 2 <= Len(x)
    BY <1>3, <1>4
  <2> HIDE DEF s
  <2> QED BY <1>1, <1>2, <2>1 DEF SchemeAt
<1>5. CASE ~(Len(x) >= 3)
  <2>1. u # <<>>
    <3> SUFFICES ASSUME u = <<>> PROVE FALSE
      OBVIOUS
    <3>1. Len(u) = 0
      OBVIOUS
    <3>2. Len(s) = Len(x) + Len(u) /\ 1 + 2 <= Len(s)
      BY <1>1, <1>2
    <3> HIDE DEF s
    <3> QED BY <1>3, <1>5, <3>1, <3>2
  <2>2. BlankIn(s[Len(x) + 1])
    BY <2>1, BlankAhead
  <2>3. Len(x) + 1 = 1 + 1 \/ Len(x) + 1 = 1 + 2
    BY <1>3, <1>5
  <2>4. BlankIn("/")
    BY <1>1, <2>2, <2>3
  <2> QED BY <2>4 DEF BlankIn
<1> QED BY <1>4, <1>5

LEMMA CharBeforeBlank ==
  ASSUME NEW v, NEW c, NEW t, BeginsWithChar(v, c, t), NEW u \in Text, Blank(u)
  PROVE  /\ Once(Joined(v, u)) = Joined(Alone(c), Once(Joined(t, u)))
         /\ Joined(v, u) = Joined(Alone(c), Joined(t, u))
         /\ Alone(c) \in Text /\ Joined(t, u) \in Text /\ t \in Text
<1>1. v = Joined(Alone(c), t) /\ c \in Char /\ t \in Text /\ ~SchemeAt(v, 1)
  BY DEF BeginsWithChar
<1>2. Alone(c) \in Text /\ Alone(c) # <<>>
  BY <1>1, AloneIs, SingleIs
<1>3. v \in Text /\ v # <<>>
  BY <1>1, <1>2, TextJoined, JoinedIsNotNothing
<1>4. ~SchemeAt(Joined(v, u), 1)
  BY <1>1, <1>3, NoSchemeOver
<1>5. Joined(v, u) = Joined(Alone(c), Joined(t, u)) /\ Joined(t, u) \in Text
  BY <1>1, <1>2, Regrouped
<1>6. ~SchemeAt(Joined(Alone(c), Joined(t, u)), 1)
  BY <1>4, <1>5
<1> QED BY <1>1, <1>2, <1>5, <1>6, OnceChar

LEMMA URLBeforeBlank ==
  ASSUME NEW a, NEW t, URL(a, t), NEW u \in Text, Blank(u)
  PROVE  /\ URL(a, Joined(t, u)) /\ Joined(Joined(a, t), u) = Joined(a, Joined(t, u))
         /\ a \in Text /\ t \in Text /\ Joined(t, u) \in Text
<1>1. a \in Text /\ t \in Text
  BY DEF URL
<1>2. Joined(Joined(a, t), u) = Joined(a, Joined(t, u)) /\ Joined(t, u) \in Text
  BY <1>1, Regrouped
<1>3. ASSUME Joined(t, u) # <<>> PROVE Joined(t, u)[1] \in Terminators
  <2>1. CASE t = <<>>
    <3>1. Joined(t, u) = u
      BY <1>1, <2>1, Regrouped
    <3>2. u[1] = " " \/ u[1] = "lf"
      BY <1>3, <3>1 DEF Blank
    <3> QED BY <3>1, <3>2 DEF Terminators
  <2>2. CASE t # <<>>
    <3>1. Joined(t, u)[1] = t[1]
      BY <1>1, <2>2, FirstOfJoined
    <3> QED BY <2>2, <3>1 DEF URL
  <2> QED BY <2>1, <2>2
<1> QED BY <1>1, <1>2, <1>3 DEF URL

\* A URL with a user does not stay as it is.
LEMMA UserChanges ==
  ASSUME NEW x, NEW y, NEW t, URL(Joined(x, y), t), User(x, y)
  PROVE  Once(Joined(Joined(x, y), t)) # Joined(Joined(x, y), t)
<1> DEFINE a == Joined(x, y)
           s == Joined(a, t)
<1>1. a \in Text /\ t \in Text
  BY DEF URL
<1>2. x \in Text /\ y \in Text /\ Len(x) >= 3 /\ y # <<>>
  BY DEF User
<1>3. 4 \in 4 .. Len(a) /\ 4 \in 1 .. Len(a)
  <2>1. Len(x) \in Nat /\ Len(y) \in Nat \ {0} /\ Len(x) >= 3
    BY <1>2, TextLength
  <2>2. Len(a) = Len(x) + Len(y)
    BY <1>2, TextJoined
  <2> HIDE DEF a
  <2> QED BY <2>1, <2>2
<1>4. s[4] = a[4]
  BY <1>1, <1>3, TextJoined
<1>5. a[4] \notin Terminators
  BY <1>3 DEF URL
<1>6. Once(s) = Joined(SchemeMask, Joined(y, Once(t)))
  <2>1. Once(t) \in Text
    BY <1>1, OnceType
  <2>2. Once(s) = Joined(Joined(SchemeMask, y), Once(t))
    BY OnceUser
  <2> QED BY <1>2, <2>1, <2>2, MaskedIs
<1>7. Joined(SchemeMask, Joined(y, Once(t)))[4] = "M"
  <2>1. SchemeMask \in Text /\ Joined(y, Once(t)) \in Text
    BY <1>1, <1>2, OnceType, TextJoined, SchemeMaskIs
  <2>2. Len(SchemeMask) = 4
    BY SchemeMaskIs
  <2>3. 4 \in 1 .. Len(SchemeMask)
    BY <2>2
  <2>4. Joined(SchemeMask, Joined(y, Once(t)))[4] = SchemeMask[4]
    BY <2>1, <2>3, TextJoined
  <2> QED BY <2>4, SchemeMaskIs
<1>8. "M" \in Terminators
  BY DEF Terminators
<1> QED BY <1>4, <1>5, <1>6, <1>7, <1>8

Apart(v, u) ==
  /\ Once(Joined(v, u)) = Joined(Once(v), Once(u))
  /\ Once(Joined(v, u)) = Joined(v, u) => Once(v) = v /\ Once(u) = u

\* The pass goes over both parts on their own.
LEMMA OnceApart ==
  ASSUME NEW v \in Text, NEW u \in Text, Blank(u)
  PROVE  Apart(v, u)
<1> DEFINE C == {z \in Text : ~Apart(z, u)}
<1> SUFFICES ASSUME C # {} PROVE FALSE
  OBVIOUS
<1>1. PICK z \in C : \A h \in C : Len(z) <= Len(h)
  <2>1. C \in SUBSET Seq(Char)
    BY DEF Text
  <2> HIDE DEF C
  <2> QED BY <2>1, ShortestText
<1>2. z \in Text /\ ~Apart(z, u)
  BY <1>1
<1>3. \A h \in Text : Len(h) < Len(z) => Apart(h, u)
  <2> SUFFICES ASSUME NEW h \in Text, Len(h) < Len(z), h \in C PROVE FALSE
    OBVIOUS
  <2>1. Len(h) \in Nat /\ Len(z) \in Nat
    BY <1>2, TextLength
  <2>2. Len(z) <= Len(h)
    BY <1>1
  <2> HIDE DEF C
  <2> QED BY <2>1, <2>2
<1> HIDE DEF C
<1>9. Once(u) \in Text
  BY OnceType
<1>4. CASE z = <<>>
  <2>1. Once(z) = <<>>
    BY <1>4, OnceNothing
  <2>2. Joined(z, u) = u /\ Joined(Once(z), Once(u)) = Once(u)
    BY <1>4, <1>9, <2>1, Regrouped
  <2> QED BY <1>2, <1>4, <2>1, <2>2 DEF Apart
<1>5. CASE \E c, t : BeginsWithChar(z, c, t)
  <2>1. PICK c, t : BeginsWithChar(z, c, t)
    BY <1>5
  <2> DEFINE x == Alone(c)
  <2>2. /\ Once(z) = Joined(x, Once(t)) /\ t \in Text /\ Once(t) \in Text
        /\ z = Joined(x, t) /\ Len(t) < Len(z)
    BY <2>1, OnceOfChar DEF BeginsWithChar
  <2>3. /\ Once(Joined(z, u)) = Joined(x, Once(Joined(t, u))) /\ Joined(z, u) = Joined(x, Joined(t, u))
        /\ x \in Text /\ Joined(t, u) \in Text
    BY <2>1, CharBeforeBlank
  <2> HIDE DEF x
  <2>4. Apart(t, u)
    BY <1>3, <2>2
  <2>5. Once(Joined(z, u)) = Joined(Once(z), Once(u))
    <3>1. Joined(x, Joined(Once(t), Once(u))) = Joined(Joined(x, Once(t)), Once(u))
      BY <1>9, <2>2, <2>3, Regrouped
    <3> QED BY <2>2, <2>3, <2>4, <3>1 DEF Apart
  <2>6. ASSUME Once(Joined(z, u)) = Joined(z, u) PROVE Once(z) = z /\ Once(u) = u
    <3>1. Once(Joined(t, u)) = Joined(t, u)
      BY <2>3, <2>6, OnceType, SameRest
    <3>2. Once(t) = t /\ Once(u) = u
      BY <2>4, <3>1 DEF Apart
    <3> QED BY <2>2, <3>2
  <2> QED BY <1>2, <2>5, <2>6 DEF Apart
<1>6. CASE \E a, t : BeginsWithURL(z, a, t)
  <2>1. PICK a, t : BeginsWithURL(z, a, t)
    BY <1>6
  <2>2. /\ Once(z) = Joined(a, Once(t)) /\ t \in Text /\ Once(t) \in Text /\ a \in Text
        /\ z = Joined(a, t) /\ Len(t) < Len(z) /\ URL(a, t) /\ NoUser(a)
    BY <2>1, OnceOfURL DEF BeginsWithURL
  <2>3. /\ URL(a, Joined(t, u)) /\ Joined(z, u) = Joined(a, Joined(t, u))
        /\ Joined(t, u) \in Text
    BY <2>2, URLBeforeBlank
  <2>7. Once(Joined(z, u)) = Joined(a, Once(Joined(t, u)))
    BY <2>2, <2>3, OncePlain
  <2>4. Apart(t, u)
    BY <1>3, <2>2
  <2>5. Once(Joined(z, u)) = Joined(Once(z), Once(u))
    <3>1. Joined(a, Joined(Once(t), Once(u))) = Joined(Joined(a, Once(t)), Once(u))
      BY <1>9, <2>2, <2>3, Regrouped
    <3> QED BY <2>2, <2>7, <2>4, <3>1 DEF Apart
  <2>6. ASSUME Once(Joined(z, u)) = Joined(z, u) PROVE Once(z) = z /\ Once(u) = u
    <3>3. Joined(a, Once(Joined(t, u))) = Joined(a, Joined(t, u))
      BY <2>3, <2>6, <2>7
    <3>4. Once(Joined(t, u)) \in Text /\ a \in Text /\ Joined(t, u) \in Text
      BY <2>2, <2>3, OnceType
    <3>1. Once(Joined(t, u)) = Joined(t, u)
      BY <3>3, <3>4, SameRest
    <3>2. Once(t) = t /\ Once(u) = u
      BY <2>4, <3>1 DEF Apart
    <3> QED BY <2>2, <3>2
  <2> QED BY <1>2, <2>5, <2>6 DEF Apart
<1>7. CASE \E x, y, t : BeginsWithUser(z, x, y, t)
  <2>1. PICK x, y, t : BeginsWithUser(z, x, y, t)
    BY <1>7
  <2>2. /\ Once(z) = Joined(Joined(SchemeMask, y), Once(t)) /\ t \in Text /\ Once(t) \in Text
        /\ x \in Text /\ y \in Text /\ z = Joined(Joined(x, y), t)
        /\ URL(Joined(x, y), t) /\ User(x, y) /\ Len(t) < Len(z)
    BY <2>1, OnceOfUser DEF BeginsWithUser
  <2>3. /\ URL(Joined(x, y), Joined(t, u)) /\ Joined(z, u) = Joined(Joined(x, y), Joined(t, u))
        /\ Joined(t, u) \in Text
    BY <2>2, URLBeforeBlank
  <2>7. Once(Joined(z, u)) = Joined(Joined(SchemeMask, y), Once(Joined(t, u)))
    BY <2>2, <2>3, OnceUser
  <2>4. Apart(t, u)
    BY <1>3, <2>2
  <2>5. Once(Joined(z, u)) = Joined(Once(z), Once(u))
    <3>1. Joined(SchemeMask, y) \in Text
      BY <2>2, SchemeMaskIs, TextJoined
    <3>2. Joined(Joined(SchemeMask, y), Joined(Once(t), Once(u)))
            = Joined(Joined(Joined(SchemeMask, y), Once(t)), Once(u))
      BY <1>9, <2>2, <3>1, Regrouped
    <3> QED BY <2>2, <2>7, <2>4, <3>2 DEF Apart
  <2>6. Once(Joined(z, u)) # Joined(z, u)
    BY <2>2, <2>3, UserChanges
  <2> QED BY <1>2, <2>5, <2>6 DEF Apart
<1> QED BY <1>2, <1>4, <1>5, <1>6, <1>7, Beginning

-----------------------------------------------------------------------------
(***************************************************************************)
(* The pass over the headers.                                              *)
(***************************************************************************)
HeaderMask == Joined(AuthHeader, Mask)
HeaderStep(s) ==
  [i \in 1 .. Len(s) |->
    IF Matches(s, AuthHeader, i) THEN Step(HeaderMask, LineEnd(s, i + 3)) ELSE Copy(s, i)]
Header(s) == redactHeaderAuth(s)

LEMMA HeaderPassIs ==
  ASSUME NEW s
  PROVE  Header(s) = Rewrite(Len(s), HeaderStep(s))
BY DEF Header, redactHeaderAuth, HeaderStep, HeaderMask, Joined

LEMMA HeaderMaskIs ==
  /\ HeaderMask \in Text /\ Len(HeaderMask) = 4 /\ HeaderMask # <<>>
  /\ HeaderMask[1] = "A" /\ HeaderMask[2] = ":" /\ HeaderMask[3] = " " /\ HeaderMask[4] = "M"
<1>1. AuthHeader \in Text /\ Mask \in Text
  BY PatternTypes
<1>2. Len(AuthHeader) = 3 /\ Len(Mask) = 1
  BY PatternTypes DEF Single
<1>3. /\ HeaderMask \in Text /\ Len(HeaderMask) = Len(AuthHeader) + Len(Mask)
      /\ (\A i \in 1 .. Len(AuthHeader) : HeaderMask[i] = AuthHeader[i])
      /\ \A i \in 1 .. Len(Mask) : HeaderMask[Len(AuthHeader) + i] = Mask[i]
  BY <1>1, TextJoined DEF HeaderMask
<1>4. Len(HeaderMask) = 4 /\ Len(AuthHeader) + 1 = 4
  <2>1. Len(HeaderMask) = Len(AuthHeader) + Len(Mask)
    BY <1>3
  <2> QED BY <1>2, <2>1
<1>5. /\ 1 \in 1 .. Len(AuthHeader) /\ 2 \in 1 .. Len(AuthHeader) /\ 3 \in 1 .. Len(AuthHeader)
      /\ 1 \in 1 .. Len(Mask)
  BY <1>2
<1>6. HeaderMask[1] = "A" /\ HeaderMask[2] = ":" /\ HeaderMask[3] = " "
  BY <1>3, <1>5, PatternTypes
<1>7. HeaderMask[Len(AuthHeader) + 1] = "M"
  BY <1>3, <1>5, PatternTypes
<1>8. HeaderMask[4] = "M"
  BY <1>4, <1>7
<1>9. HeaderMask # <<>>
  BY <1>3, <1>4, NotNothing
<1> QED BY <1>3, <1>4, <1>6, <1>8, <1>9

LEMMA LineFacts ==
  ASSUME NEW s \in Text, NEW i \in 1 .. Len(s) + 1
  PROVE  /\ LineEnd(s, i) \in i .. Len(s) + 1
         /\ \A j \in i .. LineEnd(s, i) - 1 : s[j] # "lf"
         /\ LineEnd(s, i) <= Len(s) => s[LineEnd(s, i)] = "lf"
<1>1. s \in Seq(Char)
  BY DEF Text
<1> QED BY <1>1, EndAtFacts DEF LineEnd

LEMMA LineIs ==
  ASSUME NEW s \in Text, NEW i \in 1 .. Len(s) + 1, NEW e \in i .. Len(s) + 1,
         \A j \in i .. e - 1 : s[j] # "lf", e <= Len(s) => s[e] = "lf"
  PROVE  LineEnd(s, i) = e
<1>1. s \in Seq(Char)
  BY DEF Text
<1>2. \A j \in i .. e - 1 : s[j] \notin {"lf"}
  OBVIOUS
<1>3. e <= Len(s) => s[e] \in {"lf"}
  OBVIOUS
<1> QED BY <1>1, <1>2, <1>3, EndAtIs DEF LineEnd

LEMMA LineBehind ==
  ASSUME NEW x \in Text, NEW t \in Text, NEW i \in 1 .. Len(t) + 1
  PROVE  LineEnd(Joined(x, t), Len(x) + i) = Len(x) + LineEnd(t, i)
<1>1. x \in Seq(Char) /\ t \in Seq(Char)
  BY DEF Text
<1> QED BY <1>1, EndBehind DEF LineEnd

LEMMA HeaderPass ==
  ASSUME NEW s \in Text
  PROVE  IsPass(Len(s), HeaderStep(s), Char)
<1> SUFFICES ASSUME NEW i \in 1 .. Len(s)
             PROVE  /\ HeaderStep(s)[i].write \in Seq(Char)
                    /\ HeaderStep(s)[i].goto \in i + 1 .. Len(s) + 1
  BY DEF IsPass
<1>1. s \in Seq(Char) /\ Len(s) \in Nat
  BY DEF Text
<1>2. CASE Matches(s, AuthHeader, i)
  <2>1. HeaderStep(s)[i].write = HeaderMask /\ HeaderStep(s)[i].goto = LineEnd(s, i + 3)
    BY <1>2 DEF HeaderStep, Step
  <2>6. HeaderAt(s, i)
    BY <1>2, HeaderIs
  <2>2. i + 2 <= Len(s)
    BY <2>6 DEF HeaderAt
  <2>3. i + 3 \in 1 .. Len(s) + 1
    BY <1>1, <2>2
  <2> DEFINE e == LineEnd(s, i + 3)
  <2>4. e \in i + 3 .. Len(s) + 1
    BY <2>3, LineFacts
  <2> HIDE DEF e
  <2>5. e \in i + 1 .. Len(s) + 1
    BY <1>1, <2>4
  <2> QED BY <2>1, <2>5, HeaderMaskIs DEF e, Text
<1>3. CASE ~Matches(s, AuthHeader, i)
  <2>1. HeaderStep(s)[i].write = <<s[i]>> /\ HeaderStep(s)[i].goto = i + 1
    BY <1>3 DEF HeaderStep, Step, Copy
  <2>2. s[i] \in Char /\ i + 1 \in i + 1 .. Len(s) + 1
    BY <1>1
  <2> QED BY <2>1, <2>2
<1> QED BY <1>2, <1>3

LEMMA HeaderNameBehind ==
  ASSUME NEW x \in Text, NEW t \in Text, NEW i \in Nat \ {0}
  PROVE  /\ HeaderAt(t, i) => HeaderAt(Joined(x, t), Len(x) + i)
         /\ HeaderAt(Joined(x, t), Len(x) + i) => HeaderAt(t, i)
<1>1. x \in Seq(Char) /\ t \in Seq(Char) /\ AuthHeader \in Seq(Char) /\ Len(x) \in Nat
  <2>1. AuthHeader \in Text
    BY PatternTypes
  <2> QED BY <2>1 DEF Text
<1>2. Joined(x, t) \in Text
  BY TextJoined
<1>3. Len(x) + i \in Nat \ {0}
  BY <1>1
<1>4. /\ Matches(t, AuthHeader, i) => Matches(Joined(x, t), AuthHeader, Len(x) + i)
      /\ Matches(Joined(x, t), AuthHeader, Len(x) + i) => Matches(t, AuthHeader, i)
  BY <1>1, MatchBehind
<1> QED BY <1>2, <1>3, <1>4, HeaderIs

\* The pass over the headers behind another text.
LEMMA HeaderBehind ==
  ASSUME NEW x \in Text, NEW t \in Text
  PROVE  Behind(Len(x), Len(t), HeaderStep(t), HeaderStep(Joined(x, t)))
<1> DEFINE s == Joined(x, t)
<1>2. s \in Text /\ Len(s) = Len(x) + Len(t) /\ \A i \in 1 .. Len(t) : s[Len(x) + i] = t[i]
  BY TextJoined
<1> SUFFICES ASSUME NEW i \in 1 .. Len(t)
             PROVE  /\ HeaderStep(s)[Len(x) + i].write = HeaderStep(t)[i].write
                    /\ HeaderStep(s)[Len(x) + i].goto = Len(x) + HeaderStep(t)[i].goto
  BY DEF Behind
<1> HIDE DEF s
<1> DEFINE j == Len(x) + i
<1>1. Len(x) \in Nat /\ Len(t) \in Nat
  BY TextLength
<1>3. j \in 1 .. Len(s) /\ j \in Nat \ {0} /\ i \in Nat \ {0} /\ j + 1 = Len(x) + (i + 1)
      /\ j + 3 = Len(x) + (i + 3)
  <2>1. Len(s) = Len(x) + Len(t)
    BY <1>2
  <2> QED BY <1>1, <2>1
<1>4. s[j] = t[i]
  BY <1>2
<1>5. /\ HeaderAt(t, i) => HeaderAt(s, j)
      /\ HeaderAt(s, j) => HeaderAt(t, i)
  BY <1>3, HeaderNameBehind DEF s
<1>6. HeaderAt(t, i) => LineEnd(s, Len(x) + (i + 3)) = Len(x) + LineEnd(t, i + 3)
  <2> SUFFICES ASSUME HeaderAt(t, i)
               PROVE  LineEnd(s, Len(x) + (i + 3)) = Len(x) + LineEnd(t, i + 3)
    OBVIOUS
  <2>1. i + 2 <= Len(t)
    BY DEF HeaderAt
  <2>2. i + 3 \in 1 .. Len(t) + 1
    BY <1>1, <2>1
  <2> QED BY <2>2, LineBehind DEF s
<1> HIDE DEF j
<1>7. CASE HeaderAt(t, i)
  <2>1. Matches(s, AuthHeader, j) /\ Matches(t, AuthHeader, i)
    BY <1>2, <1>3, <1>5, <1>7, HeaderIs
  <2>2. /\ HeaderStep(s)[j] = Step(HeaderMask, LineEnd(s, j + 3))
        /\ HeaderStep(t)[i] = Step(HeaderMask, LineEnd(t, i + 3))
    BY <1>3, <2>1 DEF HeaderStep
  <2>3. HeaderStep(s)[j] = Step(HeaderMask, Len(x) + LineEnd(t, i + 3))
    BY <1>3, <1>6, <1>7, <2>2
  <2> QED BY <2>2, <2>3 DEF Step, j
<1>8. CASE ~HeaderAt(t, i)
  <2>1. ~Matches(s, AuthHeader, j) /\ ~Matches(t, AuthHeader, i)
    BY <1>2, <1>3, <1>5, <1>8, HeaderIs
  <2>2. HeaderStep(s)[j] = Step(<<s[j]>>, j + 1) /\ HeaderStep(t)[i] = Step(<<t[i]>>, i + 1)
    BY <1>3, <2>1 DEF HeaderStep, Copy
  <2>3. HeaderStep(s)[j] = Step(<<t[i]>>, Len(x) + (i + 1))
    BY <1>3, <1>4, <2>2
  <2> QED BY <2>2, <2>3 DEF Step, j
<1> QED BY <1>7, <1>8

LEMMA HeaderType ==
  ASSUME NEW s \in Text
  PROVE  Header(s) \in Text
<1>1. Len(s) \in Nat
  BY DEF Text
<1>2. Rewrite(Len(s), HeaderStep(s)) \in Seq(Char)
  BY <1>1, HeaderPass, RewriteType
<1> QED BY <1>2, HeaderPassIs DEF Text

LEMMA HeaderNothing == Header(<<>>) = <<>>
<1>1. Len(<<>>) = 0
  OBVIOUS
<1> QED BY <1>1, HeaderPassIs, RewriteNothing

LEMMA HeaderSplit ==
  ASSUME NEW x \in Text, x # <<>>, NEW t \in Text, NEW w,
         HeaderStep(Joined(x, t))[1].write = w, HeaderStep(Joined(x, t))[1].goto = Len(x) + 1
  PROVE  Header(Joined(x, t)) = Joined(w, Header(t))
<1> DEFINE s == Joined(x, t)
           step == HeaderStep(t)
           other == HeaderStep(s)
<1>2. Len(x) \in Nat \ {0} /\ Len(t) \in Nat
  BY TextLength
<1>3. Len(s) = Len(x) + Len(t) /\ s \in Text
  BY TextJoined
<1>4. IsPass(Len(t), step, Char) /\ IsPass(Len(s), other, Char) /\ Behind(Len(x), Len(t), step, other)
  BY <1>3, HeaderPass, HeaderBehind
<1>5. other[1].write = w /\ other[1].goto = Len(x) + 1
  OBVIOUS
<1> HIDE DEF step, other, s
<1>6. Len(s) \in Nat
  BY <1>2, <1>3
<1>7. Rewrite(Len(s), other) = Joined(w, Rewrite(Len(t), step))
  BY <1>2, <1>3, <1>4, <1>5, <1>6, RewriteSplit
<1> QED BY <1>7, HeaderPassIs DEF step, other, s

LEMMA HeaderChar ==
  ASSUME NEW c \in Char, NEW t \in Text, ~HeaderAt(Joined(Alone(c), t), 1)
  PROVE  Header(Joined(Alone(c), t)) = Joined(Alone(c), Header(t))
<1> DEFINE x == Alone(c)
           s == Joined(x, t)
<1>1. x \in Text /\ Single(x) /\ x # <<>> /\ x[1] = c
  BY AloneIs, SingleIs
<1>2. s \in Text /\ s # <<>> /\ s[1] = c
  BY <1>1, SingleBefore
<1>3. 1 \in 1 .. Len(s)
  BY <1>2, TextLength
<1>4. ~Matches(s, AuthHeader, 1)
  <2>1. 1 \in Nat \ {0}
    OBVIOUS
  <2> QED BY <1>2, <2>1, HeaderIs
<1>5. HeaderStep(s)[1] = Step(<<s[1]>>, 1 + 1)
  BY <1>3, <1>4 DEF HeaderStep, Copy
<1>6. HeaderStep(s)[1].write = Alone(c) /\ HeaderStep(s)[1].goto = 1 + 1
  BY <1>2, <1>5 DEF Step, Alone
<1>7. Len(x) = 1
  BY <1>1 DEF Single
<1> HIDE DEF x
<1>8. HeaderStep(Joined(x, t))[1].write = x /\ HeaderStep(Joined(x, t))[1].goto = Len(x) + 1
  BY <1>6, <1>7 DEF x
<1> QED BY <1>1, <1>8, HeaderSplit DEF x

-----------------------------------------------------------------------------
(***************************************************************************)
(* How a text begins for that pass: with a character that begins no        *)
(* header, or with a header and the rest of its line.                      *)
(***************************************************************************)
LfFree(u) == \A j \in 1 .. Len(u) : u[j] # "lf"
FromLf(t) == t = <<>> \/ t[1] = "lf"
HeaderChars(s, c, t) ==
  s = Joined(Alone(c), t) /\ c \in Char /\ t \in Text /\ ~HeaderAt(s, 1) /\ Len(t) < Len(s)
HeaderLine(s, u, t) ==
  /\ s = Joined(AuthHeader, Joined(u, t)) /\ u \in Text /\ t \in Text
  /\ LfFree(u) /\ FromLf(t) /\ Len(t) < Len(s)

LEMMA HeaderBefore ==
  ASSUME NEW w \in Text
  PROVE  /\ HeaderAt(Joined(AuthHeader, w), 1) /\ Joined(AuthHeader, w) \in Text
         /\ Len(Joined(AuthHeader, w)) = 3 + Len(w)
         /\ \A i \in 1 .. Len(w) : Joined(AuthHeader, w)[3 + i] = w[i]
<1> DEFINE s == Joined(AuthHeader, w)
<1>1. AuthHeader \in Text /\ Len(AuthHeader) = 3
  BY PatternTypes
<1>2. /\ s \in Text /\ Len(s) = Len(AuthHeader) + Len(w)
      /\ (\A i \in 1 .. Len(AuthHeader) : s[i] = AuthHeader[i])
      /\ \A i \in 1 .. Len(w) : s[Len(AuthHeader) + i] = w[i]
  BY <1>1, TextJoined
<1> HIDE DEF s
<1>3. Len(AuthHeader) = 3
  BY <1>1
<1>4. Len(s) = Len(AuthHeader) + Len(w) /\ Len(w) \in Nat
  BY <1>2, TextLength
<1>5. /\ 1 \in 1 .. Len(AuthHeader) /\ 2 \in 1 .. Len(AuthHeader) /\ 3 \in 1 .. Len(AuthHeader)
      /\ 1 + 2 <= Len(s) /\ 1 + 1 = 2 /\ 1 + 2 = 3
  BY <1>3, <1>4
<1>6. s[1] = "A" /\ s[2] = ":" /\ s[3] = " "
  BY <1>2, <1>5, PatternTypes
<1>7. HeaderAt(s, 1)
  BY <1>5, <1>6 DEF HeaderAt
<1>8. \A i \in 1 .. Len(w) : s[3 + i] = w[i]
  BY <1>2, <1>3
<1>9. Len(s) = 3 + Len(w)
  BY <1>3, <1>4
<1> QED BY <1>2, <1>7, <1>8, <1>9 DEF s

LEMMA HeaderLineEnd ==
  ASSUME NEW s, NEW u, NEW t, HeaderLine(s, u, t)
  PROVE  LineEnd(s, 4) = Len(Joined(AuthHeader, u)) + 1
<1> DEFINE w == Joined(u, t)
           e == 3 + Len(u) + 1
<1>1. u \in Text /\ t \in Text /\ s = Joined(AuthHeader, w) /\ LfFree(u) /\ FromLf(t)
  BY DEF HeaderLine
<1>2. /\ w \in Text /\ Len(w) = Len(u) + Len(t) /\ (\A i \in 1 .. Len(u) : w[i] = u[i])
      /\ \A i \in 1 .. Len(t) : w[Len(u) + i] = t[i]
  BY <1>1, TextJoined
<1> HIDE DEF w
<1>3. s \in Text /\ Len(s) = 3 + Len(w) /\ \A i \in 1 .. Len(w) : s[3 + i] = w[i]
  BY <1>1, <1>2, HeaderBefore
<1>4. Len(u) \in Nat /\ Len(t) \in Nat
  BY <1>1, TextLength
<1>5. Len(s) = 3 + Len(w) /\ Len(w) = Len(u) + Len(t)
  BY <1>2, <1>3
<1>6. 4 \in 1 .. Len(s) + 1 /\ e \in 4 .. Len(s) + 1
  BY <1>4, <1>5
<1>7. \A j \in 4 .. e - 1 : s[j] # "lf"
  <2> SUFFICES ASSUME NEW j \in 4 .. e - 1 PROVE s[j] # "lf"
    OBVIOUS
  <2> DEFINE i == j - 3
  <2>1. i \in 1 .. Len(u) /\ i \in 1 .. Len(w) /\ 3 + i = j
    BY <1>4, <1>5
  <2> HIDE DEF i
  <2>2. s[j] = u[i]
    BY <1>2, <1>3, <2>1
  <2> QED BY <1>1, <2>1, <2>2 DEF LfFree
<1>8. e <= Len(s) => s[e] = "lf"
  <2> SUFFICES ASSUME e <= Len(s) PROVE s[e] = "lf"
    OBVIOUS
  <2>1. 1 \in 1 .. Len(t) /\ Len(u) + 1 \in 1 .. Len(w) /\ 3 + (Len(u) + 1) = e /\ Len(t) # 0
    BY <1>4, <1>5
  <2>2. s[e] = t[1]
    BY <1>2, <1>3, <2>1
  <2>3. t # <<>>
    BY <2>1
  <2> QED BY <1>1, <2>2, <2>3 DEF FromLf
<1>9. Len(Joined(AuthHeader, u)) = 3 + Len(u)
  BY <1>1, HeaderBefore
<1> HIDE DEF e
<1>10. LineEnd(s, 4) = e
  BY <1>3, <1>6, <1>7, <1>8, LineIs
<1> QED BY <1>9, <1>10 DEF e

\* A header's line becomes the header and the mask.
LEMMA HeaderOfLine ==
  ASSUME NEW s, NEW u, NEW t, HeaderLine(s, u, t)
  PROVE  /\ Header(s) = Joined(HeaderMask, Header(t)) /\ t \in Text /\ Header(t) \in Text /\ u \in Text
         /\ FromLf(t)
<1> DEFINE x == Joined(AuthHeader, u)
<1>1. u \in Text /\ t \in Text /\ s = Joined(AuthHeader, Joined(u, t)) /\ FromLf(t)
  BY DEF HeaderLine
<1>2. x \in Text /\ AuthHeader \in Text /\ Joined(u, t) \in Text
  BY <1>1, TextJoined, PatternTypes
<1>3. s = Joined(x, t)
  BY <1>1, <1>2, Regrouped
<1>4. x # <<>> /\ s # <<>>
  <2>1. AuthHeader # <<>>
    <3>1. HeaderAt(Joined(AuthHeader, u), 1) /\ Len(AuthHeader) = 3
      BY <1>1, HeaderBefore, PatternTypes
    <3>2. Len(AuthHeader) # 0
      BY <3>1
    <3> QED BY <3>2
  <2>2. x # <<>>
    BY <1>1, <1>2, <2>1, JoinedIsNotNothing
  <2> HIDE DEF x
  <2> QED BY <1>1, <1>2, <1>3, <2>2, JoinedIsNotNothing
<1>5. s \in Text /\ HeaderAt(s, 1)
  BY <1>1, <1>2, HeaderBefore
<1>6. 1 \in 1 .. Len(s)
  BY <1>4, <1>5, TextLength
<1>7. Matches(s, AuthHeader, 1)
  <2>1. 1 \in Nat \ {0}
    OBVIOUS
  <2> QED BY <1>5, <2>1, HeaderIs
<1>8. HeaderStep(s)[1] = Step(HeaderMask, LineEnd(s, 1 + 3))
  BY <1>6, <1>7 DEF HeaderStep
<1>9. LineEnd(s, 1 + 3) = Len(x) + 1
  <2>1. 1 + 3 = 4
    OBVIOUS
  <2> QED BY <2>1, HeaderLineEnd
<1>10. HeaderStep(s)[1].write = HeaderMask /\ HeaderStep(s)[1].goto = Len(x) + 1
  BY <1>8, <1>9 DEF Step
<1> HIDE DEF x
<1>11. Header(s) = Joined(HeaderMask, Header(t))
  BY <1>1, <1>2, <1>3, <1>4, <1>10, HeaderSplit
<1> QED BY <1>1, <1>11, HeaderType

\* A character that begins no header is copied.
LEMMA HeaderOfChar ==
  ASSUME NEW s, NEW c, NEW t, HeaderChars(s, c, t)
  PROVE  /\ Header(s) = Joined(Alone(c), Header(t)) /\ t \in Text /\ Header(t) \in Text /\ c \in Char
         /\ Alone(c) \in Text
BY HeaderChar, HeaderType, AloneIs DEF HeaderChars

\* Every text begins in one of these ways.
LEMMA HeaderBeginning ==
  ASSUME NEW s \in Text, s # <<>>
  PROVE  (\E c, t : HeaderChars(s, c, t)) \/ (\E u, t : HeaderLine(s, u, t))
<1>1. CASE ~HeaderAt(s, 1)
  <2> DEFINE c == s[1]
             t == Tail(s)
  <2>1. s = Joined(Alone(c), t) /\ t \in Text /\ c \in Char
    BY OneAndRest DEF Text, Alone
  <2>2. Len(t) < Len(s)
    <3>1. Len(t) = Len(s) - 1 /\ Len(s) \in Nat \ {0}
      BY OneAndRest DEF Text
    <3> HIDE DEF t
    <3> QED BY <3>1
  <2>3. HeaderChars(s, c, t)
    BY <1>1, <2>1, <2>2 DEF HeaderChars
  <2> QED BY <2>3
<1>2. CASE HeaderAt(s, 1)
  <2> DEFINE w == SubSeq(s, 3 + 1, Len(s))
             h == SubSeq(s, 1, 3)
  <2>1. Len(s) \in Nat /\ 1 + 2 <= Len(s) /\ s[1] = "A" /\ s[1 + 1] = ":" /\ s[1 + 2] = " "
    BY <1>2, TextLength DEF HeaderAt
  <2>2. 3 \in 0 .. Len(s)
    <3>1. Len(s) \in Nat /\ 1 + 2 <= Len(s)
      BY <2>1
    <3> QED BY <3>1
  <2>3. /\ h \in Seq(Char) /\ Len(h) = 3 /\ w \in Seq(Char) /\ Len(w) = Len(s) - 3
        /\ (\A i \in 1 .. 3 : h[i] = s[i]) /\ s = Joined(h, w)
    BY <2>2, Parts DEF Text
  <2> HIDE DEF h, w
  <2>4. h = AuthHeader
    <3>1. AuthHeader \in Seq(Char) /\ Len(AuthHeader) = 3
      BY PatternTypes DEF Text
    <3>2. 1 \in 1 .. 3 /\ 2 \in 1 .. 3 /\ 3 \in 1 .. 3 /\ 1 + 1 = 2 /\ 1 + 2 = 3
          /\ \A i \in 1 .. 3 : i = 1 \/ i = 2 \/ i = 3
      OBVIOUS
    <3>3. h[1] = AuthHeader[1] /\ h[2] = AuthHeader[2] /\ h[3] = AuthHeader[3]
      BY <2>1, <2>3, <3>2, PatternTypes
    <3>4. \A i \in 1 .. Len(h) : h[i] = AuthHeader[i]
      <4>1. Len(h) = 3
        BY <2>3
      <4> QED BY <3>2, <3>3, <4>1
    <3> QED BY <2>3, <3>1, <3>4, SameText
  <2> DEFINE e == LineEnd(w, 1)
             k == e - 1
             u == SubSeq(w, 1, k)
             t == SubSeq(w, k + 1, Len(w))
  <2>5. w \in Text /\ Len(w) \in Nat
    BY <2>3 DEF Text
  <2>6. 1 \in 1 .. Len(w) + 1
    BY <2>5
  <2>7. /\ e \in 1 .. Len(w) + 1 /\ (\A j \in 1 .. e - 1 : w[j] # "lf")
        /\ (e <= Len(w) => w[e] = "lf")
    BY <2>5, <2>6, LineFacts
  <2> HIDE DEF e
  <2>8. k \in 0 .. Len(w) /\ k + 1 = e /\ k \in Nat
    BY <2>5, <2>7
  <2>13. k = e - 1
    OBVIOUS
  <2> HIDE DEF k
  <2>9. /\ u \in Seq(Char) /\ Len(u) = k /\ t \in Seq(Char) /\ Len(t) = Len(w) - k
        /\ (\A i \in 1 .. k : u[i] = w[i]) /\ (\A i \in 1 .. Len(w) - k : t[i] = w[k + i])
        /\ w = Joined(u, t)
    BY <2>5, <2>8, Parts DEF Text
  <2> HIDE DEF u, t
  <2>10. LfFree(u)
    BY <2>7, <2>9, <2>13 DEF LfFree
  <2>11. FromLf(t)
    <3> SUFFICES ASSUME t # <<>> PROVE t[1] = "lf"
      BY DEF FromLf
    <3>1. t \in Text
      BY <2>9 DEF Text
    <3>2. 1 \in 1 .. Len(t) /\ Len(t) \in Nat \ {0}
      BY <3>1, TextLength
    <3>3. Len(t) = Len(w) - k
      BY <2>9
    <3>4. e <= Len(w) /\ 1 \in 1 .. Len(w) - k
      BY <2>5, <2>8, <3>2, <3>3
    <3> QED BY <2>7, <2>8, <2>9, <3>4
  <2>12. Len(t) < Len(s)
    <3>1. Len(t) = Len(w) - k /\ Len(w) = Len(s) - 3
      BY <2>3, <2>9
    <3>2. Len(s) \in Nat
      BY <2>1
    <3> QED BY <2>8, <3>1, <3>2
  <2>14. HeaderLine(s, u, t)
    BY <2>3, <2>4, <2>9, <2>10, <2>11, <2>12 DEF HeaderLine, Text
  <2> QED BY <2>14
<1> QED BY <1>1, <1>2

-----------------------------------------------------------------------------
(***************************************************************************)
(* Lines of the pass over the headers.                                     *)
(***************************************************************************)
LEMMA TextInduction ==
  ASSUME NEW G \in SUBSET Text,
         \A s \in Text : (\A h \in Text : Len(h) < Len(s) => h \in G) => s \in G
  PROVE  G = Text
<1> DEFINE C == {z \in Text : z \notin G}
<1> SUFFICES ASSUME C # {} PROVE FALSE
  OBVIOUS
<1>1. PICK z \in C : \A h \in C : Len(z) <= Len(h)
  <2>1. C \in SUBSET Seq(Char)
    BY DEF Text
  <2> HIDE DEF C
  <2> QED BY <2>1, ShortestText
<1>2. z \in Text /\ z \notin G
  BY <1>1
<1>3. \A h \in Text : Len(h) < Len(z) => h \in G
  <2> SUFFICES ASSUME NEW h \in Text, Len(h) < Len(z), h \in C PROVE FALSE
    OBVIOUS
  <2>1. Len(h) \in Nat /\ Len(z) \in Nat
    BY <1>2, TextLength
  <2>2. Len(z) <= Len(h)
    BY <1>1
  <2> HIDE DEF C
  <2> QED BY <2>1, <2>2
<1> QED BY <1>2, <1>3

\* No header reaches over the end of a line.
LEMMA NoHeaderOver ==
  ASSUME NEW x \in Text, x # <<>>, NEW u \in Text, FromLf(u), ~HeaderAt(x, 1)
  PROVE  ~HeaderAt(Joined(x, u), 1)
<1> DEFINE s == Joined(x, u)
<1> SUFFICES ASSUME HeaderAt(s, 1) PROVE FALSE
  OBVIOUS
<1>1. s[1] = "A" /\ s[1 + 1] = ":" /\ s[1 + 2] = " " /\ 1 + 2 <= Len(s)
  BY DEF HeaderAt
<1>2. /\ Len(s) = Len(x) + Len(u) /\ (\A i \in 1 .. Len(x) : s[i] = x[i])
      /\ \A i \in 1 .. Len(u) : s[Len(x) + i] = u[i]
  BY TextJoined
<1>3. Len(x) \in Nat \ {0} /\ Len(u) \in Nat
  BY TextLength
<1>4. CASE Len(x) >= 3
  <2>1. 1 \in 1 .. Len(x) /\ 1 + 1 \in 1 .. Len(x) /\ 1 + 2 \in 1 .. Len(x) /\ 1 + 2 <= Len(x)
    BY <1>3, <1>4
  <2> HIDE DEF s
  <2> QED BY <1>1, <1>2, <2>1 DEF HeaderAt
<1>5. CASE ~(Len(x) >= 3)
  <2>1. Len(u) # 0
    <3>2. Len(s) = Len(x) + Len(u) /\ 1 + 2 <= Len(s)
      BY <1>1, <1>2
    <3> HIDE DEF s
    <3> QED BY <1>3, <1>5, <3>2
  <2>2. 1 \in 1 .. Len(u)
    BY <1>3, <2>1
  <2>3. u # <<>>
    BY <2>1
  <2>4. s[Len(x) + 1] = "lf"
    BY <1>2, <2>2, <2>3 DEF FromLf
  <2>5. Len(x) + 1 = 1 + 1 \/ Len(x) + 1 = 1 + 2
    BY <1>3, <1>5
  <2> QED BY <1>1, <2>4, <2>5
<1> QED BY <1>4, <1>5

LEMMA FromLfJoined ==
  ASSUME NEW t \in Text, FromLf(t), NEW u \in Text, FromLf(u)
  PROVE  FromLf(Joined(t, u))
<1>1. CASE t = <<>>
  BY <1>1, Regrouped
<1>2. CASE t # <<>>
  BY <1>2, FirstOfJoined DEF FromLf
<1> QED BY <1>1, <1>2

\* The pass goes over what stands before a line's end and over what begins
\* with it as over two texts.
LEMMA HeaderApart ==
  ASSUME NEW v \in Text, NEW u \in Text, FromLf(u)
  PROVE  Header(Joined(v, u)) = Joined(Header(v), Header(u))
<1> DEFINE P(z) == Header(Joined(z, u)) = Joined(Header(z), Header(u))
           G == {z \in Text : P(z)}
<1>9. Header(u) \in Text
  BY HeaderType
<1>1. ASSUME NEW z \in Text, \A h \in Text : Len(h) < Len(z) => P(h)
      PROVE  P(z)
  <2>1. CASE z = <<>>
    BY <1>9, <2>1, HeaderNothing, Regrouped
  <2>2. CASE \E c, t : HeaderChars(z, c, t)
    <3>1. PICK c, t : HeaderChars(z, c, t)
      BY <2>2
    <3> DEFINE x == Alone(c)
    <3>2. /\ Header(z) = Joined(x, Header(t)) /\ t \in Text /\ Header(t) \in Text /\ x \in Text
          /\ c \in Char
      BY <3>1, HeaderOfChar
    <3>3. z = Joined(x, t) /\ Len(t) < Len(z) /\ ~HeaderAt(z, 1)
      BY <3>1 DEF HeaderChars
    <3>4. z # <<>>
      BY <3>2, <3>3, AloneIs, SingleIs, JoinedIsNotNothing
    <3>5. ~HeaderAt(Joined(z, u), 1)
      BY <3>3, <3>4, NoHeaderOver
    <3>6. Joined(z, u) = Joined(x, Joined(t, u)) /\ Joined(t, u) \in Text
      BY <3>2, <3>3, Regrouped
    <3>7. ~HeaderAt(Joined(x, Joined(t, u)), 1)
      BY <3>5, <3>6
    <3>8. Header(Joined(z, u)) = Joined(x, Header(Joined(t, u)))
      BY <3>2, <3>6, <3>7, HeaderChar
    <3>9. Header(Joined(t, u)) = Joined(Header(t), Header(u))
      BY <1>1, <3>2, <3>3
    <3> HIDE DEF x
    <3>10. Joined(x, Joined(Header(t), Header(u))) = Joined(Joined(x, Header(t)), Header(u))
      BY <1>9, <3>2, Regrouped
    <3> QED BY <3>2, <3>8, <3>9, <3>10
  <2>3. CASE \E w, t : HeaderLine(z, w, t)
    <3>1. PICK w, t : HeaderLine(z, w, t)
      BY <2>3
    <3>2. /\ Header(z) = Joined(HeaderMask, Header(t)) /\ t \in Text /\ Header(t) \in Text /\ w \in Text
          /\ FromLf(t)
      BY <3>1, HeaderOfLine
    <3>3. z = Joined(AuthHeader, Joined(w, t)) /\ LfFree(w) /\ Len(t) < Len(z)
      BY <3>1 DEF HeaderLine
    <3>4. AuthHeader \in Text /\ HeaderMask \in Text /\ Joined(w, t) \in Text /\ Joined(t, u) \in Text
      BY <3>2, PatternTypes, HeaderMaskIs, TextJoined
    <3>5. Joined(z, u) = Joined(AuthHeader, Joined(w, Joined(t, u)))
      <4>1. Joined(Joined(AuthHeader, Joined(w, t)), u) = Joined(AuthHeader, Joined(Joined(w, t), u))
        BY <3>4, Regrouped
      <4>2. Joined(Joined(w, t), u) = Joined(w, Joined(t, u))
        BY <3>2, Regrouped
      <4> QED BY <3>3, <4>1, <4>2
    <3>6. FromLf(Joined(t, u))
      BY <3>2, FromLfJoined
    <3>7. Len(Joined(t, u)) < Len(Joined(z, u))
      <4>1. Len(Joined(t, u)) = Len(t) + Len(u) /\ Len(Joined(z, u)) = Len(z) + Len(u)
        BY <3>2, TextJoined
      <4>2. Len(t) \in Nat /\ Len(z) \in Nat /\ Len(u) \in Nat /\ Len(t) < Len(z)
        BY <3>2, <3>3, TextLength
      <4> QED BY <4>1, <4>2
    <3>8. HeaderLine(Joined(z, u), w, Joined(t, u))
      BY <3>2, <3>3, <3>4, <3>5, <3>6, <3>7 DEF HeaderLine
    <3>9. Header(Joined(z, u)) = Joined(HeaderMask, Header(Joined(t, u)))
      BY <3>8, HeaderOfLine
    <3>10. Header(Joined(t, u)) = Joined(Header(t), Header(u))
      BY <1>1, <3>2, <3>3
    <3>11. Joined(HeaderMask, Joined(Header(t), Header(u))) = Joined(Joined(HeaderMask, Header(t)), Header(u))
      BY <1>9, <3>2, <3>4, Regrouped
    <3> QED BY <3>2, <3>9, <3>10, <3>11
  <2> QED BY <2>1, <2>2, <2>3, HeaderBeginning
<1>2. G = Text
  <2>1. \A s \in Text : (\A h \in Text : Len(h) < Len(s) => h \in G) => s \in G
    BY <1>1
  <2>2. G \in SUBSET Text
    OBVIOUS
  <2> HIDE DEF G
  <2> QED BY <2>1, <2>2, TextInduction
<1>3. v \in G
  BY <1>2
<1> QED BY <1>3

\* It keeps the first three characters.
LEMMA HeaderSameBegin ==
  ASSUME NEW s \in Text
  PROVE  SameUpto(s, Header(s), 3)
<1> DEFINE P(z) == SameUpto(z, Header(z), 3)
           G == {z \in Text : P(z)}
<1>1. ASSUME NEW z \in Text, \A h \in Text : Len(h) < Len(z) => P(h)
      PROVE  P(z)
  <2>1. CASE z = <<>>
    <3>1. Header(z) = z
      BY <2>1, HeaderNothing
    <3> QED BY <3>1 DEF SameUpto
  <2>2. CASE \E c, t : HeaderChars(z, c, t)
    <3>1. PICK c, t : HeaderChars(z, c, t)
      BY <2>2
    <3>2. /\ Header(z) = Joined(Alone(c), Header(t)) /\ t \in Text /\ Header(t) \in Text
          /\ Alone(c) \in Text /\ c \in Char
      BY <3>1, HeaderOfChar
    <3>3. z = Joined(Alone(c), t) /\ Len(t) < Len(z)
      BY <3>1 DEF HeaderChars
    <3>4. SameUpto(t, Header(t), 3)
      BY <1>1, <3>2, <3>3
    <3>5. SameUpto(Joined(Alone(c), t), Joined(Alone(c), Header(t)), Len(Alone(c)) + 3)
      BY <3>2, <3>4, SameBehind
    <3>6. Len(Alone(c)) + 3 = 4
      <4>1. Len(Alone(c)) = 1
        BY <3>2, AloneIs DEF Single
      <4> QED BY <4>1
    <3>7. \A k \in 1 .. 3 : k \in 1 .. 4
      OBVIOUS
    <3> QED BY <3>2, <3>3, <3>5, <3>6, <3>7 DEF SameUpto
  <2>3. CASE \E w, t : HeaderLine(z, w, t)
    <3>1. PICK w, t : HeaderLine(z, w, t)
      BY <2>3
    <3>2. /\ Header(z) = Joined(HeaderMask, Header(t)) /\ t \in Text /\ Header(t) \in Text /\ w \in Text
      BY <3>1, HeaderOfLine
    <3>3. z = Joined(AuthHeader, Joined(w, t)) /\ Joined(w, t) \in Text
      BY <3>1, <3>2, TextJoined DEF HeaderLine
    <3>4. Header(z) = Joined(AuthHeader, Joined(Mask, Header(t))) /\ Joined(Mask, Header(t)) \in Text
      <4>1. AuthHeader \in Text /\ Mask \in Text
        BY PatternTypes
      <4> QED BY <3>2, <4>1, Regrouped DEF HeaderMask
    <3>5. HeaderAt(z, 1) /\ HeaderAt(Header(z), 1)
      BY <3>3, <3>4, HeaderBefore
    <3>6. /\ z[1] = "A" /\ z[1 + 1] = ":" /\ z[1 + 2] = " "
          /\ Header(z)[1] = "A" /\ Header(z)[1 + 1] = ":" /\ Header(z)[1 + 2] = " "
      BY <3>5 DEF HeaderAt
    <3>7. 1 + 2 <= Len(z) /\ 1 + 2 <= Len(Header(z)) /\ Len(z) \in Nat /\ Len(Header(z)) \in Nat
      BY <3>5, HeaderType, TextLength DEF HeaderAt
    <3>8. \A k \in 1 .. 3 : (k = 1 \/ k = 1 + 1 \/ k = 1 + 2) /\ k <= Len(z) /\ k <= Len(Header(z))
      BY <3>7
    <3>9. \A k \in 1 .. 3 : Header(z)[k] = z[k]
      BY <3>6, <3>8
    <3> QED BY <3>8, <3>9 DEF SameUpto
  <2> QED BY <2>1, <2>2, <2>3, HeaderBeginning
<1>2. G = Text
  <2>1. \A h \in Text : (\A g \in Text : Len(g) < Len(h) => g \in G) => h \in G
    BY <1>1
  <2>2. G \in SUBSET Text
    OBVIOUS
  <2> HIDE DEF G
  <2> QED BY <2>1, <2>2, TextInduction
<1>3. s \in G
  BY <1>2
<1> QED BY <1>3

-----------------------------------------------------------------------------
(***************************************************************************)
(* What the pass over the headers leaves, it leaves a second time, and the *)
(* pass over the URLs leaves it too.                                       *)
(***************************************************************************)
LEMMA SameName ==
  ASSUME NEW s \in Text, NEW r \in Text, SameUpto(s, r, 3), HeaderAt(r, 1)
  PROVE  HeaderAt(s, 1)
<1>1. r[1] = "A" /\ r[1 + 1] = ":" /\ r[1 + 2] = " " /\ 1 + 2 <= Len(r)
  BY DEF HeaderAt
<1>2. Len(r) \in Nat /\ Len(s) \in Nat
  BY TextLength
<1>3. 1 + 2 <= Len(r)
  BY <1>1
<1>4. /\ 1 \in 1 .. 3 /\ 1 + 1 \in 1 .. 3 /\ 1 + 2 \in 1 .. 3 /\ 1 <= Len(r) /\ 1 + 1 <= Len(r)
  BY <1>2, <1>3
<1>5. 1 <= Len(s) /\ 1 + 1 <= Len(s) /\ 1 + 2 <= Len(s)
  BY <1>3, <1>4 DEF SameUpto
<1>6. s[1] = r[1] /\ s[1 + 1] = r[1 + 1] /\ s[1 + 2] = r[1 + 2]
  BY <1>4, <1>5 DEF SameUpto
<1> QED BY <1>1, <1>5, <1>6 DEF HeaderAt

LEMMA AloneText ==
  ASSUME NEW c \in Char, NEW t \in Text
  PROVE  /\ Joined(Alone(c), t) # <<>> /\ Joined(Alone(c), t)[1] = c
         /\ Joined(Alone(c), t) \in Text /\ Len(Joined(Alone(c), t)) = Len(t) + 1
         /\ \A i \in 1 .. Len(t) : Joined(Alone(c), t)[i + 1] = t[i]
<1>1. Alone(c) \in Text /\ Single(Alone(c)) /\ Alone(c)[1] = c
  BY AloneIs
<1>2. Joined(Alone(c), t) # <<>> /\ Joined(Alone(c), t)[1] = c
  BY <1>1, SingleBefore
<1>3. /\ Joined(Alone(c), t) \in Text /\ Len(Joined(Alone(c), t)) = Len(Alone(c)) + Len(t)
      /\ \A i \in 1 .. Len(t) : Joined(Alone(c), t)[Len(Alone(c)) + i] = t[i]
  BY <1>1, TextJoined
<1>4. Len(Alone(c)) = 1 /\ Len(t) \in Nat
  BY <1>1, TextLength DEF Single
<1>5. 1 + Len(t) = Len(t) + 1 /\ \A i \in 1 .. Len(t) : 1 + i = i + 1
  BY <1>4
<1> QED BY <1>2, <1>3, <1>4, <1>5

\* The end of a line stays the end of a line.
LEMMA FromLfHeader ==
  ASSUME NEW t \in Text, FromLf(t)
  PROVE  FromLf(Header(t))
<1>1. CASE t = <<>>
  BY <1>1, HeaderNothing DEF FromLf
<1>2. CASE t # <<>>
  <2>1. ~HeaderAt(t, 1)
    BY <1>2 DEF FromLf, HeaderAt
  <2>2. CASE \E c, w : HeaderChars(t, c, w)
    <3>1. PICK c, w : HeaderChars(t, c, w)
      BY <2>2
    <3>2. Header(t) = Joined(Alone(c), Header(w)) /\ Header(w) \in Text /\ c \in Char /\ w \in Text
      BY <3>1, HeaderOfChar
    <3>3. t = Joined(Alone(c), w)
      BY <3>1 DEF HeaderChars
    <3>4. t[1] = c /\ Header(t)[1] = c
      BY <3>2, <3>3, AloneText
    <3> QED BY <1>2, <3>4 DEF FromLf
  <2>3. CASE \E u, w : HeaderLine(t, u, w)
    <3>1. PICK u, w : HeaderLine(t, u, w)
      BY <2>3
    <3>2. t = Joined(AuthHeader, Joined(u, w)) /\ Joined(u, w) \in Text
      BY <3>1, TextJoined DEF HeaderLine
    <3> QED BY <2>1, <3>2, HeaderBefore
  <2> QED BY <1>2, <2>2, <2>3, HeaderBeginning
<1> QED BY <1>1, <1>2

\* A masked header stays masked.
LEMMA HeaderMasked ==
  ASSUME NEW t \in Text, FromLf(t)
  PROVE  /\ Header(Joined(HeaderMask, t)) = Joined(HeaderMask, Header(t))
         /\ HeaderLine(Joined(HeaderMask, t), Mask, t)
<1>1. Joined(HeaderMask, t) = Joined(AuthHeader, Joined(Mask, t)) /\ Mask \in Text
  <2>1. AuthHeader \in Text /\ Mask \in Text
    BY PatternTypes
  <2> QED BY <2>1, Regrouped DEF HeaderMask
<1>2. LfFree(Mask)
  <2>1. Single(Mask) /\ Mask[1] = "M"
    BY PatternTypes
  <2>2. \A j \in 1 .. Len(Mask) : j = 1
    BY <1>1, <2>1, SingleIs
  <2> QED BY <2>1, <2>2 DEF LfFree
<1>3. Len(t) < Len(Joined(HeaderMask, t))
  <2>1. Len(Joined(HeaderMask, t)) = Len(HeaderMask) + Len(t)
    BY HeaderMaskIs, TextJoined
  <2>2. Len(HeaderMask) = 4 /\ Len(t) \in Nat
    BY HeaderMaskIs, TextLength
  <2> QED BY <2>1, <2>2
<1>4. HeaderLine(Joined(HeaderMask, t), Mask, t)
  BY <1>1, <1>2, <1>3 DEF HeaderLine
<1> QED BY <1>4, HeaderOfLine

\* The pass over the headers changes nothing when it is repeated.
LEMMA HeaderTwice ==
  ASSUME NEW s \in Text
  PROVE  Header(Header(s)) = Header(s)
<1> DEFINE P(z) == Header(Header(z)) = Header(z)
           G == {z \in Text : P(z)}
<1>1. ASSUME NEW z \in Text, \A h \in Text : Len(h) < Len(z) => P(h)
      PROVE  P(z)
  <2>1. CASE z = <<>>
    BY <2>1, HeaderNothing
  <2>2. CASE \E c, t : HeaderChars(z, c, t)
    <3>1. PICK c, t : HeaderChars(z, c, t)
      BY <2>2
    <3>2. /\ Header(z) = Joined(Alone(c), Header(t)) /\ t \in Text /\ Header(t) \in Text
          /\ Alone(c) \in Text /\ c \in Char
      BY <3>1, HeaderOfChar
    <3>3. ~HeaderAt(z, 1) /\ Len(t) < Len(z)
      BY <3>1 DEF HeaderChars
    <3>4. ~HeaderAt(Header(z), 1)
      BY <3>3, HeaderType, HeaderSameBegin, SameName
    <3>5. Header(Header(z)) = Joined(Alone(c), Header(Header(t)))
      BY <3>2, <3>4, HeaderChar
    <3>6. Header(Header(t)) = Header(t)
      BY <1>1, <3>2, <3>3
    <3> QED BY <3>2, <3>5, <3>6
  <2>3. CASE \E w, t : HeaderLine(z, w, t)
    <3>1. PICK w, t : HeaderLine(z, w, t)
      BY <2>3
    <3>2. /\ Header(z) = Joined(HeaderMask, Header(t)) /\ t \in Text /\ Header(t) \in Text
          /\ FromLf(t)
      BY <3>1, HeaderOfLine
    <3>3. Len(t) < Len(z)
      BY <3>1 DEF HeaderLine
    <3>4. FromLf(Header(t))
      BY <3>2, FromLfHeader
    <3>5. Header(Header(z)) = Joined(HeaderMask, Header(Header(t)))
      BY <3>2, <3>4, HeaderMasked
    <3>6. Header(Header(t)) = Header(t)
      BY <1>1, <3>2, <3>3
    <3> QED BY <3>2, <3>5, <3>6
  <2> QED BY <2>1, <2>2, <2>3, HeaderBeginning
<1>2. G = Text
  <2>1. \A h \in Text : (\A g \in Text : Len(g) < Len(h) => g \in G) => h \in G
    BY <1>1
  <2>2. G \in SUBSET Text
    OBVIOUS
  <2> HIDE DEF G
  <2> QED BY <2>1, <2>2, TextInduction
<1>3. s \in G
  BY <1>2
<1> QED BY <1>3

LEMMA LfFreeJoined ==
  ASSUME NEW x \in Text, NEW t \in Text
  PROVE  /\ LfFree(Joined(x, t)) => LfFree(x) /\ LfFree(t)
         /\ LfFree(x) /\ LfFree(t) => LfFree(Joined(x, t))
<1> DEFINE s == Joined(x, t)
<1>1. /\ Len(s) = Len(x) + Len(t) /\ (\A i \in 1 .. Len(x) : s[i] = x[i])
      /\ \A i \in 1 .. Len(t) : s[Len(x) + i] = t[i]
  BY TextJoined
<1> HIDE DEF s
<1>2. Len(s) = Len(x) + Len(t) /\ Len(x) \in Nat /\ Len(t) \in Nat
  BY <1>1, TextLength
<1>3. /\ \A i \in 1 .. Len(x) : i \in 1 .. Len(s)
      /\ \A i \in 1 .. Len(t) : Len(x) + i \in 1 .. Len(s)
  BY <1>2
<1>4. \A j \in 1 .. Len(s) : j \notin 1 .. Len(x) =>
        j - Len(x) \in 1 .. Len(t) /\ Len(x) + (j - Len(x)) = j
  BY <1>2
<1>5. LfFree(s) => LfFree(x) /\ LfFree(t)
  BY <1>1, <1>3 DEF LfFree
<1>6. ASSUME LfFree(x), LfFree(t) PROVE LfFree(s)
  <2> SUFFICES ASSUME NEW j \in 1 .. Len(s) PROVE s[j] # "lf"
    BY DEF LfFree
  <2>1. CASE j \in 1 .. Len(x)
    BY <1>1, <1>6, <2>1 DEF LfFree
  <2>2. CASE j \notin 1 .. Len(x)
    <3>1. j - Len(x) \in 1 .. Len(t) /\ Len(x) + (j - Len(x)) = j
      BY <1>4, <2>2
    <3>2. s[j] = t[j - Len(x)]
      BY <1>1, <3>1
    <3> QED BY <1>6, <3>1, <3>2 DEF LfFree
  <2> QED BY <2>1, <2>2
<1> QED BY <1>5, <1>6 DEF s

\* A line remains a line.
LEMMA HeaderKeepsLine ==
  ASSUME NEW s \in Text
  PROVE  LfFree(s) => LfFree(Header(s))
<1> DEFINE P(z) == LfFree(z) => LfFree(Header(z))
           G == {z \in Text : P(z)}
<1>1. ASSUME NEW z \in Text, \A h \in Text : Len(h) < Len(z) => P(h)
      PROVE  P(z)
  <2> SUFFICES ASSUME LfFree(z) PROVE LfFree(Header(z))
    OBVIOUS
  <2>1. CASE z = <<>>
    BY <2>1, HeaderNothing
  <2>2. CASE \E c, t : HeaderChars(z, c, t)
    <3>1. PICK c, t : HeaderChars(z, c, t)
      BY <2>2
    <3>2. /\ Header(z) = Joined(Alone(c), Header(t)) /\ t \in Text /\ Header(t) \in Text
          /\ Alone(c) \in Text /\ c \in Char
      BY <3>1, HeaderOfChar
    <3>3. z = Joined(Alone(c), t) /\ Len(t) < Len(z)
      BY <3>1 DEF HeaderChars
    <3>4. LfFree(Alone(c)) /\ LfFree(t)
      BY <3>2, <3>3, LfFreeJoined
    <3>5. LfFree(Header(t))
      BY <1>1, <3>2, <3>3, <3>4
    <3> QED BY <3>2, <3>4, <3>5, LfFreeJoined
  <2>3. CASE \E w, t : HeaderLine(z, w, t)
    <3>1. PICK w, t : HeaderLine(z, w, t)
      BY <2>3
    <3>2. /\ Header(z) = Joined(HeaderMask, Header(t)) /\ t \in Text /\ Header(t) \in Text
          /\ FromLf(t) /\ w \in Text
      BY <3>1, HeaderOfLine
    <3>3. z = Joined(AuthHeader, Joined(w, t)) /\ Len(t) < Len(z)
      BY <3>1 DEF HeaderLine
    <3>4. AuthHeader \in Text /\ Mask \in Text /\ Joined(w, t) \in Text
      BY <3>2, PatternTypes, TextJoined
    <3>5. LfFree(AuthHeader) /\ LfFree(t)
      BY <3>2, <3>3, <3>4, LfFreeJoined
    <3>6. LfFree(Mask)
      <4>1. Single(Mask) /\ Mask[1] = "M"
        BY PatternTypes
      <4>2. \A j \in 1 .. Len(Mask) : j = 1
        BY <3>4, <4>1, SingleIs
      <4> QED BY <4>1, <4>2 DEF LfFree
    <3>7. LfFree(HeaderMask) /\ HeaderMask \in Text
      BY <3>4, <3>5, <3>6, LfFreeJoined, TextJoined DEF HeaderMask
    <3>8. LfFree(Header(t))
      BY <1>1, <3>2, <3>3, <3>5
    <3> QED BY <3>2, <3>7, <3>8, LfFreeJoined
  <2> QED BY <2>1, <2>2, <2>3, HeaderBeginning
<1>2. G = Text
  <2>1. \A h \in Text : (\A g \in Text : Len(g) < Len(h) => g \in G) => h \in G
    BY <1>1
  <2>2. G \in SUBSET Text
    OBVIOUS
  <2> HIDE DEF G
  <2> QED BY <2>1, <2>2, TextInduction
<1>3. s \in G
  BY <1>2
<1> QED BY <1>3

\* Only a colon begins a URL.
LEMMA OnceOther ==
  ASSUME NEW c \in Char, c # ":", NEW t \in Text
  PROVE  Once(Joined(Alone(c), t)) = Joined(Alone(c), Once(t))
<1>1. Joined(Alone(c), t)[1] = c
  BY AloneText
<1>2. ~SchemeAt(Joined(Alone(c), t), 1)
  BY <1>1 DEF SchemeAt
<1> QED BY <1>2, OnceChar

AuthName == <<"A", ":">>
Space == Alone(" ")

LEMMA AuthNameIs ==
  AuthName \in Text /\ Space \in Text /\ AuthHeader = Joined(AuthName, Space)
<1>1. "A" \in Char /\ ":" \in Char /\ " " \in Char
  BY RedactionChars
<1>2. \A a, b \in Char : /\ <<a, b>> \in Seq(Char) /\ Len(<<a, b>>) = 2
                         /\ <<a, b>>[1] = a /\ <<a, b>>[2] = b
  BY Two
<1>7. AuthName \in Seq(Char) /\ Len(AuthName) = 2 /\ AuthName[1] = "A" /\ AuthName[2] = ":"
  BY <1>1, <1>2, Zenon DEF AuthName
<1>3. AuthName \in Text
  BY <1>7 DEF Text
<1>4. Space \in Text
  BY <1>1, AloneIs DEF Space
<1>5. AuthHeader = Joined(AuthName, Space)
  <2> DEFINE b == Space
             s == Joined(AuthName, b)
  <2>1. b \in Text /\ Len(b) = 1 /\ b[1] = " "
    BY <1>1, AloneIs DEF Single, Space
  <2> HIDE DEF b
  <2>2. /\ s \in Text /\ Len(s) = Len(AuthName) + Len(b)
        /\ (\A i \in 1 .. Len(AuthName) : s[i] = AuthName[i])
        /\ \A i \in 1 .. Len(b) : s[Len(AuthName) + i] = b[i]
    BY <1>3, <2>1, TextJoined
  <2> HIDE DEF s
  <2>3. Len(AuthName) = 2 /\ Len(b) = 1
    BY <1>7, <2>1
  <2>4. /\ 1 \in 1 .. Len(AuthName) /\ 2 \in 1 .. Len(AuthName) /\ 1 \in 1 .. Len(b)
        /\ Len(AuthName) + 1 = 3
    BY <2>3
  <2>5. s[1] = "A" /\ s[2] = ":" /\ s[3] = " "
    BY <1>7, <2>1, <2>2, <2>4
  <2>6. Len(s) = 3
    <3>1. Len(s) = Len(AuthName) + Len(b)
      BY <2>2
    <3> QED BY <2>3, <3>1
  <2>7. \A i \in 1 .. Len(s) : i = 1 \/ i = 2 \/ i = 3
    BY <2>6
  <2>8. \A i \in 1 .. Len(s) : s[i] = AuthHeader[i]
    BY <2>5, <2>7, PatternTypes
  <2>9. s \in Seq(Char) /\ AuthHeader \in Seq(Char) /\ Len(AuthHeader) = 3
    BY <2>2, PatternTypes DEF Text
  <2>10. s = AuthHeader
    BY <2>6, <2>8, <2>9, SameText
  <2> QED BY <2>10 DEF s, b
<1> QED BY <1>3, <1>4, <1>5

\* The blank of the header's name ends what stands before it.
LEMMA HeaderParts ==
  ASSUME NEW x \in Text, NEW r \in Text
  PROVE  /\ Joined(x, Joined(AuthHeader, r)) = Joined(Joined(x, AuthName), Joined(Space, r))
         /\ Joined(x, AuthName) \in Text /\ Joined(Space, r) \in Text
         /\ Joined(Space, r) # <<>> /\ Blank(Joined(Space, r))
<1>1. AuthName \in Text /\ Space \in Text /\ AuthHeader = Joined(AuthName, Space)
  BY AuthNameIs
<1>6. AuthName \in Text /\ Space \in Text
  BY <1>1
<1>2. /\ Joined(Joined(AuthName, Space), r) = Joined(AuthName, Joined(Space, r))
      /\ Joined(Space, r) \in Text
  BY <1>6, Regrouped
<1>3. /\ Joined(Joined(x, AuthName), Joined(Space, r)) = Joined(x, Joined(AuthName, Joined(Space, r)))
      /\ Joined(x, AuthName) \in Text
  <2>1. AuthName \in Text /\ Joined(Space, r) \in Text
    BY <1>1, <1>2
  <2> QED BY <2>1, Regrouped
<1>4. Joined(Space, r) # <<>> /\ Joined(Space, r)[1] = " "
  BY RedactionChars, AloneText DEF Space
<1>5. Blank(Joined(Space, r))
  BY <1>4 DEF Blank
<1> QED BY <1>1, <1>2, <1>3, <1>4, <1>5

FixedBehind(x, z) == Once(Joined(x, z)) = Joined(x, z)

\* Masking headers leaves URLs as the pass over the URLs leaves them.
LEMMA HeaderKeepsURLs ==
  ASSUME NEW s \in Text, NEW v \in Text, FixedBehind(v, s)
  PROVE  FixedBehind(v, Header(s))
<1> DEFINE P(z) == \A x \in Text : FixedBehind(x, z) => FixedBehind(x, Header(z))
           G == {z \in Text : P(z)}
<1>1. ASSUME NEW z \in Text, \A h \in Text : Len(h) < Len(z) => P(h)
      PROVE  P(z)
  <2> SUFFICES ASSUME NEW x \in Text, FixedBehind(x, z) PROVE FixedBehind(x, Header(z))
    OBVIOUS
  <2>1. CASE z = <<>>
    BY <2>1, HeaderNothing
  <2>2. CASE \E c, t : HeaderChars(z, c, t)
    <3>1. PICK c, t : HeaderChars(z, c, t)
      BY <2>2
    <3>2. /\ Header(z) = Joined(Alone(c), Header(t)) /\ t \in Text /\ Header(t) \in Text
          /\ Alone(c) \in Text /\ c \in Char
      BY <3>1, HeaderOfChar
    <3>3. z = Joined(Alone(c), t) /\ Len(t) < Len(z)
      BY <3>1 DEF HeaderChars
    <3> DEFINE y == Joined(x, Alone(c))
    <3>4. y \in Text /\ Joined(x, z) = Joined(y, t) /\ Joined(x, Header(z)) = Joined(y, Header(t))
      BY <3>2, <3>3, Regrouped
    <3> HIDE DEF y
    <3>5. FixedBehind(y, t)
      BY <3>4 DEF FixedBehind
    <3>6. FixedBehind(y, Header(t))
      BY <1>1, <3>2, <3>3, <3>4, <3>5
    <3> QED BY <3>4, <3>6 DEF FixedBehind
  <2>3. CASE \E w, t : HeaderLine(z, w, t)
    <3>1. PICK w, t : HeaderLine(z, w, t)
      BY <2>3
    <3>2. /\ Header(z) = Joined(HeaderMask, Header(t)) /\ t \in Text /\ Header(t) \in Text
          /\ FromLf(t) /\ w \in Text
      BY <3>1, HeaderOfLine
    <3>3. z = Joined(AuthHeader, Joined(w, t)) /\ Len(t) < Len(z)
      BY <3>1 DEF HeaderLine
    <3> DEFINE h == Header(t)
               n == Joined(x, AuthName)
               r == Joined(Space, Joined(w, t))
               q == Joined(Space, Joined(Mask, h))
    <3>4. Joined(w, t) \in Text /\ Joined(Mask, h) \in Text /\ Mask \in Text /\ AuthHeader \in Text
      BY <3>2, PatternTypes, TextJoined
    <3>5. Joined(x, z) = Joined(n, r) /\ n \in Text /\ r \in Text /\ Blank(r)
      BY <3>3, <3>4, HeaderParts
    <3>6. q \in Text /\ Blank(q) /\ Joined(x, Header(z)) = Joined(n, q)
      <4>1. Joined(HeaderMask, h) = Joined(AuthHeader, Joined(Mask, h))
        <5>1. Mask \in Text /\ AuthHeader \in Text /\ h \in Text
          BY <3>2, <3>4
        <5> QED BY <5>1, Regrouped DEF HeaderMask
      <4>2. Joined(Mask, h) \in Text
        BY <3>4
      <4>3. /\ Joined(x, Joined(AuthHeader, Joined(Mask, h))) = Joined(n, q)
            /\ q \in Text /\ Blank(q)
        BY <4>2, HeaderParts
      <4> QED BY <3>2, <4>1, <4>3
    <3> HIDE DEF n
    <3>7. Once(n) = n /\ Once(r) = r
      <4>1. Once(Joined(n, r)) = Joined(n, r)
        BY <3>5 DEF FixedBehind
      <4> HIDE DEF r
      <4> QED BY <3>5, <4>1, OnceApart DEF Apart
    <3>8. Once(t) = t
      <4> DEFINE g == Joined(Space, w)
      <4>1. r = Joined(g, t) /\ g \in Text
        <5>1. w \in Text /\ t \in Text /\ Space \in Text
          BY <3>2, AuthNameIs
        <5> QED BY <5>1, Regrouped
      <4>2. Blank(t)
        BY <3>2 DEF FromLf, Blank
      <4> HIDE DEF g, r
      <4>3. Once(Joined(g, t)) = Joined(g, t)
        BY <3>7, <4>1
      <4> QED BY <3>2, <4>1, <4>2, <4>3, OnceApart DEF Apart
    <3>9. Once(h) = h
      <4>1. <<>> \in Text
        BY DEF Text
      <4>2. FixedBehind(<<>>, t)
        BY <3>2, <3>8, Regrouped DEF FixedBehind
      <4>3. FixedBehind(<<>>, h)
        BY <1>1, <3>2, <3>3, <4>1, <4>2
      <4> QED BY <3>2, <4>3, Regrouped DEF FixedBehind
    <3>10. Once(q) = q
      <4>1. Once(Joined(Mask, h)) = Joined(Mask, h)
        <5>1. Mask = Alone("M") /\ "M" \in Char
          BY PatternTypes, RedactionChars
        <5>2. "M" # ":"
          OBVIOUS
        <5> HIDE DEF h
        <5>3. h \in Text
          BY <3>2 DEF h
        <5> QED BY <3>9, <5>1, <5>2, <5>3, OnceOther
      <4>2. " " \in Char /\ " " # ":"
        BY RedactionChars
      <4> QED BY <3>4, <4>1, <4>2, OnceOther DEF Space
    <3> HIDE DEF q, r
    <3>11. Once(Joined(n, q)) = Joined(n, q)
      BY <3>5, <3>6, <3>7, <3>10, OnceApart DEF Apart
    <3> QED BY <3>6, <3>11 DEF FixedBehind
  <2> QED BY <2>1, <2>2, <2>3, HeaderBeginning
<1>2. G = Text
  <2>1. \A h \in Text : (\A g \in Text : Len(g) < Len(h) => g \in G) => h \in G
    BY <1>1
  <2>2. G \in SUBSET Text
    OBVIOUS
  <2> HIDE DEF G
  <2> QED BY <2>1, <2>2, TextInduction
<1>3. s \in G
  BY <1>2
<1> QED BY <1>3

-----------------------------------------------------------------------------
(***************************************************************************)
(* The pass over the lines.                                                *)
(***************************************************************************)
Line(l) == redactLineAssignments(l)
LineFeed == Alone("lf")
Assign(s) == redactAssignments(s)
WithFeed(l) == Joined(l, LineFeed)
LineStep(s, i, end) ==
  IF end = Len(s) + 1 THEN Step(Line(SubSeq(s, i, end - 1)), end)
  ELSE Step(WithFeed(Line(SubSeq(s, i, end - 1))), end + 1)
AssignStep(s) == [i \in 1 .. Len(s) |-> LineStep(s, i, LineEnd(s, i))]

LEMMA AssignIs ==
  ASSUME NEW s
  PROVE  Assign(s) = Rewrite(Len(s), AssignStep(s))
BY DEF Assign, redactAssignments, AssignStep, LineStep, WithFeed, LineFeed, Line, Joined, Alone

LEMMA FeedIs ==
  /\ LineFeed \in Text /\ LineFeed = Alone("lf") /\ "lf" \in Char /\ Len(LineFeed) = 1
  /\ LineFeed # <<>> /\ LineFeed[1] = "lf"
<1>1. "lf" \in Char
  BY RedactionChars
<1>2. LineFeed \in Text /\ Single(LineFeed) /\ LineFeed[1] = "lf" /\ LineFeed = Alone("lf")
  BY <1>1, AloneIs DEF LineFeed
<1>3. LineFeed # <<>>
  BY <1>2, SingleIs
<1> QED BY <1>1, <1>2, <1>3 DEF Single

\* A line stays as it is or becomes the mask (redactLineAssignments).
LEMMA LineType ==
  ASSUME NEW l \in Text
  PROVE  Line(l) \in Text /\ (Line(l) = l \/ Line(l) = Mask)
BY PatternTypes DEF Line, redactLineAssignments

LEMMA AssignPass ==
  ASSUME NEW s \in Text
  PROVE  IsPass(Len(s), AssignStep(s), Char)
<1> SUFFICES ASSUME NEW i \in 1 .. Len(s)
             PROVE  /\ AssignStep(s)[i].write \in Seq(Char)
                    /\ AssignStep(s)[i].goto \in i + 1 .. Len(s) + 1
  BY DEF IsPass
<1> DEFINE e == LineEnd(s, i)
           l == SubSeq(s, i, e - 1)
<1>1. Len(s) \in Nat
  BY TextLength
<1>2. i \in 1 .. Len(s) + 1
  BY <1>1
<1>3. e \in i .. Len(s) + 1
  BY <1>2, LineFacts
<1>4. AssignStep(s)[i] = LineStep(s, i, e)
  BY DEF AssignStep
<1> HIDE DEF e
<1>5. e - 1 \in i - 1 .. Len(s)
  BY <1>1, <1>3
<1>6. l \in Text
  BY <1>2, <1>5, PartType
<1>7. Line(l) \in Text /\ WithFeed(Line(l)) \in Text
  BY <1>6, LineType, FeedIs, TextJoined DEF WithFeed
<1>8. CASE e = Len(s) + 1
  <2>1. AssignStep(s)[i].write = Line(l) /\ AssignStep(s)[i].goto = e
    BY <1>4, <1>8 DEF LineStep, Step
  <2>2. e \in i + 1 .. Len(s) + 1
    BY <1>1, <1>8
  <2> QED BY <1>7, <2>1, <2>2 DEF Text
<1>9. CASE e # Len(s) + 1
  <2>1. AssignStep(s)[i].write = WithFeed(Line(l)) /\ AssignStep(s)[i].goto = e + 1
    BY <1>4, <1>9 DEF LineStep, Step
  <2>2. e + 1 \in i + 1 .. Len(s) + 1
    BY <1>1, <1>3, <1>9
  <2> QED BY <1>7, <2>1, <2>2 DEF Text
<1> QED BY <1>8, <1>9

\* The pass over the lines behind another text.
LEMMA AssignBehind ==
  ASSUME NEW x \in Text, NEW t \in Text
  PROVE  Behind(Len(x), Len(t), AssignStep(t), AssignStep(Joined(x, t)))
<1> DEFINE s == Joined(x, t)
<1>2. s \in Text /\ Len(s) = Len(x) + Len(t)
  BY TextJoined
<1> SUFFICES ASSUME NEW i \in 1 .. Len(t)
             PROVE  /\ AssignStep(s)[Len(x) + i].write = AssignStep(t)[i].write
                    /\ AssignStep(s)[Len(x) + i].goto = Len(x) + AssignStep(t)[i].goto
  BY DEF Behind
<1> DEFINE j == Len(x) + i
           e == LineEnd(t, i)
           k == Len(x)
<1>1. k \in Nat /\ Len(t) \in Nat /\ Len(s) = k + Len(t)
  BY <1>2, TextLength
<1>3. j \in 1 .. Len(s) /\ i \in 1 .. Len(t) + 1
  BY <1>1
<1>4. e \in i .. Len(t) + 1
  BY <1>3, LineFacts
<1>5. LineEnd(s, j) = k + e
  BY <1>3, LineBehind
<1>6. AssignStep(s)[j] = LineStep(s, j, k + e) /\ AssignStep(t)[i] = LineStep(t, i, e)
  BY <1>3, <1>5 DEF AssignStep
<1> HIDE DEF e
<1>7. e - 1 \in i - 1 .. Len(t) /\ k + (e - 1) = (k + e) - 1
  BY <1>1, <1>4
<1>8. SubSeq(s, j, (k + e) - 1) = SubSeq(t, i, e - 1)
  <2>1. x \in Seq(Char) /\ t \in Seq(Char)
    BY DEF Text
  <2>2. SubSeq(Joined(x, t), Len(x) + i, Len(x) + (e - 1)) = SubSeq(t, i, e - 1)
    BY <1>3, <1>7, <2>1, PartBehind
  <2> QED BY <1>7, <2>2
<1> HIDE DEF s, k
<1>10. CASE e = Len(t) + 1
  <2>1. k + e = Len(s) + 1
    BY <1>1, <1>10
  <2>2. AssignStep(s)[j] = Step(Line(SubSeq(s, j, (k + e) - 1)), k + e)
    BY <1>6, <2>1 DEF LineStep
  <2>3. AssignStep(t)[i] = Step(Line(SubSeq(t, i, e - 1)), e)
    BY <1>6, <1>10 DEF LineStep
  <2>4. AssignStep(s)[j] = Step(Line(SubSeq(t, i, e - 1)), k + e)
    BY <1>8, <2>2
  <2> QED BY <2>3, <2>4 DEF Step, k
<1>11. CASE e # Len(t) + 1
  <2>1. k + e # Len(s) + 1 /\ (k + e) + 1 = k + (e + 1)
    BY <1>1, <1>4, <1>11
  <2>2. AssignStep(s)[j] = Step(WithFeed(Line(SubSeq(s, j, (k + e) - 1))), (k + e) + 1)
    BY <1>6, <2>1 DEF LineStep
  <2>3. AssignStep(t)[i] = Step(WithFeed(Line(SubSeq(t, i, e - 1))), e + 1)
    BY <1>6, <1>11 DEF LineStep
  <2>4. AssignStep(s)[j] = Step(WithFeed(Line(SubSeq(t, i, e - 1))), k + (e + 1))
    BY <1>8, <2>1, <2>2
  <2> QED BY <2>3, <2>4 DEF Step, k
<1> QED BY <1>10, <1>11

LEMMA AssignType ==
  ASSUME NEW s \in Text
  PROVE  Assign(s) \in Text
<1>1. Len(s) \in Nat
  BY DEF Text
<1>2. Rewrite(Len(s), AssignStep(s)) \in Seq(Char)
  BY <1>1, AssignPass, RewriteType
<1> QED BY <1>2, AssignIs DEF Text

LEMMA AssignNothing == Assign(<<>>) = <<>>
<1>1. Len(<<>>) = 0
  OBVIOUS
<1> QED BY <1>1, AssignIs, RewriteNothing

LEMMA AssignSplit ==
  ASSUME NEW x \in Text, x # <<>>, NEW t \in Text, NEW w,
         AssignStep(Joined(x, t))[1].write = w, AssignStep(Joined(x, t))[1].goto = Len(x) + 1
  PROVE  Assign(Joined(x, t)) = Joined(w, Assign(t))
<1> DEFINE s == Joined(x, t)
           step == AssignStep(t)
           other == AssignStep(s)
<1>2. Len(x) \in Nat \ {0} /\ Len(t) \in Nat
  BY TextLength
<1>3. Len(s) = Len(x) + Len(t) /\ s \in Text
  BY TextJoined
<1>4. IsPass(Len(t), step, Char) /\ IsPass(Len(s), other, Char) /\ Behind(Len(x), Len(t), step, other)
  BY <1>3, AssignPass, AssignBehind
<1>5. other[1].write = w /\ other[1].goto = Len(x) + 1
  OBVIOUS
<1> HIDE DEF step, other, s
<1>6. Len(s) \in Nat
  BY <1>2, <1>3
<1>7. Rewrite(Len(s), other) = Joined(w, Rewrite(Len(t), step))
  BY <1>2, <1>3, <1>4, <1>5, <1>6, RewriteSplit
<1> QED BY <1>7, AssignIs DEF step, other, s

\* The last line, and a line before others.
LEMMA LastLine ==
  ASSUME NEW l \in Text, LfFree(l)
  PROVE  Assign(l) = Line(l)
<1>1. CASE l = <<>>
  <2>1. Line(<<>>) = <<>>
    BY DEF Line, redactLineAssignments, hasSensitiveAssignment
  <2> QED BY <1>1, <2>1, AssignNothing
<1>2. CASE l # <<>>
  <2>1. Len(l) \in Nat /\ 1 \in 1 .. Len(l)
    BY <1>2, TextLength
  <2> DEFINE e == Len(l) + 1
  <2>2. 1 \in 1 .. Len(l) + 1 /\ e \in 1 .. Len(l) + 1 /\ e - 1 = Len(l) /\ ~(e <= Len(l))
    BY <2>1
  <2>3. \A j \in 1 .. e - 1 : l[j] # "lf"
    BY <2>2 DEF LfFree
  <2> HIDE DEF e
  <2>4. LineEnd(l, 1) = e
    BY <2>2, <2>3, LineIs
  <2>5. AssignStep(l)[1] = LineStep(l, 1, e)
    BY <2>1, <2>4 DEF AssignStep
  <2>6. e = Len(l) + 1
    BY DEF e
  <2>7. AssignStep(l)[1] = Step(Line(SubSeq(l, 1, e - 1)), e)
    BY <2>5, <2>6 DEF LineStep
  <2>8. SubSeq(l, 1, e - 1) = l
    <3>1. l \in Seq(Char)
      BY DEF Text
    <3>2. SubSeq(l, 1, Len(l)) = l
      BY <3>1
    <3> QED BY <2>2, <3>2
  <2>14. AssignStep(l)[1] = Step(Line(l), Len(l) + 1)
    BY <2>6, <2>7, <2>8
  <2>9. AssignStep(l)[1].write = Line(l) /\ AssignStep(l)[1].goto = Len(l) + 1
    BY <2>14 DEF Step
  <2>10. <<>> \in Text
    BY DEF Text
  <2>11. Joined(l, <<>>) = l
    BY Regrouped
  <2>12. Assign(Joined(l, <<>>)) = Joined(Line(l), Assign(<<>>))
    BY <1>2, <2>9, <2>10, <2>11, AssignSplit
  <2>13. Joined(Line(l), <<>>) = Line(l)
    BY LineType, Regrouped
  <2> QED BY <2>11, <2>12, <2>13, AssignNothing
<1> QED BY <1>1, <1>2

LEMMA FeedBehind ==
  ASSUME NEW l \in Text, NEW t \in Text
  PROVE  /\ WithFeed(l) \in Text /\ WithFeed(l) # <<>> /\ Len(WithFeed(l)) = Len(l) + 1
         /\ Joined(WithFeed(l), t) = Joined(l, Joined(LineFeed, t))
         /\ Joined(LineFeed, t) \in Text /\ FromLf(Joined(LineFeed, t)) /\ Blank(Joined(LineFeed, t))
         /\ Joined(WithFeed(l), t) \in Text /\ Len(Joined(WithFeed(l), t)) = Len(l) + 1 + Len(t)
         /\ (\A i \in 1 .. Len(l) : Joined(WithFeed(l), t)[i] = l[i])
         /\ Joined(WithFeed(l), t)[Len(l) + 1] = "lf"
         /\ \A i \in 1 .. Len(t) : Joined(WithFeed(l), t)[Len(l) + 1 + i] = t[i]
<1> DEFINE x == WithFeed(l)
           s == Joined(x, t)
<1>1. LineFeed \in Text /\ Len(LineFeed) = 1 /\ LineFeed[1] = "lf" /\ LineFeed # <<>>
  BY FeedIs
<1>2. /\ x \in Text /\ Len(x) = Len(l) + Len(LineFeed)
      /\ (\A i \in 1 .. Len(l) : x[i] = l[i])
      /\ \A i \in 1 .. Len(LineFeed) : x[Len(l) + i] = LineFeed[i]
  BY <1>1, TextJoined DEF WithFeed
<1>3. x # <<>>
  BY <1>1, JoinedIsNotNothing DEF WithFeed
<1>4. Len(LineFeed) = 1 /\ Len(l) \in Nat /\ Len(t) \in Nat
  BY <1>1, TextLength
<1>5. Len(x) = Len(l) + 1
  BY <1>2, <1>4
<1>6. s = Joined(l, Joined(LineFeed, t)) /\ Joined(LineFeed, t) \in Text
  BY <1>1, Regrouped DEF WithFeed
<1>7. Joined(LineFeed, t)[1] = "lf"
  BY <1>1, FirstOfJoined
<1>8. FromLf(Joined(LineFeed, t)) /\ Blank(Joined(LineFeed, t))
  BY <1>7 DEF FromLf, Blank
<1> HIDE DEF x
<1>9. /\ s \in Text /\ Len(s) = Len(x) + Len(t)
      /\ (\A i \in 1 .. Len(x) : s[i] = x[i])
      /\ \A i \in 1 .. Len(t) : s[Len(x) + i] = t[i]
  BY <1>2, TextJoined
<1> HIDE DEF s
<1>10. /\ \A i \in 1 .. Len(l) : i \in 1 .. Len(x)
       /\ Len(l) + 1 \in 1 .. Len(x) /\ 1 \in 1 .. Len(LineFeed)
  BY <1>4, <1>5
<1>11. \A i \in 1 .. Len(l) : s[i] = l[i]
  BY <1>2, <1>9, <1>10
<1>12. s[Len(l) + 1] = "lf"
  BY <1>1, <1>2, <1>9, <1>10
<1>13. \A i \in 1 .. Len(t) : s[Len(l) + 1 + i] = t[i]
  BY <1>5, <1>9
<1>14. Len(s) = Len(l) + 1 + Len(t)
  BY <1>5, <1>9
<1> QED BY <1>2, <1>3, <1>5, <1>6, <1>8, <1>9, <1>11, <1>12, <1>13, <1>14 DEF s, x

\* The first line of several.
LEMMA FirstLine ==
  ASSUME NEW l \in Text, LfFree(l), NEW t \in Text
  PROVE  Assign(Joined(WithFeed(l), t)) = Joined(WithFeed(Line(l)), Assign(t))
<1> DEFINE x == WithFeed(l)
           s == Joined(x, t)
           e == Len(l) + 1
<1>1. /\ x \in Text /\ x # <<>> /\ Len(x) = Len(l) + 1
      /\ s \in Text /\ Len(s) = Len(l) + 1 + Len(t)
      /\ (\A i \in 1 .. Len(l) : s[i] = l[i]) /\ s[Len(l) + 1] = "lf"
  BY FeedBehind
<1> HIDE DEF s, x
<1>2. Len(l) \in Nat /\ Len(t) \in Nat /\ Len(s) = Len(l) + 1 + Len(t)
  BY <1>1, TextLength
<1>3. /\ 1 \in 1 .. Len(s) + 1 /\ 1 \in 1 .. Len(s) /\ e \in 1 .. Len(s) + 1 /\ e - 1 = Len(l)
      /\ e # Len(s) + 1 /\ e + 1 = (Len(l) + 1) + 1 /\ Len(l) \in 0 .. Len(s)
  BY <1>2
<1>4. \A j \in 1 .. e - 1 : s[j] # "lf"
  BY <1>1, <1>3 DEF LfFree
<1>5. s[e] = "lf"
  BY <1>1
<1> HIDE DEF e
<1>6. LineEnd(s, 1) = e
  BY <1>1, <1>3, <1>4, <1>5, LineIs
<1>7. AssignStep(s)[1] = LineStep(s, 1, e)
  BY <1>3, <1>6 DEF AssignStep
<1>8. AssignStep(s)[1] = Step(WithFeed(Line(SubSeq(s, 1, e - 1))), e + 1)
  BY <1>3, <1>7 DEF LineStep
<1>9. SubSeq(s, 1, e - 1) = l
  <2> DEFINE y == SubSeq(s, 1, Len(l))
  <2>1. y \in Seq(Char) /\ Len(y) = Len(l) /\ \A i \in 1 .. Len(l) : y[i] = s[i]
    BY <1>1, <1>3, Parts DEF Text
  <2> HIDE DEF y
  <2>2. l \in Seq(Char) /\ \A i \in 1 .. Len(y) : y[i] = l[i]
    BY <1>1, <2>1 DEF Text
  <2>3. y = l
    BY <2>1, <2>2, SameText
  <2> QED BY <1>3, <2>3 DEF y
<1>10. AssignStep(s)[1].write = WithFeed(Line(l)) /\ AssignStep(s)[1].goto = Len(x) + 1
  <2>1. e = Len(x)
    BY <1>1 DEF e
  <2>2. AssignStep(s)[1] = Step(WithFeed(Line(l)), Len(x) + 1)
    BY <1>8, <1>9, <2>1
  <2> QED BY <2>2 DEF Step
<1> QED BY <1>1, <1>10, AssignSplit DEF s, x

-----------------------------------------------------------------------------
(***************************************************************************)
(* What is redacted once stays as it is.                                   *)
(***************************************************************************)
BeginsWithLine(s, l, t) ==
  s = Joined(WithFeed(l), t) /\ l \in Text /\ t \in Text /\ LfFree(l) /\ Len(t) < Len(s)

\* A text is one line, or begins with one.
LEMMA LineBeginning ==
  ASSUME NEW s \in Text
  PROVE  LfFree(s) \/ \E l, t : BeginsWithLine(s, l, t)
<1> SUFFICES ASSUME ~LfFree(s) PROVE \E l, t : BeginsWithLine(s, l, t)
  OBVIOUS
<1> DEFINE e == LineEnd(s, 1)
           k == e - 1
           l == SubSeq(s, 1, k)
           w == SubSeq(s, k + 1, Len(s))
           t == Tail(w)
<1>1. Len(s) \in Nat
  BY TextLength
<1>2. 1 \in 1 .. Len(s) + 1
  BY <1>1
<1>3. /\ e \in 1 .. Len(s) + 1 /\ (\A j \in 1 .. e - 1 : s[j] # "lf")
      /\ (e <= Len(s) => s[e] = "lf")
  BY <1>2, LineFacts
<1> HIDE DEF e
<1>4. e <= Len(s)
  <2> SUFFICES ASSUME ~(e <= Len(s)) PROVE FALSE
    OBVIOUS
  <2>1. e = Len(s) + 1
    BY <1>1, <1>3
  <2>2. \A j \in 1 .. Len(s) : j \in 1 .. e - 1
    BY <1>1, <2>1
  <2> QED BY <1>3, <2>2 DEF LfFree
<1>5. k \in 0 .. Len(s) /\ k + 1 = e /\ Len(s) - k \in Nat \ {0} /\ 1 \in 1 .. Len(s) - k
  BY <1>1, <1>3, <1>4
<1>6. k = e - 1
  OBVIOUS
<1> HIDE DEF k
<1>7. /\ l \in Seq(Char) /\ Len(l) = k /\ w \in Seq(Char) /\ Len(w) = Len(s) - k
      /\ (\A i \in 1 .. k : l[i] = s[i]) /\ (\A i \in 1 .. Len(s) - k : w[i] = s[k + i])
      /\ s = Joined(l, w)
  BY <1>5, Parts DEF Text
<1> HIDE DEF l, w
<1>8. LfFree(l)
  BY <1>3, <1>6, <1>7 DEF LfFree
<1>9. w # <<>> /\ w[1] = "lf"
  <2>1. w[1] = s[k + 1]
    BY <1>5, <1>7
  <2>2. w[1] = "lf"
    BY <1>3, <1>4, <1>5, <2>1
  <2>3. Len(w) = Len(s) - k
    BY <1>7
  <2>4. Len(w) # 0
    BY <1>5, <2>3
  <2>5. w # <<>>
    BY <2>4
  <2> QED BY <2>2, <2>5
<1>10. w = Joined(Alone(w[1]), t) /\ t \in Text /\ Len(t) = Len(w) - 1
  BY <1>7, <1>9, OneAndRest DEF Text, Alone
<1>11. w = Joined(LineFeed, t)
  BY <1>9, <1>10, FeedIs
<1> HIDE DEF t
<1>12. l \in Text
  BY <1>7 DEF Text
<1>13. s = Joined(WithFeed(l), t)
  BY <1>7, <1>10, <1>11, <1>12, FeedBehind
<1>14. Len(t) < Len(s)
  <2>1. Len(w) = Len(s) - k /\ Len(t) = Len(w) - 1
    BY <1>7, <1>10
  <2> QED BY <1>1, <1>5, <2>1
<1>15. BeginsWithLine(s, l, t)
  BY <1>8, <1>10, <1>12, <1>13, <1>14 DEF BeginsWithLine
<1> QED BY <1>15

Redacted(s) == Assign(Header(s))
RedactedLine(l) == Line(Header(l))

LEMMA RedactedType ==
  ASSUME NEW s \in Text
  PROVE  Redacted(s) \in Text /\ RedactedLine(s) \in Text
BY HeaderType, AssignType, LineType DEF Redacted, RedactedLine

\* Headers and assignments of a text of one line.
LEMMA RedactedLast ==
  ASSUME NEW l \in Text, LfFree(l)
  PROVE  Redacted(l) = RedactedLine(l)
BY HeaderType, HeaderKeepsLine, LastLine DEF Redacted, RedactedLine

LEMMA HeaderFeed ==
  ASSUME NEW l \in Text, LfFree(l), NEW t \in Text
  PROVE  Header(Joined(WithFeed(l), t)) = Joined(WithFeed(Header(l)), Header(t))
<1>1. /\ Joined(WithFeed(l), t) = Joined(l, Joined(LineFeed, t))
      /\ Joined(LineFeed, t) \in Text /\ FromLf(Joined(LineFeed, t))
  BY FeedBehind
<1>2. Header(Joined(l, Joined(LineFeed, t))) = Joined(Header(l), Header(Joined(LineFeed, t)))
  BY <1>1, HeaderApart
<1>3. Header(Joined(LineFeed, t)) = Joined(LineFeed, Header(t))
  <2>1. Joined(Alone("lf"), t)[1] = "lf" /\ "lf" \in Char /\ LineFeed = Alone("lf")
    BY FeedIs, AloneText
  <2>2. ~HeaderAt(Joined(Alone("lf"), t), 1)
    BY <2>1 DEF HeaderAt
  <2> QED BY <2>1, <2>2, HeaderChar
<1>4. Header(l) \in Text /\ Header(t) \in Text
  BY HeaderType
<1>5. Joined(WithFeed(Header(l)), Header(t)) = Joined(Header(l), Joined(LineFeed, Header(t)))
  BY <1>4, FeedBehind
<1> QED BY <1>1, <1>2, <1>3, <1>5

\* Headers and assignments of the first line of several.
LEMMA RedactedFirst ==
  ASSUME NEW l \in Text, LfFree(l), NEW t \in Text
  PROVE  Redacted(Joined(WithFeed(l), t)) = Joined(WithFeed(RedactedLine(l)), Redacted(t))
<1>1. Header(l) \in Text /\ Header(t) \in Text /\ LfFree(Header(l))
  BY HeaderType, HeaderKeepsLine
<1>2. Header(Joined(WithFeed(l), t)) = Joined(WithFeed(Header(l)), Header(t))
  BY HeaderFeed
<1>3. Assign(Joined(WithFeed(Header(l)), Header(t))) = Joined(WithFeed(Line(Header(l))), Assign(Header(t)))
  BY <1>1, FirstLine
<1> QED BY <1>2, <1>3 DEF Redacted, RedactedLine

\* No pass changes the mask.
LEMMA MaskStays ==
  /\ LfFree(Mask) /\ Header(Mask) = Mask /\ Line(Mask) = Mask /\ Mask \in Text
  /\ \A t \in Text : Once(Joined(Mask, t)) = Joined(Mask, Once(t))
  /\ Once(Mask) = Mask
<1>9. <<>> \in Text
  BY DEF Text
<1>1. Mask = Alone("M") /\ "M" \in Char /\ Mask \in Text /\ <<>> \in Text
  BY <1>9, PatternTypes, RedactionChars
<1>2. "M" # ":"
  OBVIOUS
<1>3. Line(Mask) = Mask
  BY <1>1, LineType
<1>4. \A t \in Text : Once(Joined(Mask, t)) = Joined(Mask, Once(t))
  BY <1>1, <1>2, OnceOther
<1>5. Joined(Mask, <<>>) = Mask
  BY <1>1, Regrouped
<1>6. Once(Mask) = Mask
  BY <1>1, <1>4, <1>5, OnceNothing
<1>7. Header(Mask) = Mask
  <2>1. Joined(Alone("M"), <<>>)[1] = "M"
    BY <1>1, AloneText
  <2>2. ~HeaderAt(Joined(Alone("M"), <<>>), 1)
    BY <2>1 DEF HeaderAt
  <2>3. Header(Joined(Alone("M"), <<>>)) = Joined(Alone("M"), Header(<<>>))
    BY <1>1, <2>2, HeaderChar
  <2> QED BY <1>1, <1>5, <2>3, HeaderNothing
<1>8. LfFree(Mask)
  <2>1. Single(Mask) /\ Mask[1] = "M"
    BY PatternTypes
  <2>2. \A j \in 1 .. Len(Mask) : j = 1
    BY <1>1, <2>1, SingleIs
  <2> QED BY <2>1, <2>2 DEF LfFree
<1> QED BY <1>1, <1>3, <1>4, <1>6, <1>7, <1>8

\* A redacted line stays as it is.
LEMMA RedactedLineStays ==
  ASSUME NEW l \in Text, LfFree(l)
  PROVE  LfFree(RedactedLine(l)) /\ RedactedLine(RedactedLine(l)) = RedactedLine(l)
<1>1. Header(l) \in Text /\ LfFree(Header(l)) /\ Header(Header(l)) = Header(l)
  BY HeaderType, HeaderKeepsLine, HeaderTwice
<1>2. Line(Header(l)) = Header(l) \/ Line(Header(l)) = Mask
  BY <1>1, LineType
<1> QED BY <1>1, <1>2, MaskStays DEF RedactedLine

\* The last two passes change nothing when they are repeated.
LEMMA RedactedTwice ==
  ASSUME NEW s \in Text
  PROVE  Redacted(Redacted(s)) = Redacted(s)
<1> DEFINE P(z) == Redacted(Redacted(z)) = Redacted(z)
           G == {z \in Text : P(z)}
<1>1. ASSUME NEW z \in Text, \A h \in Text : Len(h) < Len(z) => P(h)
      PROVE  P(z)
  <2>1. CASE LfFree(z)
    <3>1. Redacted(z) = RedactedLine(z) /\ RedactedLine(z) \in Text
      BY <2>1, RedactedLast, RedactedType
    <3>2. LfFree(RedactedLine(z)) /\ RedactedLine(RedactedLine(z)) = RedactedLine(z)
      BY <2>1, RedactedLineStays
    <3>3. Redacted(RedactedLine(z)) = RedactedLine(RedactedLine(z))
      BY <3>1, <3>2, RedactedLast
    <3> QED BY <3>1, <3>2, <3>3
  <2>2. CASE \E l, t : BeginsWithLine(z, l, t)
    <3>1. PICK l, t : BeginsWithLine(z, l, t)
      BY <2>2
    <3>2. z = Joined(WithFeed(l), t) /\ l \in Text /\ t \in Text /\ LfFree(l) /\ Len(t) < Len(z)
      BY <3>1 DEF BeginsWithLine
    <3>3. Redacted(z) = Joined(WithFeed(RedactedLine(l)), Redacted(t))
      BY <3>2, RedactedFirst
    <3>4. /\ RedactedLine(l) \in Text /\ Redacted(t) \in Text /\ LfFree(RedactedLine(l))
          /\ RedactedLine(RedactedLine(l)) = RedactedLine(l)
      BY <3>2, RedactedType, RedactedLineStays
    <3>5. Redacted(Redacted(z)) = Joined(WithFeed(RedactedLine(RedactedLine(l))), Redacted(Redacted(t)))
      BY <3>3, <3>4, RedactedFirst
    <3>6. Redacted(Redacted(t)) = Redacted(t)
      BY <1>1, <3>2
    <3> QED BY <3>3, <3>4, <3>5, <3>6
  <2> QED BY <2>1, <2>2, LineBeginning
<1>2. G = Text
  <2>1. \A h \in Text : (\A g \in Text : Len(g) < Len(h) => g \in G) => h \in G
    BY <1>1
  <2>2. G \in SUBSET Text
    OBVIOUS
  <2> HIDE DEF G
  <2> QED BY <2>1, <2>2, TextInduction
<1>3. s \in G
  BY <1>2
<1> QED BY <1>3

\* Masking lines leaves URLs as the pass over the URLs leaves them.
LEMMA AssignKeepsURLs ==
  ASSUME NEW s \in Text, Once(s) = s
  PROVE  Once(Assign(s)) = Assign(s)
<1> DEFINE P(z) == Once(z) = z => Once(Assign(z)) = Assign(z)
           G == {z \in Text : P(z)}
<1>1. ASSUME NEW z \in Text, \A h \in Text : Len(h) < Len(z) => P(h)
      PROVE  P(z)
  <2> SUFFICES ASSUME Once(z) = z PROVE Once(Assign(z)) = Assign(z)
    OBVIOUS
  <2>1. CASE LfFree(z)
    <3>1. Assign(z) = z \/ Assign(z) = Mask
      BY <2>1, LastLine, LineType
    <3> QED BY <3>1, MaskStays
  <2>2. CASE \E l, t : BeginsWithLine(z, l, t)
    <3>1. PICK l, t : BeginsWithLine(z, l, t)
      BY <2>2
    <3>2. z = Joined(WithFeed(l), t) /\ l \in Text /\ t \in Text /\ LfFree(l) /\ Len(t) < Len(z)
      BY <3>1 DEF BeginsWithLine
    <3>3. /\ z = Joined(l, Joined(LineFeed, t))
          /\ Joined(LineFeed, t) \in Text /\ Blank(Joined(LineFeed, t))
      BY <3>2, FeedBehind
    <3>4. Once(l) = l /\ Once(Joined(LineFeed, t)) = Joined(LineFeed, t)
      BY <3>2, <3>3, OnceApart DEF Apart
    <3>5. \A u \in Text : Once(Joined(LineFeed, u)) = Joined(LineFeed, Once(u))
      <4>1. LineFeed = Alone("lf") /\ "lf" \in Char
        BY FeedIs
      <4>2. "lf" # ":"
        OBVIOUS
      <4> QED BY <4>1, <4>2, OnceOther
    <3>6. Once(t) = t
      <4>1. Joined(LineFeed, Once(t)) = Joined(LineFeed, t) /\ Once(t) \in Text /\ LineFeed \in Text
        BY <3>2, <3>4, <3>5, OnceType, FeedIs
      <4> QED BY <3>2, <4>1, SameRest
    <3>7. Once(Assign(t)) = Assign(t) /\ Assign(t) \in Text
      BY <1>1, <3>2, <3>6, AssignType
    <3>8. Once(Line(l)) = Line(l) /\ Line(l) \in Text
      BY <3>2, <3>4, LineType, MaskStays
    <3>9. Assign(z) = Joined(WithFeed(Line(l)), Assign(t))
      BY <3>2, FirstLine
    <3>10. /\ Assign(z) = Joined(Line(l), Joined(LineFeed, Assign(t)))
           /\ Joined(LineFeed, Assign(t)) \in Text /\ Blank(Joined(LineFeed, Assign(t)))
      BY <3>7, <3>8, <3>9, FeedBehind
    <3>11. Once(Assign(z)) = Joined(Once(Line(l)), Once(Joined(LineFeed, Assign(t))))
      BY <3>8, <3>10, OnceApart DEF Apart
    <3> QED BY <3>5, <3>7, <3>8, <3>10, <3>11
  <2> QED BY <2>1, <2>2, LineBeginning
<1>2. G = Text
  <2>1. \A h \in Text : (\A g \in Text : Len(g) < Len(h) => g \in G) => h \in G
    BY <1>1
  <2>2. G \in SUBSET Text
    OBVIOUS
  <2> HIDE DEF G
  <2> QED BY <2>1, <2>2, TextInduction
<1>3. s \in G
  BY <1>2
<1> QED BY <1>3

\* The fixed point of Redact.
Settled(r) == Once(r) = r /\ Redacted(r) = r

\* What Redact returns is left as it is by every pass of Redact.
LEMMA RedactedSettles ==
  ASSUME NEW s \in Text, Once(s) = s
  PROVE  Settled(Redacted(s))
<1>1. <<>> \in Text /\ Header(s) \in Text
  BY HeaderType DEF Text
<1>2. FixedBehind(<<>>, s)
  BY Regrouped DEF FixedBehind
<1>3. FixedBehind(<<>>, Header(s))
  BY <1>1, <1>2, HeaderKeepsURLs
<1>4. Once(Header(s)) = Header(s)
  BY <1>1, <1>3, Regrouped DEF FixedBehind
<1>5. Once(Redacted(s)) = Redacted(s)
  BY <1>1, <1>4, AssignKeepsURLs DEF Redacted
<1> QED BY <1>5, RedactedTwice DEF Settled

-----------------------------------------------------------------------------
(***************************************************************************)
(* What a secret is attached to stands right before it: an assignment or a *)
(* header.  A character that is part of neither cuts it off from what      *)
(* stands further ahead.                                                   *)
(***************************************************************************)
Separator(c) == c \in {"=", ":"}
Key(c) == c \in Keys
Free(c) == c \notin Alphanumeric
Assigned(s, i) ==
  i > 2 /\ Separator(s[i - 1]) /\ Key(s[i - 2]) /\ (i > 3 => Free(s[i - 3]))
Titled(s, i) == i > 3 /\ HeaderAt(s, i - 3)
Cuts(c) == c # "p" /\ ~Separator(c) /\ ~Key(c) /\ c # " "

LEMMA AssignedIs ==
  ASSUME NEW s, NEW i
  PROVE  (InAssignment(s, i) => Assigned(s, i)) /\ (Assigned(s, i) => InAssignment(s, i))
BY DEF InAssignment, Assigned, Separator, Key, Free

LEMMA TitledIs ==
  ASSUME NEW s \in Text, NEW i \in 1 .. Len(s)
  PROVE  InHeader(s, i) => Titled(s, i)
<1> SUFFICES ASSUME InHeader(s, i) PROVE Titled(s, i)
  OBVIOUS
<1>1. i > 3 /\ Matches(s, AuthHeader, i - 3)
  BY DEF InHeader
<1>2. Len(s) \in Nat
  BY TextLength
<1>3. i > 3
  BY <1>1
<1>4. i - 3 \in Nat \ {0}
  BY <1>2, <1>3
<1>5. HeaderAt(s, i - 3)
  BY <1>1, <1>4, HeaderIs
<1> QED BY <1>3, <1>5 DEF Titled

LEMMA CutsAre == Cuts("@") /\ Cuts("lf")
BY DEF Cuts, Separator, Key, Keys

LEMMA CutsSpell == Separator(":") /\ Key("A")
BY DEF Separator, Key, Keys

\* The characters before a place, seen from further ahead.
LEMMA BeforeBehind ==
  ASSUME NEW d \in Text, NEW u \in Text, NEW i \in 1 .. Len(u), NEW k \in 1 .. 3, k < i
  PROVE  /\ Joined(d, u)[(Len(d) + i) - k] = u[i - k] /\ i - k \in 1 .. Len(u)
         /\ (Len(d) + i) - k = Len(d) + (i - k)
<1>1. Len(d) \in Nat /\ Len(u) \in Nat
  BY TextLength
<1>2. i - k \in 1 .. Len(u) /\ (Len(d) + i) - k = Len(d) + (i - k)
  BY <1>1
<1>3. Joined(d, u)[Len(d) + (i - k)] = u[i - k]
  BY <1>2, TextJoined
<1> QED BY <1>2, <1>3

\* Behind a character that cuts off, what a secret is attached to is behind it
\* too.
LEMMA CutOff ==
  ASSUME NEW d \in Text, NEW u \in Text, NEW i \in 1 .. Len(u), u[i] = "p", Cuts(u[1])
  PROVE  /\ Assigned(Joined(d, u), Len(d) + i) => i > 3 /\ Assigned(u, i)
         /\ Titled(Joined(d, u), Len(d) + i) => Titled(u, i)
<1> DEFINE s == Joined(d, u)
           n == Len(d) + i
<1>1. Len(d) \in Nat /\ Len(u) \in Nat
  BY TextLength
<1>2. \A k \in 1 .. 3 : k < i => s[n - k] = u[i - k] /\ n - k = Len(d) + (i - k)
  BY BeforeBehind
<1> HIDE DEF s, n
<1>3. 1 \in 1 .. 3 /\ 2 \in 1 .. 3 /\ 3 \in 1 .. 3
  OBVIOUS
<1>4. i # 1
  BY DEF Cuts
<1>5. 1 < i
  BY <1>4
<1>6. s[n - 1] = u[i - 1]
  BY <1>2, <1>3, <1>5
<1>7. i = 2 => i - 1 = 1
  OBVIOUS
<1>8. ASSUME Assigned(s, n) PROVE i > 3 /\ Assigned(u, i)
  <2>1. Separator(s[n - 1]) /\ Key(s[n - 2]) /\ (n > 3 => Free(s[n - 3]))
    BY <1>8 DEF Assigned
  <2>2. i # 2
    <3>1. Separator(u[i - 1])
      BY <1>6, <2>1
    <3> QED BY <1>7, <3>1 DEF Cuts
  <2>3. 2 < i
    BY <1>5, <2>2
  <2>4. s[n - 2] = u[i - 2]
    BY <1>2, <1>3, <2>3
  <2>5. i # 3
    <3>1. i = 3 => i - 2 = 1
      OBVIOUS
    <3>2. Key(u[i - 2])
      BY <2>1, <2>4
    <3> QED BY <3>1, <3>2 DEF Cuts
  <2>6. 3 < i /\ i > 3 /\ i > 2
    BY <2>3, <2>5
  <2>7. s[n - 3] = u[i - 3]
    BY <1>2, <1>3, <2>6
  <2>8. n > 3
    BY <1>1, <2>6 DEF n
  <2> QED BY <1>6, <2>1, <2>4, <2>6, <2>7, <2>8 DEF Assigned
<1>9. ASSUME Titled(s, n) PROVE Titled(u, i)
  <2>1. HeaderAt(s, n - 3) /\ n > 3
    BY <1>9 DEF Titled
  <2>2. s[n - 3] = "A" /\ s[(n - 3) + 1] = ":" /\ s[(n - 3) + 2] = " "
    BY <2>1 DEF HeaderAt
  <2>3. (n - 3) + 1 = n - 2 /\ (n - 3) + 2 = n - 1
    BY <1>1 DEF n
  <2>4. s[n - 3] = "A" /\ s[n - 2] = ":" /\ s[n - 1] = " "
    BY <2>2, <2>3
  <2>5. i # 2
    <3>1. u[i - 1] = " "
      BY <1>6, <2>4
    <3> QED BY <1>7, <3>1 DEF Cuts
  <2>6. 2 < i
    BY <1>5, <2>5
  <2>7. s[n - 2] = u[i - 2]
    BY <1>2, <1>3, <2>6
  <2>8. i # 3
    <3>1. i = 3 => i - 2 = 1
      OBVIOUS
    <3>2. Separator(u[i - 2])
      BY <2>4, <2>7, CutsSpell
    <3> QED BY <3>1, <3>2 DEF Cuts
  <2>9. 3 < i
    BY <2>6, <2>8
  <2>10. n - 3 = Len(d) + (i - 3)
    BY <1>2, <1>3, <2>9
  <2>11. i - 3 \in Nat \ {0}
    BY <2>9
  <2>12. HeaderAt(Joined(d, u), Len(d) + (i - 3))
    BY <2>1, <2>10 DEF s
  <2>13. HeaderAt(u, i - 3)
    BY <2>11, <2>12, HeaderNameBehind
  <2> QED BY <2>9, <2>13 DEF Titled
<1> QED BY <1>8, <1>9 DEF s, n

\* Further back a secret stays attached to what it is attached to.
LEMMA Deeper ==
  ASSUME NEW d \in Text, NEW u \in Text, NEW i \in 1 .. Len(u)
  PROVE  /\ i > 3 /\ Assigned(u, i) => Assigned(Joined(d, u), Len(d) + i)
         /\ Titled(u, i) => Titled(Joined(d, u), Len(d) + i)
<1> DEFINE s == Joined(d, u)
           n == Len(d) + i
<1>1. Len(d) \in Nat /\ Len(u) \in Nat
  BY TextLength
<1>2. \A k \in 1 .. 3 : k < i => s[n - k] = u[i - k] /\ n - k = Len(d) + (i - k)
  BY BeforeBehind
<1>3. 1 \in 1 .. 3 /\ 2 \in 1 .. 3 /\ 3 \in 1 .. 3
  OBVIOUS
<1>4. i > 3 => 1 < i /\ 2 < i /\ 3 < i /\ n > 2 /\ n > 3 /\ i - 3 \in Nat \ {0}
  BY <1>1
<1>5. ASSUME i > 3, Titled(u, i) PROVE Titled(s, n)
  <2>1. HeaderAt(u, i - 3)
    BY <1>5 DEF Titled
  <2>2. HeaderAt(s, Len(d) + (i - 3))
    BY <1>4, <1>5, <2>1, HeaderNameBehind
  <2>3. n - 3 = Len(d) + (i - 3)
    BY <1>2, <1>3, <1>4, <1>5
  <2> HIDE DEF s, n
  <2> QED BY <1>4, <1>5, <2>2, <2>3 DEF Titled
<1> HIDE DEF s, n
<1>6. ASSUME i > 3, Assigned(u, i) PROVE Assigned(s, n)
  <2>1. s[n - 1] = u[i - 1] /\ s[n - 2] = u[i - 2] /\ s[n - 3] = u[i - 3]
    BY <1>2, <1>3, <1>4, <1>6
  <2> QED BY <1>4, <1>6, <2>1 DEF Assigned
<1>7. Titled(u, i) => i > 3
  BY DEF Titled
<1> QED BY <1>5, <1>6, <1>7 DEF s, n

\* What follows does not matter.
LEMMA Ahead ==
  ASSUME NEW x \in Text, NEW t \in Text, NEW i \in 1 .. Len(x)
  PROVE  /\ Assigned(Joined(x, t), i) => Assigned(x, i)
         /\ Assigned(x, i) => Assigned(Joined(x, t), i)
         /\ Titled(Joined(x, t), i) => Titled(x, i)
         /\ Titled(x, i) => Titled(Joined(x, t), i)
<1> DEFINE s == Joined(x, t)
<1>1. Len(s) = Len(x) + Len(t) /\ \A j \in 1 .. Len(x) : s[j] = x[j]
  BY TextJoined
<1>2. Len(x) \in Nat /\ Len(t) \in Nat /\ Len(s) = Len(x) + Len(t)
  BY <1>1, TextLength
<1> HIDE DEF s
<1>3. /\ i > 1 => i - 1 \in 1 .. Len(x)
      /\ i > 2 => i - 2 \in 1 .. Len(x) /\ i > 1
      /\ i > 3 => i - 3 \in 1 .. Len(x) /\ i > 2
  BY <1>2
<1>4. /\ i > 1 => s[i - 1] = x[i - 1]
      /\ i > 2 => s[i - 2] = x[i - 2]
      /\ i > 3 => s[i - 3] = x[i - 3]
  BY <1>1, <1>3
<1>5. /\ Assigned(s, i) => Assigned(x, i)
      /\ Assigned(x, i) => Assigned(s, i)
  BY <1>3, <1>4 DEF Assigned
<1>6. /\ (i - 3) + 2 <= Len(s) /\ (i - 3) + 2 <= Len(x)
      /\ (i - 3) + 1 = i - 2 /\ (i - 3) + 2 = i - 1
  BY <1>2
<1>7. /\ Titled(s, i) => Titled(x, i)
      /\ Titled(x, i) => Titled(s, i)
  BY <1>3, <1>4, <1>6 DEF Titled, HeaderAt
<1> QED BY <1>5, <1>7 DEF s

-----------------------------------------------------------------------------
(***************************************************************************)
(* Secrets of a text that stands behind another one: each is attached to   *)
(* an assignment or, if headers count, to a header.                        *)
(***************************************************************************)
AttIn(h, z, s, i) ==
  Assigned(Joined(z, s), Len(z) + i) \/ (h /\ Titled(Joined(z, s), Len(z) + i))
Attached(h, z, s) == \A i \in 1 .. Len(s) : s[i] = "p" => AttIn(h, z, s, i)
NoSecret(s) == \A i \in 1 .. Len(s) : s[i] # "p"

\* A secret of a part, seen from the whole.
LEMMA AttRegroup ==
  ASSUME NEW h \in BOOLEAN, NEW z \in Text, NEW x \in Text, NEW t \in Text, NEW i \in 1 .. Len(t)
  PROVE  /\ AttIn(h, Joined(z, x), t, i) => AttIn(h, z, Joined(x, t), Len(x) + i)
         /\ AttIn(h, z, Joined(x, t), Len(x) + i) => AttIn(h, Joined(z, x), t, i)
         /\ Len(x) + i \in 1 .. Len(Joined(x, t)) /\ Joined(x, t)[Len(x) + i] = t[i]
<1>1. Joined(Joined(z, x), t) = Joined(z, Joined(x, t))
  BY Regrouped
<1>2. Len(Joined(z, x)) = Len(z) + Len(x)
  BY TextJoined
<1>3. Len(z) \in Nat /\ Len(x) \in Nat /\ Len(t) \in Nat
  BY TextLength
<1>4. Len(Joined(z, x)) + i = Len(z) + (Len(x) + i)
  BY <1>2, <1>3
<1>5. Len(Joined(x, t)) = Len(x) + Len(t) /\ Joined(x, t)[Len(x) + i] = t[i]
  BY TextJoined
<1>6. Len(Joined(x, t)) = Len(x) + Len(t)
  BY <1>5
<1>7. Len(x) + i \in 1 .. Len(Joined(x, t))
  BY <1>3, <1>6
<1> QED BY <1>1, <1>4, <1>5, <1>7 DEF AttIn

\* A secret ahead of the rest.
LEMMA AttAhead ==
  ASSUME NEW h \in BOOLEAN, NEW z \in Text, NEW x \in Text, NEW t \in Text, NEW i \in 1 .. Len(x)
  PROVE  /\ AttIn(h, z, Joined(x, t), i) => AttIn(h, z, x, i)
         /\ AttIn(h, z, x, i) => AttIn(h, z, Joined(x, t), i)
         /\ i \in 1 .. Len(Joined(x, t)) /\ Joined(x, t)[i] = x[i]
<1> DEFINE y == Joined(z, x)
           n == Len(z) + i
<1>1. Joined(y, t) = Joined(z, Joined(x, t)) /\ y \in Text
  BY Regrouped
<1>2. Len(y) = Len(z) + Len(x)
  BY TextJoined
<1>3. Len(z) \in Nat /\ Len(x) \in Nat /\ Len(t) \in Nat
  BY TextLength
<1> HIDE DEF y
<1>4. n \in 1 .. Len(y)
  BY <1>2, <1>3
<1> HIDE DEF n
<1>5. /\ Assigned(Joined(y, t), n) => Assigned(y, n)
      /\ Assigned(y, n) => Assigned(Joined(y, t), n)
      /\ Titled(Joined(y, t), n) => Titled(y, n)
      /\ Titled(y, n) => Titled(Joined(y, t), n)
  BY <1>1, <1>4, Ahead
<1>6. Len(Joined(x, t)) = Len(x) + Len(t) /\ Joined(x, t)[i] = x[i]
  BY TextJoined
<1>7. Len(Joined(x, t)) = Len(x) + Len(t)
  BY <1>6
<1>8. i \in 1 .. Len(Joined(x, t))
  BY <1>3, <1>7
<1> QED BY <1>1, <1>5, <1>6, <1>8 DEF AttIn, y, n

LEMMA PlaceBehind ==
  ASSUME NEW x \in Text, NEW t \in Text, NEW i \in 1 .. Len(t)
  PROVE  Len(x) + i \in 1 .. Len(Joined(x, t)) /\ Joined(x, t)[Len(x) + i] = t[i]
<1>1. Len(x) \in Nat /\ Len(t) \in Nat
  BY TextLength
<1>2. Len(Joined(x, t)) = Len(x) + Len(t) /\ Joined(x, t)[Len(x) + i] = t[i]
  BY TextJoined
<1>3. Len(Joined(x, t)) = Len(x) + Len(t)
  BY <1>2
<1>4. Len(x) + i \in 1 .. Len(Joined(x, t))
  BY <1>1, <1>3
<1> QED BY <1>2, <1>4

\* Behind a character that cuts off, a secret is attached whatever stands
\* ahead.
LEMMA AttElsewhere ==
  ASSUME NEW h \in BOOLEAN, NEW d \in Text, NEW e \in Text, NEW u \in Text, NEW i \in 1 .. Len(u),
         u[i] = "p", Cuts(u[1]), AttIn(h, d, u, i)
  PROVE  AttIn(h, e, u, i)
<1>1. CASE Assigned(Joined(d, u), Len(d) + i)
  BY <1>1, CutOff, Deeper DEF AttIn
<1>2. CASE h /\ Titled(Joined(d, u), Len(d) + i)
  BY <1>2, CutOff, Deeper DEF AttIn
<1> QED BY <1>1, <1>2 DEF AttIn

\* Texts whose secrets are attached, one behind the other.
LEMMA AttachedJoined ==
  ASSUME NEW h \in BOOLEAN, NEW z \in Text, NEW x \in Text, NEW t \in Text,
         Attached(h, z, x), Attached(h, Joined(z, x), t)
  PROVE  Attached(h, z, Joined(x, t))
<1> SUFFICES ASSUME NEW i \in 1 .. Len(Joined(x, t)), Joined(x, t)[i] = "p"
             PROVE  AttIn(h, z, Joined(x, t), i)
  BY DEF Attached
<1>1. Len(x) \in Nat /\ Len(t) \in Nat
  BY TextLength
<1>2. Len(Joined(x, t)) = Len(x) + Len(t)
  BY TextJoined
<1>3. CASE i \in 1 .. Len(x)
  <2>1. x[i] = "p"
    BY <1>3, AttAhead
  <2>2. AttIn(h, z, x, i)
    BY <1>3, <2>1 DEF Attached
  <2> QED BY <1>3, <2>2, AttAhead
<1>4. CASE i \notin 1 .. Len(x)
  <2> DEFINE j == i - Len(x)
  <2>1. j \in 1 .. Len(t) /\ Len(x) + j = i
    BY <1>1, <1>2, <1>4
  <2> HIDE DEF j
  <2>2. t[j] = "p"
    BY <2>1, AttRegroup
  <2>3. AttIn(h, Joined(z, x), t, j)
    BY <2>1, <2>2 DEF Attached
  <2> QED BY <2>1, <2>3, AttRegroup
<1> QED BY <1>3, <1>4

LEMMA NothingAttached ==
  ASSUME NEW h, NEW z, NEW x, NoSecret(x)
  PROVE  Attached(h, z, x)
BY DEF Attached, NoSecret

\* Texts without secrets, one behind the other.
LEMMA NoSecretJoined ==
  ASSUME NEW x \in Text, NEW t \in Text, NoSecret(x), NoSecret(t)
  PROVE  NoSecret(Joined(x, t))
<1> SUFFICES ASSUME NEW i \in 1 .. Len(Joined(x, t)) PROVE Joined(x, t)[i] # "p"
  BY DEF NoSecret
<1>1. Len(x) \in Nat /\ Len(t) \in Nat
  BY TextLength
<1>2. /\ Len(Joined(x, t)) = Len(x) + Len(t) /\ (\A j \in 1 .. Len(x) : Joined(x, t)[j] = x[j])
      /\ \A j \in 1 .. Len(t) : Joined(x, t)[Len(x) + j] = t[j]
  BY TextJoined
<1>5. Len(Joined(x, t)) = Len(x) + Len(t)
  BY <1>2
<1>3. CASE i \in 1 .. Len(x)
  BY <1>2, <1>3 DEF NoSecret
<1>4. CASE i \notin 1 .. Len(x)
  <2>1. i - Len(x) \in 1 .. Len(t) /\ Len(x) + (i - Len(x)) = i
    BY <1>1, <1>4, <1>5
  <2>2. Joined(x, t)[i] = t[i - Len(x)]
    BY <1>2, <2>1
  <2> QED BY <2>1, <2>2 DEF NoSecret
<1> QED BY <1>3, <1>4

\* What the passes write of their own holds no secret.
LEMMA PatternsNoSecret ==
  NoSecret(Mask) /\ NoSecret(SchemeMask) /\ NoSecret(HeaderMask) /\ NoSecret(LineFeed)
<1>1. NoSecret(Mask)
  <2>1. \A j \in 1 .. Len(Mask) : j = 1
    BY PatternTypes, SingleIs
  <2> QED BY <2>1, PatternTypes DEF NoSecret
<1>2. NoSecret(LineFeed)
  <2>1. Len(LineFeed) = 1
    BY FeedIs
  <2>2. \A j \in 1 .. Len(LineFeed) : j = 1
    BY <2>1
  <2> QED BY <2>2, FeedIs DEF NoSecret
<1>3. NoSecret(SchemeMask)
  <2>1. Len(SchemeMask) = 4
    BY SchemeMaskIs
  <2>2. \A j \in 1 .. Len(SchemeMask) : j = 1 \/ j = 2 \/ j = 3 \/ j = 4
    BY <2>1
  <2> QED BY <2>2, SchemeMaskIs DEF NoSecret
<1>4. NoSecret(HeaderMask)
  <2>1. Len(HeaderMask) = 4
    BY HeaderMaskIs
  <2>2. \A j \in 1 .. Len(HeaderMask) : j = 1 \/ j = 2 \/ j = 3 \/ j = 4
    BY <2>1
  <2> QED BY <2>2, HeaderMaskIs DEF NoSecret
<1> QED BY <1>1, <1>2, <1>3, <1>4

-----------------------------------------------------------------------------
(***************************************************************************)
(* After the pass over the headers every secret is assigned.               *)
(***************************************************************************)
HeaderReady(z, s) ==
  \A i \in 1 .. Len(s) : s[i] = "p" => AttIn(FALSE, z, s, i) \/ Titled(s, i)

\* Going over a character that begins no header.
LEMMA ReadyBehindChar ==
  ASSUME NEW z \in Text, NEW s, NEW c, NEW t, HeaderChars(s, c, t), HeaderReady(z, s)
  PROVE  Attached(FALSE, z, Alone(c)) /\ HeaderReady(Joined(z, Alone(c)), t)
<1> DEFINE x == Alone(c)
<1>1. s = Joined(x, t) /\ c \in Char /\ t \in Text /\ ~HeaderAt(s, 1)
  BY DEF HeaderChars
<1>2. x \in Text /\ Len(x) = 1 /\ x[1] = c
  BY <1>1, AloneIs DEF Single
<1> HIDE DEF x
<1>3. Attached(FALSE, z, x)
  <2> SUFFICES ASSUME NEW i \in 1 .. Len(x), x[i] = "p" PROVE AttIn(FALSE, z, x, i)
    BY DEF Attached
  <2>1. i \in 1 .. Len(s) /\ s[i] = "p"
    BY <1>1, <1>2, AttAhead
  <2>2. Len(x) = 1
    BY <1>2
  <2>3. i = 1 /\ ~(i > 3)
    BY <2>2
  <2>4. AttIn(FALSE, z, s, i)
    BY <2>1, <2>3 DEF HeaderReady, Titled
  <2> QED BY <1>1, <1>2, <2>4, AttAhead
<1>4. HeaderReady(Joined(z, x), t)
  <2> SUFFICES ASSUME NEW i \in 1 .. Len(t), t[i] = "p"
               PROVE  AttIn(FALSE, Joined(z, x), t, i) \/ Titled(t, i)
    BY DEF HeaderReady
  <2>1. Len(x) + i \in 1 .. Len(s) /\ s[Len(x) + i] = "p"
    BY <1>1, <1>2, PlaceBehind
  <2>2. CASE AttIn(FALSE, z, s, Len(x) + i)
    BY <1>1, <1>2, <2>2, AttRegroup
  <2>3. CASE Titled(s, Len(x) + i)
    <3>1. Len(x) + i > 3 /\ HeaderAt(s, (Len(x) + i) - 3)
      BY <2>3 DEF Titled
    <3>2. Len(x) = 1
      BY <1>2
    <3>3. Len(x) + i > 3
      BY <3>1
    <3>4. (Len(x) + i) - 3 # 1
      BY <1>1, <3>1
    <3>5. i > 3 /\ i - 3 \in Nat \ {0} /\ (Len(x) + i) - 3 = Len(x) + (i - 3)
      BY <3>2, <3>3, <3>4
    <3>6. HeaderAt(Joined(x, t), Len(x) + (i - 3))
      BY <1>1, <3>1, <3>5
    <3>7. HeaderAt(t, i - 3)
      BY <1>1, <1>2, <3>5, <3>6, HeaderNameBehind
    <3> QED BY <3>5, <3>7 DEF Titled
  <2> QED BY <2>1, <2>2, <2>3 DEF HeaderReady
<1> QED BY <1>3, <1>4 DEF x

\* Going over a header with its line.
LEMMA ReadyBehindLine ==
  ASSUME NEW z \in Text, NEW s, NEW u, NEW t, HeaderLine(s, u, t), HeaderReady(z, s), NEW e \in Text
  PROVE  HeaderReady(e, t)
<1> DEFINE x == Joined(AuthHeader, u)
<1>1. s = Joined(AuthHeader, Joined(u, t)) /\ u \in Text /\ t \in Text /\ FromLf(t)
  BY DEF HeaderLine
<1>2. AuthHeader \in Text
  BY PatternTypes
<1>3. s = Joined(x, t) /\ x \in Text
  BY <1>1, <1>2, Regrouped
<1> HIDE DEF x
<1> SUFFICES ASSUME NEW i \in 1 .. Len(t), t[i] = "p"
             PROVE  AttIn(FALSE, e, t, i) \/ Titled(t, i)
  BY DEF HeaderReady
<1>4. Cuts(t[1])
  <2>1. t # <<>>
    <3>1. Len(t) # 0
      OBVIOUS
    <3> QED BY <3>1
  <2>2. t[1] = "lf"
    BY <1>1, <2>1 DEF FromLf
  <2> QED BY <2>2, CutsAre
<1>5. Len(x) + i \in 1 .. Len(s) /\ s[Len(x) + i] = "p"
  BY <1>1, <1>3, PlaceBehind
<1>6. CASE AttIn(FALSE, z, s, Len(x) + i)
  <2>1. AttIn(FALSE, Joined(z, x), t, i)
    BY <1>1, <1>3, <1>6, AttRegroup
  <2>2. Joined(z, x) \in Text
    BY <1>3, TextJoined
  <2> QED BY <1>1, <1>4, <2>1, <2>2, AttElsewhere
<1>7. CASE Titled(s, Len(x) + i)
  BY <1>1, <1>3, <1>4, <1>7, CutOff
<1> QED BY <1>5, <1>6, <1>7 DEF HeaderReady

\* The pass over the headers leaves secrets only with assignments.
LEMMA HeaderAttached ==
  ASSUME NEW s \in Text, NEW v \in Text, HeaderReady(v, s)
  PROVE  Attached(FALSE, v, Header(s))
<1> DEFINE P(r) == \A z \in Text : HeaderReady(z, r) => Attached(FALSE, z, Header(r))
           G == {r \in Text : P(r)}
<1>1. ASSUME NEW r \in Text, \A h \in Text : Len(h) < Len(r) => P(h)
      PROVE  P(r)
  <2> SUFFICES ASSUME NEW z \in Text, HeaderReady(z, r) PROVE Attached(FALSE, z, Header(r))
    OBVIOUS
  <2>1. CASE r = <<>>
    <3>1. Header(r) = <<>>
      BY <2>1, HeaderNothing
    <3> QED BY <3>1 DEF Attached
  <2>2. CASE \E c, t : HeaderChars(r, c, t)
    <3>1. PICK c, t : HeaderChars(r, c, t)
      BY <2>2
    <3>2. /\ Header(r) = Joined(Alone(c), Header(t)) /\ t \in Text /\ Header(t) \in Text
          /\ Alone(c) \in Text
      BY <3>1, HeaderOfChar
    <3>3. Len(t) < Len(r)
      BY <3>1 DEF HeaderChars
    <3>4. Attached(FALSE, z, Alone(c)) /\ HeaderReady(Joined(z, Alone(c)), t)
      BY <3>1, ReadyBehindChar
    <3>5. Joined(z, Alone(c)) \in Text
      BY <3>2, TextJoined
    <3>6. Attached(FALSE, Joined(z, Alone(c)), Header(t))
      BY <1>1, <3>2, <3>3, <3>4, <3>5
    <3> QED BY <3>2, <3>4, <3>6, AttachedJoined
  <2>3. CASE \E u, t : HeaderLine(r, u, t)
    <3>1. PICK u, t : HeaderLine(r, u, t)
      BY <2>3
    <3>2. Header(r) = Joined(HeaderMask, Header(t)) /\ t \in Text /\ Header(t) \in Text
      BY <3>1, HeaderOfLine
    <3>3. Len(t) < Len(r)
      BY <3>1 DEF HeaderLine
    <3>4. HeaderMask \in Text /\ Joined(z, HeaderMask) \in Text
      BY HeaderMaskIs, TextJoined
    <3>5. HeaderReady(Joined(z, HeaderMask), t)
      BY <3>1, <3>4, ReadyBehindLine
    <3>6. Attached(FALSE, Joined(z, HeaderMask), Header(t))
      BY <1>1, <3>2, <3>3, <3>4, <3>5
    <3>7. Attached(FALSE, z, HeaderMask)
      BY PatternsNoSecret, NothingAttached
    <3> QED BY <3>2, <3>4, <3>6, <3>7, AttachedJoined
  <2> QED BY <2>1, <2>2, <2>3, HeaderBeginning
<1>2. G = Text
  <2>1. \A h \in Text : (\A g \in Text : Len(g) < Len(h) => g \in G) => h \in G
    BY <1>1
  <2>2. G \in SUBSET Text
    OBVIOUS
  <2> HIDE DEF G
  <2> QED BY <2>1, <2>2, TextInduction
<1>3. s \in G
  BY <1>2
<1> QED BY <1>3

-----------------------------------------------------------------------------
(***************************************************************************)
(* A line with an assigned secret becomes the mask.                        *)
(***************************************************************************)
AllAssigned(s) == \A i \in 1 .. Len(s) : s[i] = "p" => Assigned(s, i)

LEMMA SeparatorIs ==
  ASSUME NEW c, Separator(c)
  PROVE  c # " " /\ c # "\"" /\ c \in {":", "="}
BY DEF Separator

\* The line of an assigned secret is found (hasSensitiveAssignment).
LEMMA AssignedIsSensitive ==
  ASSUME NEW l \in Text, NEW i \in 1 .. Len(l), Assigned(l, i)
  PROVE  Line(l) = Mask
<1> DEFINE j == i - 2
           after == IF j < Len(l) /\ l[j + 1] = "\"" THEN j + 2 ELSE j + 1
           rest  == {m \in after .. Len(l) : l[m] # " "}
<1>1. Len(l) \in Nat
  BY TextLength
<1>2. i > 2 /\ Separator(l[i - 1]) /\ Key(l[i - 2]) /\ (i > 3 => Free(l[i - 3]))
  BY DEF Assigned
<1>3. i > 2
  BY <1>2
<1>4. /\ j \in 1 .. Len(l) /\ j < Len(l) /\ j + 1 = i - 1 /\ i - 1 \in 1 .. Len(l) /\ j - 1 = i - 3
      /\ (j # 1 => i > 3) /\ j \in 1 .. j /\ \A m \in j .. j : m = j
  BY <1>1, <1>3
<1>5. KeyAt(l, j)
  <2>1. l[j] \in Keys
    BY <1>2 DEF Key
  <2>2. j = 1 \/ l[j - 1] \notin Alphanumeric
    BY <1>2, <1>4 DEF Free
  <2>3. \A m \in j .. j : l[m] = l[j]
    BY <1>4
  <2> HIDE DEF j
  <2> QED BY <1>4, <2>1, <2>2, <2>3 DEF KeyAt
<1>6. l[i - 1] # " " /\ l[i - 1] # "\"" /\ l[i - 1] \in {":", "="}
  BY <1>2, SeparatorIs
<1>7. after = i - 1
  BY <1>4, <1>6
<1>8. rest \in SUBSET Nat /\ i - 1 \in rest /\ rest # {} /\ \A m \in rest : i - 1 <= m
  <2> HIDE DEF after
  <2>1. \A m \in rest : m \in after .. Len(l)
    OBVIOUS
  <2>2. \A m \in after .. Len(l) : m \in Nat /\ i - 1 <= m
    BY <1>1, <1>4, <1>7
  <2>3. i - 1 \in after .. Len(l)
    BY <1>1, <1>4, <1>7
  <2> QED BY <1>6, <2>1, <2>2, <2>3
<1> HIDE DEF rest
<1>9. Least(rest) \in rest /\ Least(rest) <= i - 1
  BY <1>8, LeastFacts
<1>10. Least(rest) = i - 1
  <2>1. Least(rest) \in Nat /\ i - 1 <= Least(rest)
    BY <1>8, <1>9
  <2> QED BY <1>9, <1>4, <2>1
<1>11. rest # {} /\ l[Least(rest)] \in {":", "="}
  BY <1>6, <1>8, <1>10
<1>12. hasSensitiveAssignment(l)
  <2> HIDE DEF j
  <2> QED BY <1>4, <1>5, <1>11 DEF hasSensitiveAssignment, rest, after
<1> QED BY <1>12 DEF Line, redactLineAssignments

\* What becomes of such a line holds no secret.
LEMMA LineWithout ==
  ASSUME NEW l \in Text, AllAssigned(l)
  PROVE  NoSecret(Line(l))
<1>1. CASE NoSecret(l)
  BY <1>1, LineType, PatternsNoSecret
<1>2. CASE ~NoSecret(l)
  <2>1. PICK i \in 1 .. Len(l) : l[i] = "p"
    BY <1>2 DEF NoSecret
  <2>2. Line(l) = Mask
    BY <2>1, AssignedIsSensitive DEF AllAssigned
  <2> QED BY <2>2, PatternsNoSecret
<1> QED BY <1>1, <1>2

\* Line by line.
LEMMA AllAssignedParts ==
  ASSUME NEW l \in Text, NEW t \in Text, AllAssigned(Joined(WithFeed(l), t))
  PROVE  AllAssigned(l) /\ AllAssigned(t)
<1> DEFINE u == Joined(LineFeed, t)
           s == Joined(l, u)
<1>1. s = Joined(WithFeed(l), t) /\ u \in Text /\ s \in Text
  BY FeedBehind, Regrouped
<1>2. LineFeed \in Text /\ Len(LineFeed) = 1 /\ LineFeed[1] = "lf" /\ LineFeed # <<>>
  BY FeedIs
<1>3. u[1] = "lf"
  BY <1>2, FirstOfJoined
<1>4. AllAssigned(s)
  BY <1>1
<1>7. \A i \in 1 .. Len(t) : 1 + i \in 1 .. Len(u) /\ u[1 + i] = t[i]
  <2>1. \A i \in 1 .. Len(t) :
          /\ Len(LineFeed) + i \in 1 .. Len(u)
          /\ u[Len(LineFeed) + i] = t[i]
    BY <1>2, PlaceBehind
  <2> HIDE DEF u
  <2> QED BY <1>2, <2>1
<1> HIDE DEF s
<1>5. AllAssigned(l)
  <2> SUFFICES ASSUME NEW i \in 1 .. Len(l), l[i] = "p" PROVE Assigned(l, i)
    BY DEF AllAssigned
  <2>1. i \in 1 .. Len(s) /\ s[i] = l[i]
    BY <1>1, AttAhead DEF s
  <2>2. Assigned(s, i)
    BY <1>4, <2>1 DEF AllAssigned
  <2> QED BY <1>1, <2>2, Ahead DEF s
<1>6. AllAssigned(t)
  <2> SUFFICES ASSUME NEW i \in 1 .. Len(t), t[i] = "p" PROVE Assigned(t, i)
    BY DEF AllAssigned
  <2> DEFINE n == 1 + i
  <2>1. n \in 1 .. Len(u) /\ u[n] = t[i]
    BY <1>7
  <2> HIDE DEF u
  <2>2. Len(l) + n \in 1 .. Len(s) /\ s[Len(l) + n] = u[n]
    <3> HIDE DEF n
    <3> QED BY <1>1, <2>1, PlaceBehind DEF s
  <2>3. Assigned(s, Len(l) + n)
    BY <1>4, <2>1, <2>2 DEF AllAssigned
  <2>4. Cuts(u[1])
    BY <1>3, CutsAre
  <2>5. n > 3 /\ Assigned(u, n)
    <3> HIDE DEF n
    <3> QED BY <1>1, <2>1, <2>3, <2>4, CutOff DEF s
  <2>6. i > 2 /\ n - 1 = 1 + (i - 1) /\ n - 2 = 1 + (i - 2) /\ n - 3 = 1 + (i - 3)
    BY <2>5
  <2>7. Len(t) \in Nat
    BY TextLength
  <2>8. i - 1 \in 1 .. Len(t) /\ i - 2 \in 1 .. Len(t) /\ (i > 3 => i - 3 \in 1 .. Len(t))
    BY <2>6, <2>7
  <2>9. \A k \in 1 .. Len(t) : u[1 + k] = t[k]
    BY <1>7
  <2>10. u[n - 1] = t[i - 1] /\ u[n - 2] = t[i - 2] /\ (i > 3 => u[n - 3] = t[i - 3])
    BY <2>6, <2>8, <2>9
  <2> HIDE DEF n
  <2> QED BY <2>5, <2>6, <2>10 DEF Assigned
<1> QED BY <1>5, <1>6

\* The pass over the lines leaves no assigned secret.
LEMMA NoSecretAssigned ==
  ASSUME NEW s \in Text, AllAssigned(s)
  PROVE  NoSecret(Assign(s))
<1> DEFINE P(z) == AllAssigned(z) => NoSecret(Assign(z))
           G == {z \in Text : P(z)}
<1>1. ASSUME NEW z \in Text, \A h \in Text : Len(h) < Len(z) => P(h)
      PROVE  P(z)
  <2> SUFFICES ASSUME AllAssigned(z) PROVE NoSecret(Assign(z))
    OBVIOUS
  <2>1. CASE LfFree(z)
    BY <2>1, LastLine, LineWithout
  <2>2. CASE \E l, t : BeginsWithLine(z, l, t)
    <3>1. PICK l, t : BeginsWithLine(z, l, t)
      BY <2>2
    <3>2. z = Joined(WithFeed(l), t) /\ l \in Text /\ t \in Text /\ LfFree(l) /\ Len(t) < Len(z)
      BY <3>1 DEF BeginsWithLine
    <3>3. AllAssigned(l) /\ AllAssigned(t)
      BY <3>2, AllAssignedParts
    <3>4. NoSecret(Assign(t)) /\ NoSecret(Line(l))
      BY <1>1, <3>2, <3>3, LineWithout
    <3>5. Assign(t) \in Text /\ Line(l) \in Text /\ LineFeed \in Text /\ NoSecret(LineFeed)
      BY <3>2, AssignType, LineType, FeedIs, PatternsNoSecret
    <3>6. WithFeed(Line(l)) \in Text
      BY <3>5, TextJoined DEF WithFeed
    <3>7. NoSecret(WithFeed(Line(l)))
      BY <3>4, <3>5, NoSecretJoined DEF WithFeed
    <3>8. Assign(z) = Joined(WithFeed(Line(l)), Assign(t))
      BY <3>2, FirstLine
    <3> QED BY <3>4, <3>5, <3>6, <3>7, <3>8, NoSecretJoined
  <2> QED BY <2>1, <2>2, LineBeginning
<1>2. G = Text
  <2>1. \A h \in Text : (\A g \in Text : Len(g) < Len(h) => g \in G) => h \in G
    BY <1>1
  <2>2. G \in SUBSET Text
    OBVIOUS
  <2> HIDE DEF G
  <2> QED BY <2>1, <2>2, TextInduction
<1>3. s \in G
  BY <1>2
<1> QED BY <1>3

\* What the last two passes leave of a text whose secrets are all assigned or
\* follow a header.
LEMMA RedactedWithout ==
  ASSUME NEW s \in Text, Attached(TRUE, <<>>, s)
  PROVE  NoSecret(Redacted(s))
<1>1. <<>> \in Text
  BY DEF Text
<1>2. Joined(<<>>, s) = s /\ Len(<<>>) = 0
  BY <1>1, Regrouped
<1>3. HeaderReady(<<>>, s)
  <2> SUFFICES ASSUME NEW i \in 1 .. Len(s), s[i] = "p"
               PROVE  AttIn(FALSE, <<>>, s, i) \/ Titled(s, i)
    BY DEF HeaderReady
  <2>1. AttIn(TRUE, <<>>, s, i)
    BY DEF Attached
  <2>2. Len(<<>>) + i = i
    BY <1>2
  <2> QED BY <1>2, <2>1, <2>2 DEF AttIn
<1>4. Attached(FALSE, <<>>, Header(s)) /\ Header(s) \in Text
  BY <1>1, <1>3, HeaderAttached, HeaderType
<1>5. AllAssigned(Header(s))
  <2> DEFINE h == Header(s)
  <2> SUFFICES ASSUME NEW i \in 1 .. Len(h), h[i] = "p" PROVE Assigned(h, i)
    BY DEF AllAssigned
  <2>1. AttIn(FALSE, <<>>, h, i)
    BY <1>4 DEF Attached
  <2> HIDE DEF h
  <2>2. Len(<<>>) + i = i
    BY <1>2
  <2>3. Joined(<<>>, h) = h
    BY <1>1, <1>4, Regrouped DEF h
  <2> QED BY <2>1, <2>2, <2>3 DEF AttIn
<1> QED BY <1>4, <1>5, NoSecretAssigned DEF Redacted

-----------------------------------------------------------------------------
(***************************************************************************)
(* Userinfo: a secret in the authority of a URL before its "@".            *)
(***************************************************************************)
UserAt(s, o, i) ==
  /\ SchemeAt(s, o) /\ o + 3 <= i /\ i < AuthorityEnd(s, o)
  /\ \E j \in i .. AuthorityEnd(s, o) - 1 : s[j] = "@"
InUser(s, i) == \E o \in 1 .. Len(s) : UserAt(s, o, i)
Inside(s) ==
  \E o, n \in 1 .. Len(s) : SchemeAt(s, o) /\ SchemeAt(s, n) /\ o < n /\ AuthorityEnd(s, o) = n + 1

LEMMA SchemePlaces ==
  ASSUME NEW s \in Text
  PROVE  /\ \A o \in Places(s, Scheme, 1) : o \in 1 .. Len(s) /\ SchemeAt(s, o)
         /\ \A o \in 1 .. Len(s) : SchemeAt(s, o) => o \in Places(s, Scheme, 1)
<1>1. \A o \in 1 .. Len(s) : o \in Nat \ {0}
  BY TextLength
<1>2. \A o \in 1 .. Len(s) : /\ Matches(s, Scheme, o) => SchemeAt(s, o)
                             /\ SchemeAt(s, o) => Matches(s, Scheme, o)
  BY <1>1, SchemeIs
<1> QED BY <1>2 DEF Places

\* The userinfo of the property, place by place.
LEMMA UserinfoIs ==
  ASSUME NEW s \in Text, NEW i, InUserinfo(s, i)
  PROVE  InUser(s, i)
BY SchemePlaces DEF InUserinfo, InUser, UserAt

\* Nested URLs, place by place.
LEMMA NestedIs ==
  ASSUME NEW s \in Text, Inside(s)
  PROVE  Nested(s)
BY SchemePlaces DEF Inside, Nested

\* Userinfo behind another text.
LEMMA UserBehind ==
  ASSUME NEW x \in Text, NEW t \in Text, NEW o \in 1 .. Len(t), NEW i \in 1 .. Len(t),
         UserAt(Joined(x, t), Len(x) + o, Len(x) + i)
  PROVE  UserAt(t, o, i)
<1> DEFINE s == Joined(x, t)
           e == AuthorityEnd(t, o)
           f == AuthorityEnd(s, Len(x) + o)
<1>1. Len(x) \in Nat /\ Len(t) \in Nat
  BY TextLength
<1>2. SchemeAt(s, Len(x) + o)
  BY DEF UserAt
<1>3. SchemeAt(t, o)
  BY <1>1, <1>2, SchemeBehind
<1>4. f = Len(x) + e
  BY <1>3, AuthorityBehind
<1>5. e \in o + 3 .. Len(t) + 1
  BY <1>3, AuthorityFacts
<1>6. e \in Nat
  BY <1>1, <1>5
<1>7. (Len(x) + o) + 3 <= Len(x) + i /\ Len(x) + i < f /\ \E j \in Len(x) + i .. f - 1 : s[j] = "@"
  BY DEF UserAt
<1> HIDE DEF s, e, f
<1>8. (Len(x) + o) + 3 <= Len(x) + i /\ Len(x) + i < f
  BY <1>7
<1>9. o + 3 <= i /\ i < e
  BY <1>1, <1>4, <1>6, <1>8
<1>10. PICK j \in Len(x) + i .. f - 1 : s[j] = "@"
  BY <1>7
<1>11. j - Len(x) \in i .. e - 1 /\ j - Len(x) \in 1 .. Len(t) /\ Len(x) + (j - Len(x)) = j
  BY <1>1, <1>4, <1>5, <1>6
<1>12. t[j - Len(x)] = "@"
  BY <1>10, <1>11, PlaceBehind DEF s
<1> QED BY <1>3, <1>9, <1>11, <1>12 DEF UserAt, e

\* Nested URLs behind another text.
LEMMA InsideBehind ==
  ASSUME NEW x \in Text, NEW t \in Text, Inside(t)
  PROVE  Inside(Joined(x, t))
<1>1. PICK o \in 1 .. Len(t), n \in 1 .. Len(t) :
        SchemeAt(t, o) /\ SchemeAt(t, n) /\ o < n /\ AuthorityEnd(t, o) = n + 1
  BY DEF Inside
<1>2. Len(x) \in Nat /\ Len(t) \in Nat
  BY TextLength
<1>3. Len(x) + o \in 1 .. Len(Joined(x, t)) /\ Len(x) + n \in 1 .. Len(Joined(x, t))
  BY PlaceBehind
<1>4. SchemeAt(Joined(x, t), Len(x) + o) /\ SchemeAt(Joined(x, t), Len(x) + n)
  BY <1>1, <1>2, SchemeBehind
<1>5. AuthorityEnd(Joined(x, t), Len(x) + o) = Len(x) + (n + 1)
  BY <1>1, AuthorityBehind
<1>6. Len(x) + (n + 1) = (Len(x) + n) + 1 /\ Len(x) + o < Len(x) + n
  BY <1>1, <1>2
<1> QED BY <1>3, <1>4, <1>5, <1>6 DEF Inside

\* A secret behind x whose userinfo does not begin in x.
LEMMA UserRest ==
  ASSUME NEW x \in Text, NEW t \in Text, NEW i \in 1 .. Len(t),
         ~Inside(Joined(x, t)), InUser(Joined(x, t), Len(x) + i),
         \A o \in 1 .. Len(x) : ~UserAt(Joined(x, t), o, Len(x) + i)
  PROVE  ~Inside(t) /\ InUser(t, i)
<1> DEFINE s == Joined(x, t)
<1>1. Len(x) \in Nat /\ Len(t) \in Nat
  BY TextLength
<1>2. Len(s) = Len(x) + Len(t)
  BY TextJoined
<1>3. PICK o \in 1 .. Len(s) : UserAt(s, o, Len(x) + i)
  BY DEF InUser
<1>4. o \notin 1 .. Len(x)
  BY <1>3
<1> HIDE DEF s
<1>5. o - Len(x) \in 1 .. Len(t) /\ Len(x) + (o - Len(x)) = o
  BY <1>1, <1>2, <1>4
<1>6. UserAt(t, o - Len(x), i)
  BY <1>3, <1>5, UserBehind DEF s
<1> QED BY <1>5, <1>6, InsideBehind DEF InUser

\* Userinfo that begins in the first URL.
LEMMA URLUser ==
  ASSUME NEW a, NEW t, URL(a, t), ~Inside(Joined(a, t)), NEW o \in 1 .. Len(a), NEW i \in Nat,
         UserAt(Joined(a, t), o, i)
  PROVE  o = 1 /\ i <= Len(a) /\ \E j \in i .. Len(a) : Joined(a, t)[j] = "@"
<1> DEFINE s == Joined(a, t)
<1>1. /\ a \in Text /\ t \in Text /\ SchemeAt(a, 1) /\ \A j \in 4 .. Len(a) : a[j] \notin Terminators
  BY DEF URL
<1>2. /\ Len(a) \in Nat /\ Len(a) >= 3 /\ SchemeAt(s, 1) /\ s \in Text
      /\ AuthorityEnd(s, 1) = Len(a) + 1 /\ Len(s) = Len(a) + Len(t) /\ 1 \in 1 .. Len(s)
  BY URLFacts
<1>3. \A j \in 1 .. Len(a) : s[j] = a[j]
  BY <1>1, TextJoined
<1>4. SchemeAt(s, o)
  BY DEF UserAt
<1>5. Len(t) \in Nat
  BY <1>1, TextLength
<1>6. o \in 1 .. Len(s)
  <2>1. Len(a) \in Nat /\ Len(s) = Len(a) + Len(t)
    BY <1>2
  <2> HIDE DEF s
  <2> QED BY <1>5, <2>1
<1> HIDE DEF s
<1>7. ASSUME o # 1 PROVE FALSE
  <2>1. s[o] = ":" /\ s[o + 1] = "/"
    BY <1>4 DEF SchemeAt
  <2>2. a[1 + 1] = "/" /\ a[1 + 2] = "/"
    BY <1>1 DEF SchemeAt
  <2>3. Len(a) \in Nat /\ Len(a) >= 3
    BY <1>2
  <2>4. o # 2
    <3>1. o = 2 => o = 1 + 1
      OBVIOUS
    <3> QED BY <1>3, <2>1, <2>2, <3>1
  <2>5. o # 3
    <3>1. o = 3 => o = 1 + 2
      OBVIOUS
    <3> QED BY <1>3, <2>1, <2>2, <3>1
  <2>6. o + 1 \notin 1 .. Len(a)
    <3> SUFFICES ASSUME o + 1 \in 1 .. Len(a) PROVE FALSE
      OBVIOUS
    <3>1. o + 1 \in 4 .. Len(a)
      BY <1>7, <2>3, <2>4, <2>5
    <3>2. a[o + 1] = "/"
      BY <1>3, <2>1
    <3> QED BY <1>1, <3>1, <3>2 DEF Terminators
  <2>7. o = Len(a) /\ 1 < o
    BY <1>7, <2>3, <2>6
  <2>8. AuthorityEnd(s, 1) = o + 1
    BY <1>2, <2>7
  <2> QED BY <1>2, <1>4, <1>6, <2>7, <2>8 DEF Inside, s
<1>8. o = 1
  BY <1>7
<1>9. i < AuthorityEnd(s, 1) /\ \E j \in i .. AuthorityEnd(s, 1) - 1 : s[j] = "@"
  BY <1>8 DEF UserAt, s
<1>10. AuthorityEnd(s, 1) = Len(a) + 1 /\ Len(a) \in Nat
  BY <1>2
<1>11. i < Len(a) + 1 /\ (Len(a) + 1) - 1 = Len(a)
  BY <1>9, <1>10
<1>12. i <= Len(a)
  BY <1>10, <1>11
<1> QED BY <1>8, <1>9, <1>10, <1>11, <1>12 DEF s

-----------------------------------------------------------------------------
(***************************************************************************)
(* A round over the URLs that leaves nothing to mask leaves secrets only   *)
(* with assignments and headers.                                           *)
(***************************************************************************)
GuardedAt(z, s, i) == AttIn(TRUE, z, s, i) \/ (~Inside(s) /\ InUser(s, i))
Guarded(z, s) == \A i \in 1 .. Len(s) : s[i] = "p" => GuardedAt(z, s, i)

LEMMA AheadPlace ==
  ASSUME NEW x \in Text, NEW t \in Text, NEW i \in 1 .. Len(x)
  PROVE  i \in 1 .. Len(Joined(x, t)) /\ Joined(x, t)[i] = x[i]
BY AttAhead

LEMMA GuardedPlace ==
  ASSUME NEW z \in Text, NEW x \in Text, NEW t \in Text, NEW i \in 1 .. Len(t), t[i] = "p",
         Guarded(z, Joined(x, t))
  PROVE  GuardedAt(z, Joined(x, t), Len(x) + i)
BY PlaceBehind DEF Guarded

\* The first character of a text that does not begin with a scheme.
LEMMA GuardedBehindChar ==
  ASSUME NEW z \in Text, NEW s, NEW c, NEW t, BeginsWithChar(s, c, t), Guarded(z, s)
  PROVE  Attached(TRUE, z, Alone(c)) /\ Guarded(Joined(z, Alone(c)), t)
<1> DEFINE x == Alone(c)
<1>1. s = Joined(x, t) /\ c \in Char /\ t \in Text /\ ~SchemeAt(s, 1)
  BY DEF BeginsWithChar
<1>2. x \in Text /\ Len(x) = 1 /\ x[1] = c
  BY <1>1, AloneIs DEF Single
<1> HIDE DEF x
<1>3. Attached(TRUE, z, x)
  <2> SUFFICES ASSUME NEW i \in 1 .. Len(x), x[i] = "p" PROVE AttIn(TRUE, z, x, i)
    BY DEF Attached
  <2>1. i \in 1 .. Len(s) /\ s[i] = "p"
    BY <1>1, <1>2, AttAhead
  <2>2. Len(x) = 1
    BY <1>2
  <2>3. i = 1
    BY <2>2
  <2>4. GuardedAt(z, s, i)
    BY <2>1 DEF Guarded
  <2>5. ~InUser(s, i)
    <3> SUFFICES ASSUME NEW o \in 1 .. Len(s), UserAt(s, o, i) PROVE FALSE
      BY DEF InUser
    <3>1. o + 3 <= i
      BY DEF UserAt
    <3> QED BY <2>3, <3>1
  <2>6. AttIn(TRUE, z, s, i)
    BY <2>4, <2>5 DEF GuardedAt
  <2> QED BY <1>1, <1>2, <2>6, AttAhead
<1>4. Guarded(Joined(z, x), t)
  <2> SUFFICES ASSUME NEW i \in 1 .. Len(t), t[i] = "p" PROVE GuardedAt(Joined(z, x), t, i)
    BY DEF Guarded
  <2>1. GuardedAt(z, Joined(x, t), Len(x) + i)
    BY <1>1, <1>2, GuardedPlace
  <2>2. CASE AttIn(TRUE, z, Joined(x, t), Len(x) + i)
    BY <1>1, <1>2, <2>2, AttRegroup DEF GuardedAt
  <2>3. CASE ~Inside(Joined(x, t)) /\ InUser(Joined(x, t), Len(x) + i)
    <3>1. Len(x) = 1
      BY <1>2
    <3>2. \A o \in 1 .. Len(x) : o = 1
      BY <3>1
    <3>3. \A o \in 1 .. Len(x) : ~UserAt(Joined(x, t), o, Len(x) + i)
      BY <1>1, <3>2 DEF UserAt
    <3>4. ~Inside(t) /\ InUser(t, i)
      BY <1>1, <1>2, <2>3, <3>3, UserRest
    <3> QED BY <3>4 DEF GuardedAt
  <2> QED BY <2>1, <2>2, <2>3 DEF GuardedAt
<1> QED BY <1>3, <1>4 DEF x

\* No userinfo of the first URL reaches behind it.
LEMMA BehindURL ==
  ASSUME NEW a, NEW t, URL(a, t), NEW i \in 1 .. Len(t),
         ~Inside(Joined(a, t)), InUser(Joined(a, t), Len(a) + i)
  PROVE  ~Inside(t) /\ InUser(t, i)
<1>1. a \in Text /\ t \in Text
  BY DEF URL
<1>2. Len(a) \in Nat /\ Len(t) \in Nat
  BY <1>1, TextLength
<1>3. Len(a) + i \in Nat /\ ~(Len(a) + i <= Len(a))
  BY <1>2
<1>4. \A o \in 1 .. Len(a) : ~UserAt(Joined(a, t), o, Len(a) + i)
  BY <1>3, URLUser
<1> QED BY <1>1, <1>4, UserRest

\* A secret within the first URL is attached, or stands before its "@".
LEMMA WithinURL ==
  ASSUME NEW a, NEW t, URL(a, t), NEW i \in 1 .. Len(a),
         ~Inside(Joined(a, t)), InUser(Joined(a, t), i)
  PROVE  \E j \in i .. Len(a) : Joined(a, t)[j] = "@"
<1> DEFINE s == Joined(a, t)
<1>1. a \in Text /\ t \in Text /\ s \in Text
  BY URLFacts DEF URL
<1>2. Len(a) \in Nat /\ Len(t) \in Nat
  BY <1>1, TextLength
<1>3. Len(s) = Len(a) + Len(t)
  BY <1>1, TextJoined
<1>4. PICK o \in 1 .. Len(s) : UserAt(s, o, i)
  BY DEF InUser
<1>5. o + 3 <= i
  BY <1>4 DEF UserAt
<1> HIDE DEF s
<1>6. o \in 1 .. Len(a) /\ i \in Nat
  BY <1>2, <1>3, <1>5
<1> QED BY <1>4, <1>6, URLUser DEF s

LEMMA GuardedBehindURL ==
  ASSUME NEW z \in Text, NEW s, NEW a, NEW t, BeginsWithURL(s, a, t), Guarded(z, s)
  PROVE  Attached(TRUE, z, a) /\ Guarded(Joined(z, a), t)
<1>1. s = Joined(a, t) /\ URL(a, t) /\ NoUser(a) /\ a \in Text /\ t \in Text
  BY DEF BeginsWithURL, URL
<1>2. Attached(TRUE, z, a)
  <2> SUFFICES ASSUME NEW i \in 1 .. Len(a), a[i] = "p" PROVE AttIn(TRUE, z, a, i)
    BY DEF Attached
  <2>1. i \in 1 .. Len(s) /\ s[i] = "p"
    BY <1>1, AttAhead
  <2>2. GuardedAt(z, s, i)
    BY <2>1 DEF Guarded
  <2>3. ~(~Inside(s) /\ InUser(s, i))
    <3> SUFFICES ASSUME ~Inside(s), InUser(s, i) PROVE FALSE
      OBVIOUS
    <3>1. PICK j \in i .. Len(a) : s[j] = "@"
      BY <1>1, WithinURL
    <3>2. Len(a) \in Nat
      BY <1>1, TextLength
    <3>3. j \in 1 .. Len(a)
      BY <3>2
    <3>4. a[j] = "@"
      BY <1>1, <3>1, <3>3, AttAhead
    <3> QED BY <1>1, <3>3, <3>4 DEF NoUser
  <2>4. AttIn(TRUE, z, s, i)
    BY <2>2, <2>3 DEF GuardedAt
  <2> QED BY <1>1, <2>4, AttAhead
<1>3. Guarded(Joined(z, a), t)
  <2> SUFFICES ASSUME NEW i \in 1 .. Len(t), t[i] = "p" PROVE GuardedAt(Joined(z, a), t, i)
    BY DEF Guarded
  <2>1. GuardedAt(z, Joined(a, t), Len(a) + i)
    BY <1>1, GuardedPlace
  <2>2. CASE AttIn(TRUE, z, Joined(a, t), Len(a) + i)
    BY <1>1, <2>2, AttRegroup DEF GuardedAt
  <2>3. CASE ~Inside(Joined(a, t)) /\ InUser(Joined(a, t), Len(a) + i)
    BY <1>1, <2>3, BehindURL DEF GuardedAt
  <2> QED BY <2>1, <2>2, <2>3 DEF GuardedAt
<1> QED BY <1>2, <1>3

\* Behind an "@" a secret is attached to nothing that stands before it.
LEMMA BehindAt ==
  ASSUME NEW z \in Text, NEW x \in Text, NEW e \in Text, NEW u \in Text, NEW i \in 1 .. Len(u),
         u[i] = "p", u[1] = "@", AttIn(TRUE, z, Joined(x, u), Len(x) + i)
  PROVE  AttIn(TRUE, e, u, i)
<1>1. AttIn(TRUE, Joined(z, x), u, i)
  BY AttRegroup
<1>2. Joined(z, x) \in Text
  BY TextJoined
<1>3. Cuts(u[1])
  BY CutsAre
<1> QED BY <1>1, <1>2, <1>3, AttElsewhere

LEMMA GuardedBehindUser ==
  ASSUME NEW z \in Text, NEW s, NEW x, NEW y, NEW t, BeginsWithUser(s, x, y, t), Guarded(z, s)
  PROVE  /\ Attached(TRUE, z, Joined(SchemeMask, y))
         /\ Guarded(Joined(z, Joined(SchemeMask, y)), t)
<1> DEFINE a == Joined(x, y)
           u == Joined(y, t)
           e == Joined(z, SchemeMask)
<1>1. /\ s = Joined(a, t) /\ URL(a, t) /\ a \in Text /\ t \in Text
      /\ x \in Text /\ y \in Text /\ y # <<>> /\ y[1] = "@" /\ \A j \in 2 .. Len(y) : y[j] # "@"
  BY DEF BeginsWithUser, URL, User
<1>2. s = Joined(x, u) /\ u \in Text /\ SchemeMask \in Text /\ e \in Text
  BY <1>1, Regrouped, SchemeMaskIs
<1>3. Len(x) \in Nat /\ Len(y) \in Nat /\ Len(t) \in Nat
  BY <1>1, TextLength
<1>4. Len(a) = Len(x) + Len(y)
  BY <1>1, TextJoined
<1>5. u[1] = "@"
  BY <1>1, FirstOfJoined
<1> HIDE DEF a
<1>6. Attached(TRUE, e, y)
  <2> SUFFICES ASSUME NEW i \in 1 .. Len(y), y[i] = "p" PROVE AttIn(TRUE, e, y, i)
    BY DEF Attached
  <2>1. i \in 1 .. Len(u) /\ u[i] = "p"
    BY <1>1, AheadPlace
  <2> HIDE DEF u, e
  <2>2. GuardedAt(z, s, Len(x) + i)
    BY <1>1, <1>2, <2>1, GuardedPlace
  <2>3. ~(~Inside(s) /\ InUser(s, Len(x) + i))
    <3> SUFFICES ASSUME ~Inside(s), InUser(s, Len(x) + i) PROVE FALSE
      OBVIOUS
    <3>1. Len(x) + i \in 1 .. Len(a)
      BY <1>3, <1>4
    <3>2. PICK j \in Len(x) + i .. Len(a) : s[j] = "@"
      BY <1>1, <3>1, WithinURL
    <3>3. i # 1
      BY <1>1
    <3>4. j - Len(x) \in 2 .. Len(y) /\ Len(x) + (j - Len(x)) = j /\ j - Len(x) \in 1 .. Len(y)
      BY <1>3, <1>4, <3>3
    <3> DEFINE k == j - Len(x)
    <3>5. k \in 1 .. Len(u) /\ u[k] = y[k]
      BY <1>1, <3>4, AheadPlace DEF u
    <3>6. s[Len(x) + k] = u[k]
      <4> HIDE DEF k
      <4>1. k \in 1 .. Len(u) /\ x \in Text /\ u \in Text
        BY <1>1, <1>2, <3>5
      <4>2. Joined(x, u)[Len(x) + k] = u[k]
        BY <4>1, PlaceBehind
      <4> QED BY <1>2, <4>2
    <3>7. y[k] = "@"
      BY <3>2, <3>4, <3>5, <3>6
    <3> QED BY <1>1, <3>4, <3>7
  <2>4. AttIn(TRUE, z, Joined(x, u), Len(x) + i)
    BY <1>2, <2>2, <2>3 DEF GuardedAt
  <2>5. AttIn(TRUE, e, u, i)
    BY <1>1, <1>2, <1>5, <2>1, <2>4, BehindAt
  <2> QED BY <1>1, <1>2, <2>5, AttAhead DEF u
<1>7. Attached(TRUE, z, Joined(SchemeMask, y))
  <2>1. Attached(TRUE, z, SchemeMask)
    BY PatternsNoSecret, NothingAttached
  <2> QED BY <1>1, <1>2, <1>6, <2>1, AttachedJoined
<1>8. Joined(e, y) = Joined(z, Joined(SchemeMask, y))
  BY <1>1, <1>2, Regrouped
<1>9. Guarded(Joined(e, y), t)
  <2> SUFFICES ASSUME NEW i \in 1 .. Len(t), t[i] = "p" PROVE GuardedAt(Joined(e, y), t, i)
    BY DEF Guarded
  <2> DEFINE k == Len(y) + i
  <2>1. k \in 1 .. Len(u) /\ u[k] = "p"
    BY <1>1, PlaceBehind
  <2> HIDE DEF u, e
  <2>2. Len(x) + k = Len(a) + i
    BY <1>3, <1>4
  <2> HIDE DEF k
  <2>3. GuardedAt(z, s, Len(x) + k)
    BY <1>1, <1>2, <2>1, GuardedPlace
  <2>4. CASE AttIn(TRUE, z, s, Len(x) + k)
    <3>3. x \in Text /\ u \in Text /\ e \in Text
      BY <1>1, <1>2
    <3>4. AttIn(TRUE, z, Joined(x, u), Len(x) + k)
      BY <1>2, <2>4
    <3>1. AttIn(TRUE, e, u, k)
      BY <3>3, <1>5, <2>1, <3>4, BehindAt
    <3>2. AttIn(TRUE, Joined(e, y), t, i)
      BY <1>1, <1>2, <3>1, AttRegroup DEF u, k
    <3> QED BY <3>2 DEF GuardedAt
  <2>5. CASE ~Inside(s) /\ InUser(s, Len(x) + k)
    BY <1>1, <2>2, <2>5, BehindURL DEF GuardedAt
  <2> QED BY <2>3, <2>4, <2>5 DEF GuardedAt
<1> QED BY <1>7, <1>8, <1>9

\* A round over the URLs leaves secrets only with assignments and headers.
LEMMA OnceAttached ==
  ASSUME NEW s \in Text, NEW v \in Text, Guarded(v, s)
  PROVE  Attached(TRUE, v, Once(s))
<1> DEFINE P(r) == \A z \in Text : Guarded(z, r) => Attached(TRUE, z, Once(r))
           G == {r \in Text : P(r)}
<1>1. ASSUME NEW r \in Text, \A h \in Text : Len(h) < Len(r) => P(h)
      PROVE  P(r)
  <2> SUFFICES ASSUME NEW z \in Text, Guarded(z, r) PROVE Attached(TRUE, z, Once(r))
    OBVIOUS
  <2>1. CASE r = <<>>
    <3>1. Once(r) = <<>>
      BY <2>1, OnceNothing
    <3> QED BY <3>1 DEF Attached
  <2>2. CASE \E c, t : BeginsWithChar(r, c, t)
    <3>1. PICK c, t : BeginsWithChar(r, c, t)
      BY <2>2
    <3>2. Once(r) = Joined(Alone(c), Once(t)) /\ t \in Text /\ Once(t) \in Text /\ c \in Char
      BY <3>1, OnceOfChar
    <3>3. Len(t) < Len(r)
      BY <3>1 DEF BeginsWithChar
    <3>4. Attached(TRUE, z, Alone(c)) /\ Guarded(Joined(z, Alone(c)), t)
      BY <3>1, GuardedBehindChar
    <3>5. Alone(c) \in Text
      BY <3>2, AloneIs
    <3>6. Joined(z, Alone(c)) \in Text
      BY <3>5, TextJoined
    <3>7. Attached(TRUE, Joined(z, Alone(c)), Once(t))
      BY <1>1, <3>2, <3>3, <3>4, <3>6
    <3> QED BY <3>2, <3>4, <3>5, <3>7, AttachedJoined
  <2>3. CASE \E a, t : BeginsWithURL(r, a, t)
    <3>1. PICK a, t : BeginsWithURL(r, a, t)
      BY <2>3
    <3>2. Once(r) = Joined(a, Once(t)) /\ t \in Text /\ Once(t) \in Text /\ a \in Text
      BY <3>1, OnceOfURL
    <3>3. Len(t) < Len(r)
      BY <3>1 DEF BeginsWithURL
    <3>4. Attached(TRUE, z, a) /\ Guarded(Joined(z, a), t)
      BY <3>1, GuardedBehindURL
    <3>5. Joined(z, a) \in Text
      BY <3>2, TextJoined
    <3>6. Attached(TRUE, Joined(z, a), Once(t))
      BY <1>1, <3>2, <3>3, <3>4, <3>5
    <3> QED BY <3>2, <3>4, <3>6, AttachedJoined
  <2>4. CASE \E x, y, t : BeginsWithUser(r, x, y, t)
    <3>1. PICK x, y, t : BeginsWithUser(r, x, y, t)
      BY <2>4
    <3> DEFINE w == Joined(SchemeMask, y)
    <3>2. Once(r) = Joined(w, Once(t)) /\ t \in Text /\ Once(t) \in Text /\ y \in Text
      BY <3>1, OnceOfUser
    <3>3. Len(t) < Len(r)
      BY <3>1 DEF BeginsWithUser
    <3>4. Attached(TRUE, z, w) /\ Guarded(Joined(z, w), t)
      BY <3>1, GuardedBehindUser
    <3>5. w \in Text /\ Joined(z, w) \in Text
      BY <3>2, SchemeMaskIs, TextJoined
    <3> HIDE DEF w
    <3>6. Attached(TRUE, Joined(z, w), Once(t))
      BY <1>1, <3>2, <3>3, <3>4, <3>5
    <3> QED BY <3>2, <3>4, <3>5, <3>6, AttachedJoined
  <2> QED BY <2>1, <2>2, <2>3, <2>4, Beginning
<1>2. G = Text
  <2>1. \A h \in Text : (\A g \in Text : Len(g) < Len(h) => g \in G) => h \in G
    BY <1>1
  <2>2. G \in SUBSET Text
    OBVIOUS
  <2> HIDE DEF G
  <2> QED BY <2>1, <2>2, TextInduction
<1>3. s \in G
  BY <1>2
<1> QED BY <1>3

-----------------------------------------------------------------------------
(***************************************************************************)
(* Redact as a whole.                                                      *)
(***************************************************************************)
\* Every secret stands where one of the passes looks for it.
Findable(s) ==
  /\ ~Nested(s)
  /\ \A i \in Secrets(s) : InUserinfo(s, i) \/ InAssignment(s, i) \/ InHeader(s, i)

\* Redact begins with such a text.
LEMMA FindableIsGuarded ==
  ASSUME NEW s \in Text, Findable(s)
  PROVE  Guarded(<<>>, s)
<1> SUFFICES ASSUME NEW i \in 1 .. Len(s), s[i] = "p" PROVE GuardedAt(<<>>, s, i)
  BY DEF Guarded
<1>1. <<>> \in Text
  BY DEF Text
<1>2. Joined(<<>>, s) = s /\ Len(<<>>) = 0
  BY <1>1, Regrouped
<1>3. Len(<<>>) + i = i
  BY <1>2
<1>4. InUserinfo(s, i) \/ InAssignment(s, i) \/ InHeader(s, i)
  BY DEF Findable, Secrets
<1>5. ~Inside(s)
  BY NestedIs DEF Findable
<1>6. CASE InUserinfo(s, i)
  BY <1>5, <1>6, UserinfoIs DEF GuardedAt
<1>7. CASE InAssignment(s, i)
  <2>1. Assigned(s, i)
    BY <1>7, AssignedIs
  <2> QED BY <1>2, <1>3, <2>1 DEF GuardedAt, AttIn
<1>8. CASE InHeader(s, i)
  <2>1. Titled(s, i)
    BY <1>8, TitledIs
  <2> QED BY <1>2, <1>3, <2>1 DEF GuardedAt, AttIn
<1> QED BY <1>4, <1>6, <1>7, <1>8

\* A round keeps it so.
LEMMA RoundKeepsGuarded ==
  ASSUME NEW s \in Text, Guarded(<<>>, s)
  PROVE  Guarded(<<>>, Once(s)) /\ Attached(TRUE, <<>>, Once(s))
<1>1. <<>> \in Text
  BY DEF Text
<1>2. Attached(TRUE, <<>>, Once(s))
  BY <1>1, OnceAttached
<1> QED BY <1>2 DEF Guarded, GuardedAt, Attached

LEMMA WithoutIsGuarded ==
  ASSUME NEW s, NoSecret(s)
  PROVE  Guarded(<<>>, s)
BY DEF Guarded, NoSecret

\* The bound leaves a round for every URL that is not masked, and one that
\* changes nothing.
LEMMA RoundIsNotTooMany ==
  ASSUME NEW s \in Text, NEW n \in Nat, NEW b \in Nat, (Count(s) + n) + 1 <= b
  PROVE  /\ n < b /\ n # b /\ n \in 0 .. b
         /\ Once(s) # s => (Count(Once(s)) + (n + 1)) + 1 <= b
<1>1. Once(s) \in Text
  BY OnceType
<1>2. Count(s) \in Nat /\ Count(Once(s)) \in Nat
  BY <1>1, OpeningsFinite
<1>3. Once(s) # s => Count(Once(s)) < Count(s)
  BY OnceFewer DEF Fewer
<1> QED BY <1>2, <1>3

\* Where the secrets are before each pass.
SecretsInv ==
  Findable(logged) =>
    /\ pass \in {"bound", "urls"} => Guarded(<<>>, log)
    /\ pass = "headers" => Attached(TRUE, <<>>, log)
    /\ pass \in {"returned", "done"} => NoSecret(log)

\* What is settled stays, in whatever pass.
SettledInv ==
  /\ pass = "headers" => Once(log) = log
  /\ pass \in {"returned", "done"} \/ first # None => Settled(log)
  /\ first # None \/ pass = "done" => log = first

RoundsInv ==
  /\ pass \in {"bound", "urls", "headers", "returned", "done"}
  /\ rounds \in Nat /\ bound \in Nat /\ rounds \in 0 .. bound
  /\ pass = "urls" => (Count(log) + rounds) + 1 <= bound
  /\ pass = "headers" => rounds < bound

RedactionInv == logged \in Text /\ log \in Text /\ RoundsInv /\ SettledInv /\ SecretsInv

\* The invariant implies the property.
LEMMA RedactionInvImplies == RedactionInv => RedactionSettles
<1> SUFFICES ASSUME RedactionInv PROVE RedactionSettles
  OBVIOUS
<1>1. RedactionTypeOK
  BY DEF RedactionTypeOK, RedactionInv, RoundsInv
<1>2. Idempotent
  BY DEF Idempotent, RedactionInv, SettledInv
<1>3. FixedPointWithinBound
  BY DEF FixedPointWithinBound, RedactionInv, RoundsInv
<1>4. SecretsAreMasked
  BY DEF SecretsAreMasked, RedactionInv, SecretsInv, Findable, NoSecret, Secrets
<1> QED BY <1>1, <1>2, <1>3, <1>4 DEF RedactionSettles

\* It holds when Redact is called.
LEMMA RedactionInvInit == RedactionInit => RedactionInv
<1> SUFFICES ASSUME RedactionInit PROVE RedactionInv
  OBVIOUS
<1>1. logged \in Text /\ log = logged /\ pass = "bound" /\ rounds = 0 /\ bound = 0 /\ first = None
  BY RedactedTexts DEF RedactionInit
<1>2. RoundsInv
  BY <1>1 DEF RoundsInv
<1>3. SettledInv
  BY <1>1 DEF SettledInv
<1>4. SecretsInv
  BY <1>1, FindableIsGuarded DEF SecretsInv
<1> QED BY <1>1, <1>2, <1>3, <1>4 DEF RedactionInv

\* The bound is set.
LEMMA BeginURLsKeeps ==
  ASSUME RedactionInv, BeginURLs
  PROVE  RedactionInv'
<1>1. /\ pass = "bound" /\ bound' = Bound(log) /\ rounds' = 0 /\ pass' = "urls"
      /\ logged' = logged /\ log' = log /\ first' = first
  BY DEF BeginURLs
<1>2. logged \in Text /\ log \in Text /\ SettledInv /\ SecretsInv
  BY DEF RedactionInv
<1>3. Bound(log) \in Nat /\ Count(log) + 1 <= Bound(log) /\ Count(log) \in Nat
  BY <1>2, BoundIsEnough, OpeningsFinite
<1>4. RoundsInv'
  <2>1. rounds' \in Nat /\ bound' \in Nat /\ rounds' \in 0 .. bound'
    BY <1>1, <1>3
  <2>2. (Count(log) + 0) + 1 <= Bound(log)
    BY <1>3
  <2>3. (Count(log') + rounds') + 1 <= bound'
    BY <1>1, <2>2
  <2> QED BY <1>1, <2>1, <2>3 DEF RoundsInv
<1>5. SettledInv'
  BY <1>1, <1>2 DEF SettledInv
<1>6. SecretsInv'
  BY <1>1, <1>2 DEF SecretsInv
<1> QED BY <1>1, <1>2, <1>4, <1>5, <1>6 DEF RedactionInv

\* A round over the URLs, which may be the last one.
LEMMA MaskURLsKeeps ==
  ASSUME RedactionInv, MaskURLs
  PROVE  RedactionInv'
<1>1. /\ logged \in Text /\ log \in Text /\ SettledInv /\ SecretsInv /\ pass = "urls"
      /\ rounds \in Nat /\ bound \in Nat /\ (Count(log) + rounds) + 1 <= bound
      /\ logged' = logged /\ bound' = bound /\ first' = first
  BY DEF RedactionInv, RoundsInv, MaskURLs
<1>2. /\ rounds < bound /\ rounds # bound /\ rounds \in 0 .. bound
      /\ Once(log) # log => (Count(Once(log)) + (rounds + 1)) + 1 <= bound
  BY <1>1, RoundIsNotTooMany
<1>3. Once(log) \in Text
  BY <1>1, OnceType
<1>4. CASE Once(log) = log
  <2>1. pass' = "headers" /\ log' = log /\ rounds' = rounds
    BY <1>2, <1>4 DEF MaskURLs, Once
  <2>2. RoundsInv'
    BY <1>1, <1>2, <2>1 DEF RoundsInv
  <2>3. SettledInv'
    BY <1>1, <1>4, <2>1 DEF SettledInv
  <2>4. SecretsInv'
    BY <1>1, <1>4, <2>1, RoundKeepsGuarded DEF SecretsInv
  <2> QED BY <1>1, <2>1, <2>2, <2>3, <2>4 DEF RedactionInv
<1>5. CASE Once(log) # log
  <2>1. pass' = "urls" /\ log' = Once(log) /\ rounds' = rounds + 1
    BY <1>1, <1>2, <1>5 DEF MaskURLs, Once
  <2>2. RoundsInv'
    <3>1. rounds + 1 \in Nat /\ rounds + 1 \in 0 .. bound
      BY <1>1, <1>2
    <3>2. (Count(log') + rounds') + 1 <= bound'
      BY <1>1, <1>2, <1>5, <2>1
    <3> QED BY <1>1, <2>1, <3>1, <3>2 DEF RoundsInv
  <2>3. SettledInv'
    BY <1>1, <1>5, <2>1 DEF SettledInv, Settled
  <2>4. SecretsInv'
    BY <1>1, <2>1, RoundKeepsGuarded DEF SecretsInv
  <2> QED BY <1>1, <1>3, <2>1, <2>2, <2>3, <2>4 DEF RedactionInv
<1> QED BY <1>4, <1>5

\* The headers and the lines.
LEMMA MaskLinesKeeps ==
  ASSUME RedactionInv, MaskLines
  PROVE  RedactionInv'
<1>1. /\ logged \in Text /\ log \in Text /\ RoundsInv /\ SettledInv /\ SecretsInv
      /\ pass = "headers" /\ logged' = logged /\ rounds' = rounds /\ bound' = bound /\ first' = first
      /\ pass' = IF first = None THEN "returned" ELSE "done"
  BY DEF RedactionInv, MaskLines
<1>2. log' = Redacted(log)
  BY DEF MaskLines, Redacted, Assign, Header
<1>3. Redacted(log) \in Text
  BY <1>1, RedactedType
<1>4. Once(log) = log
  BY <1>1 DEF SettledInv
<1>5. Settled(Redacted(log))
  BY <1>1, <1>4, RedactedSettles
<1>6. pass' \in {"returned", "done"} /\ (pass' = "done" => first # None)
  BY <1>1
<1>7. RoundsInv'
  BY <1>1, <1>6 DEF RoundsInv
<1>8. SettledInv'
  <2>1. first # None => Redacted(log) = log /\ log = first
    BY <1>1 DEF SettledInv, Settled
  <2>2. pass' # "headers"
    BY <1>6
  <2> QED BY <1>1, <1>2, <1>5, <1>6, <2>1, <2>2 DEF SettledInv
<1>9. SecretsInv'
  <2>1. Findable(logged) => NoSecret(Redacted(log))
    BY <1>1, RedactedWithout DEF SecretsInv
  <2>2. pass' \notin {"bound", "urls"} /\ pass' # "headers"
    BY <1>6
  <2> QED BY <1>1, <1>2, <2>1, <2>2 DEF SecretsInv
<1> QED BY <1>1, <1>2, <1>3, <1>7, <1>8, <1>9 DEF RedactionInv

\* The result is redacted again.
LEMMA AgainKeeps ==
  ASSUME RedactionInv, Again
  PROVE  RedactionInv'
<1>1. /\ logged \in Text /\ log \in Text /\ RoundsInv /\ SettledInv /\ SecretsInv
      /\ pass = "returned" /\ first' = log /\ pass' = "bound"
      /\ logged' = logged /\ log' = log /\ rounds' = rounds /\ bound' = bound
  BY DEF RedactionInv, Again
<1>2. RoundsInv'
  BY <1>1 DEF RoundsInv
<1>3. SettledInv'
  BY <1>1 DEF SettledInv
<1>4. SecretsInv'
  BY <1>1, WithoutIsGuarded DEF SecretsInv
<1> QED BY <1>1, <1>2, <1>3, <1>4 DEF RedactionInv

(***************************************************************************)
(* Whatever it is called with, Redact ends within the rounds of its bound, *)
(* redacting its result changes nothing, and secrets that stand only where *)
(* the passes look for them are not in the result (Redact, redactURLCreds).*)
(***************************************************************************)
THEOREM RedactionSettled == RedactionSpec => []RedactionSettles
<1>1. RedactionInv /\ [RedactionNext]_redaction => RedactionInv'
  <2> SUFFICES ASSUME RedactionInv, [RedactionNext]_redaction PROVE RedactionInv'
    OBVIOUS
  <2>1. CASE BeginURLs
    BY <2>1, BeginURLsKeeps
  <2>2. CASE MaskURLs
    BY <2>2, MaskURLsKeeps
  <2>3. CASE MaskLines
    BY <2>3, MaskLinesKeeps
  <2>4. CASE Again
    BY <2>4, AgainKeeps
  <2>5. CASE UNCHANGED redaction
    BY <2>5 DEF redaction, RedactionInv, RoundsInv, SettledInv, SecretsInv
  <2> QED BY <2>1, <2>2, <2>3, <2>4, <2>5 DEF RedactionNext
<1> QED BY <1>1, RedactionInvInit, RedactionInvImplies, PTL DEF RedactionSpec
=============================================================================
