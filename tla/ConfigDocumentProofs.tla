------------------------ MODULE ConfigDocumentProofs ------------------------
(***************************************************************************)
(* Proofs that an accepted config document is what was written: for any    *)
(* set of lines, any number of them and any scalars that precede them.     *)
(***************************************************************************)
EXTENDS ConfigDocument, FiniteSetTheorems, TLAPS

-----------------------------------------------------------------------------
(***************************************************************************)
(* The structure of a sequence of lines, and what one more line changes.   *)
(***************************************************************************)
Margin(l)     == ~l.comment /\ ~l.item /\ l.indent = 0
Heads(r, i)   == {j \in 1 .. i - 1 : Margin(r[j])}
Heading(l)    == IF l.value = "" THEN l.key ELSE ""
OpenedBy(r, i) ==
  IF Heads(r, i) = {} THEN "" ELSE Heading(r[Latest(Heads(r, i))])
Inside(r, s)  ==
  {i \in 1 .. Len(r) : ~r[i].comment /\ ~Margin(r[i]) /\ OpenedBy(r, i) = s}
Rank(r, s, i) == Cardinality({j \in Inside(r, s) : j <= i})
Row(l)        == <<l.key, l.value>>

LEMMA LatestFacts ==
  ASSUME NEW n \in Nat, NEW C \in SUBSET (1 .. n), C # {}
  PROVE  Latest(C) \in C /\ \A i \in C : i <= Latest(C)
<1> DEFINE D == {d \in Nat : n - d \in C}
<1>1. \A i \in C : i \in Int /\ n - i \in Nat /\ n - (n - i) = i
  OBVIOUS
<1>2. D \in SUBSET Nat /\ D # {} /\ \A i \in C : n - i \in D
  <2>1. \A i \in C : n - i \in D
    BY <1>1
  <2> QED BY <2>1
<1>3. PICK d \in D : \A e \in D : ~ (<<e, d>> \in OpToRel(<, Nat))
  <2> HIDE DEF D
  <2> QED BY <1>2, NatLessThanWellFounded, WFMin
<1>4. \A e \in D : ~ (e < d)
  <2>1. \A e \in D : e < d => <<e, d>> \in OpToRel(<, Nat)
    BY DEF OpToRel
  <2> HIDE DEF OpToRel, D
  <2> QED BY <1>3, <2>1
<1>5. n - d \in C /\ d \in Nat
  OBVIOUS
<1>6. \A i \in C : i <= n - d
  <2> SUFFICES ASSUME NEW i \in C PROVE i <= n - d
    OBVIOUS
  <2>1. i \in Int /\ n - i \in Nat /\ ~ (n - i < d)
    <3> HIDE DEF D
    <3> QED BY <1>1, <1>2, <1>4
  <2> HIDE DEF D
  <2> QED BY <1>5, <2>1
<1>7. \E m \in C : \A i \in C : i <= m
  BY <1>5, <1>6
<1> QED BY <1>7 DEF Latest

LEMMA SameStructure ==
  /\ \A i \in 1 .. Len(read) : AtMargin(i) <=> Margin(read[i])
  /\ \A i : Opener(i) = OpenedBy(read, i)
  /\ \A s : Within(s) = Inside(read, s)
  /\ \A s, i : Place(s, i) = Rank(read, s, i)
<1>1. \A i : AtMargin(i) <=> Margin(read[i])
  BY DEF AtMargin, Counts, Margin
<1>2. \A i : {j \in 1 .. i - 1 : AtMargin(j)} = Heads(read, i)
  BY <1>1 DEF Heads
<1>3. \A i : Opener(i) = OpenedBy(read, i)
  BY <1>2 DEF Opener, OpenedBy, Heading
<1>4. \A s : Within(s) = Inside(read, s)
  BY <1>1, <1>3 DEF Within, Inside, Counts
<1>5. \A s, i : Place(s, i) = Rank(read, s, i)
  BY <1>4 DEF Place, Rank
<1> QED BY <1>1, <1>3, <1>4, <1>5

LEMMA AppendFacts ==
  ASSUME NEW r \in Seq(Lines), NEW l \in Lines
  PROVE  /\ Len(r) \in Nat /\ Len(Append(r, l)) = Len(r) + 1
         /\ \A i \in 1 .. Len(r) : Append(r, l)[i] = r[i]
         /\ Append(r, l)[Len(r) + 1] = l
OBVIOUS

LEMMA OpenerAppend ==
  ASSUME NEW r \in Seq(Lines), NEW l \in Lines
  PROVE  /\ \A i \in 1 .. Len(r) + 1 : OpenedBy(Append(r, l), i) = OpenedBy(r, i)
         /\ OpenedBy(Append(r, l), Len(r) + 2)
              = IF Margin(l) THEN Heading(l) ELSE OpenedBy(r, Len(r) + 1)
<1> DEFINE q == Append(r, l)
           n == Len(r)
<1>1. n \in Nat /\ Len(q) = n + 1 /\ q[n + 1] = l /\ \A i \in 1 .. n : q[i] = r[i]
  BY AppendFacts
<1> HIDE DEF q, n
<1>2. ASSUME NEW i \in 1 .. n + 1 PROVE OpenedBy(q, i) = OpenedBy(r, i)
  <2>1. \A j \in 1 .. i - 1 : j \in 1 .. n /\ q[j] = r[j]
    BY <1>1
  <2>2. Heads(q, i) = Heads(r, i)
    BY <2>1 DEF Heads
  <2>3. CASE Heads(r, i) = {}
    BY <2>2, <2>3 DEF OpenedBy
  <2>4. CASE Heads(r, i) # {}
    <3>1. Heads(r, i) \in SUBSET (1 .. n)
      BY <2>1 DEF Heads
    <3>2. Latest(Heads(r, i)) \in Heads(r, i)
      BY <1>1, <2>4, <3>1, LatestFacts
    <3>3. q[Latest(Heads(r, i))] = r[Latest(Heads(r, i))]
      BY <2>1, <3>2 DEF Heads
    <3> QED BY <2>2, <2>4, <3>3 DEF OpenedBy
  <2> QED BY <2>3, <2>4
<1>3. CASE Margin(l)
  <2>1. n + 1 \in Heads(q, n + 2) /\ Heads(q, n + 2) \in SUBSET (1 .. n + 1)
    BY <1>1, <1>3 DEF Heads
  <2>2. \A k \in Heads(q, n + 2) : k \in Int /\ k <= n + 1
    BY <1>1, <2>1
  <2>3. Latest(Heads(q, n + 2)) = n + 1
    BY <1>1, <2>1, <2>2 DEF Latest
  <2>4. OpenedBy(q, n + 2) = Heading(l)
    BY <1>1, <2>1, <2>3 DEF OpenedBy
  <2> QED BY <1>2, <1>3, <2>4 DEF q, n
<1>4. CASE ~Margin(l)
  <2>1. Heads(q, n + 2) = Heads(q, n + 1)
    BY <1>1, <1>4 DEF Heads
  <2>2. OpenedBy(q, n + 2) = OpenedBy(q, n + 1)
    BY <2>1 DEF OpenedBy
  <2> QED BY <1>1, <1>2, <1>4, <2>2 DEF q, n
<1> QED BY <1>3, <1>4

LEMMA InsideAppend ==
  ASSUME NEW r \in Seq(Lines), NEW l \in Lines, NEW s
  PROVE  Inside(Append(r, l), s)
           = IF ~l.comment /\ ~Margin(l) /\ OpenedBy(r, Len(r) + 1) = s
             THEN Inside(r, s) \cup {Len(r) + 1} ELSE Inside(r, s)
<1> DEFINE q == Append(r, l)
           n == Len(r)
<1>1. n \in Nat /\ Len(q) = n + 1 /\ q[n + 1] = l /\ \A i \in 1 .. n : q[i] = r[i]
  BY AppendFacts
<1>2. \A i \in 1 .. n + 1 : OpenedBy(q, i) = OpenedBy(r, i)
  BY OpenerAppend
<1> HIDE DEF q, n
<1>3. \A i \in 1 .. n : i \in 1 .. n + 1
  BY <1>1
<1>4. \A i \in 1 .. n : i \in Inside(q, s) <=> i \in Inside(r, s)
  BY <1>1, <1>2, <1>3 DEF Inside, n
<1>5. n + 1 \in Inside(q, s) <=> ~l.comment /\ ~Margin(l) /\ OpenedBy(r, n + 1) = s
  BY <1>1, <1>2 DEF Inside
<1>6. Inside(q, s) \subseteq 1 .. n + 1 /\ Inside(r, s) \subseteq 1 .. n
  BY <1>1 DEF Inside, n
<1>7. 1 .. n + 1 = (1 .. n) \cup {n + 1} /\ n + 1 \notin 1 .. n
  BY <1>1
<1>8. CASE n + 1 \in Inside(q, s)
  <2>1. Inside(q, s) = Inside(r, s) \cup {n + 1}
    BY <1>4, <1>6, <1>7, <1>8
  <2> QED BY <1>5, <1>8, <2>1 DEF q, n
<1>9. CASE n + 1 \notin Inside(q, s)
  <2>1. Inside(q, s) = Inside(r, s)
    BY <1>4, <1>6, <1>7, <1>9
  <2> QED BY <1>5, <1>9, <2>1 DEF q, n
<1> QED BY <1>8, <1>9

LEMMA InsideFacts ==
  ASSUME NEW r \in Seq(Lines), NEW s
  PROVE  /\ IsFiniteSet(Inside(r, s)) /\ Cardinality(Inside(r, s)) \in Nat
         /\ Inside(r, s) \in SUBSET (1 .. Len(r))
         /\ \A i : /\ IsFiniteSet({j \in Inside(r, s) : j <= i})
                   /\ Rank(r, s, i) \in Nat
<1>1. Len(r) \in Nat /\ IsFiniteSet(1 .. Len(r))
  BY FS_Interval
<1>2. Inside(r, s) \in SUBSET (1 .. Len(r))
  BY DEF Inside
<1>3. IsFiniteSet(Inside(r, s)) /\ Cardinality(Inside(r, s)) \in Nat
  BY <1>1, <1>2, FS_Subset, FS_CardinalityType
<1>4. ASSUME NEW i
      PROVE  /\ IsFiniteSet({j \in Inside(r, s) : j <= i})
             /\ Rank(r, s, i) \in Nat
  <2>1. {j \in Inside(r, s) : j <= i} \in SUBSET Inside(r, s)
    OBVIOUS
  <2>2. IsFiniteSet({j \in Inside(r, s) : j <= i})
    BY <1>3, <2>1, FS_Subset
  <2> QED BY <2>2, FS_CardinalityType DEF Rank
<1> QED BY <1>2, <1>3, <1>4

\* The places of the lines of a section are in their order.
LEMMA RankOrder ==
  ASSUME NEW r \in Seq(Lines), NEW s, NEW i \in Inside(r, s), NEW j \in Inside(r, s)
  PROVE  /\ Rank(r, s, i) \in 1 .. Cardinality(Inside(r, s))
         /\ i < j => Rank(r, s, i) < Rank(r, s, j)
         /\ i <= j <=> Rank(r, s, i) <= Rank(r, s, j)
<1> DEFINE Upto(k) == {m \in Inside(r, s) : m <= k}
<1>1. /\ IsFiniteSet(Inside(r, s)) /\ Cardinality(Inside(r, s)) \in Nat
      /\ Inside(r, s) \in SUBSET (1 .. Len(r)) /\ Len(r) \in Nat
      /\ \A k : IsFiniteSet(Upto(k)) /\ Rank(r, s, k) \in Nat
                /\ Rank(r, s, k) = Cardinality(Upto(k))
  <2>1. \A k : Rank(r, s, k) = Cardinality(Upto(k))
    BY DEF Rank
  <2>2. \A k : IsFiniteSet(Upto(k)) /\ Rank(r, s, k) \in Nat
    BY InsideFacts
  <2> HIDE DEF Upto
  <2> QED BY <2>1, <2>2, InsideFacts
<1>2. \A k \in Inside(r, s) : k \in Int
  BY <1>1
<1>3. Upto(i) \in SUBSET Inside(r, s) /\ i \in Upto(i)
  BY <1>2
<1>4. Rank(r, s, i) <= Cardinality(Inside(r, s)) /\ Rank(r, s, i) # 0
  <2> HIDE DEF Upto
  <2>1. Cardinality(Upto(i)) <= Cardinality(Inside(r, s))
    BY <1>1, <1>3, FS_Subset
  <2>2. Cardinality(Upto(i)) # 0
    BY <1>1, <1>3, FS_EmptySet
  <2> QED BY <1>1, <2>1, <2>2
<1>5. ASSUME NEW a \in Inside(r, s), NEW b \in Inside(r, s), a < b
      PROVE  Rank(r, s, a) < Rank(r, s, b)
  <2>1. Upto(a) \in SUBSET Upto(b) /\ b \in Upto(b) /\ b \notin Upto(a)
    BY <1>2, <1>5
  <2> HIDE DEF Upto
  <2>2. /\ Cardinality(Upto(a)) <= Cardinality(Upto(b))
        /\ Cardinality(Upto(b)) = Cardinality(Upto(a)) => Upto(b) = Upto(a)
    BY <1>1, <2>1, FS_Subset
  <2> QED BY <1>1, <2>1, <2>2
<1>6. i < j => Rank(r, s, i) < Rank(r, s, j)
  BY <1>5
<1>7. j < i => Rank(r, s, j) < Rank(r, s, i)
  BY <1>5
<1>8. /\ Cardinality(Inside(r, s)) \in Nat
      /\ Rank(r, s, i) \in Nat /\ Rank(r, s, j) \in Nat /\ i \in Int /\ j \in Int
  <2> HIDE DEF Upto
  <2> QED BY <1>1, <1>2
<1>9. i = j => Rank(r, s, i) = Rank(r, s, j)
  OBVIOUS
<1> HIDE DEF Upto
<1>10. i <= j <=> Rank(r, s, i) <= Rank(r, s, j)
  BY <1>6, <1>7, <1>8, <1>9
<1> QED BY <1>4, <1>6, <1>8, <1>10

-----------------------------------------------------------------------------
(***************************************************************************)
(* A table of rows is a section's lines, each in its place.                *)
(***************************************************************************)
Rows == {Row(l) : l \in Lines}
Tabulates(table, r, s) ==
  /\ table \in Seq(Rows) /\ Len(table) = Cardinality(Inside(r, s))
  /\ \A i \in Inside(r, s) : table[Rank(r, s, i)] = Row(r[i])
  /\ \A p \in 1 .. Len(table) : \E i \in Inside(r, s) : Rank(r, s, i) = p

LEMMA TableKept ==
  ASSUME NEW r \in Seq(Lines), NEW l \in Lines, NEW s, NEW table,
         Tabulates(table, r, s), Inside(Append(r, l), s) = Inside(r, s)
  PROVE  Tabulates(table, Append(r, l), s)
<1>1. \A i : Rank(Append(r, l), s, i) = Rank(r, s, i)
  BY DEF Rank
<1>2. \A i \in Inside(r, s) : Append(r, l)[i] = r[i]
  BY InsideFacts, AppendFacts
<1> QED BY <1>1, <1>2 DEF Tabulates

LEMMA TableExtended ==
  ASSUME NEW r \in Seq(Lines), NEW l \in Lines, NEW s, NEW table,
         Tabulates(table, r, s), Inside(Append(r, l), s) = Inside(r, s) \cup {Len(r) + 1}
  PROVE  Tabulates(Append(table, Row(l)), Append(r, l), s)
<1> DEFINE q == Append(r, l)
           n == Len(r)
           I == Inside(r, s)
           c == Cardinality(I)
           t == Append(table, Row(l))
<1>1. n \in Nat /\ q \in Seq(Lines) /\ q[n + 1] = l /\ \A i \in 1 .. n : q[i] = r[i]
  BY AppendFacts
<1>2. IsFiniteSet(I) /\ c \in Nat /\ I \in SUBSET (1 .. n)
  BY InsideFacts
<1>3. /\ table \in Seq(Rows) /\ Len(table) = c
      /\ \A i \in I : table[Rank(r, s, i)] = Row(r[i])
      /\ \A p \in 1 .. c : \E i \in I : Rank(r, s, i) = p
  BY DEF Tabulates
<1>4. Row(l) \in Rows
  BY DEF Rows
<1>5. /\ t \in Seq(Rows) /\ Len(t) = c + 1 /\ t[c + 1] = Row(l)
      /\ \A p \in 1 .. c : t[p] = table[p]
  <2> HIDE DEF c
  <2> QED BY <1>3, <1>4
<1>6. Inside(q, s) = I \cup {n + 1} /\ n + 1 \notin I
  BY <1>1, <1>2
<1>7. \A i \in I : Rank(r, s, i) \in 1 .. c
  BY RankOrder
<1> HIDE DEF q, n, I, c, t
<1>8. Cardinality(Inside(q, s)) = c + 1
  BY <1>2, <1>6, FS_AddElement DEF c
<1>9. ASSUME NEW i \in I PROVE Rank(q, s, i) = Rank(r, s, i) /\ q[i] = r[i]
  <2>1. i \in 1 .. n
    BY <1>2
  <2>2. {j \in Inside(q, s) : j <= i} = {j \in I : j <= i}
    BY <1>1, <1>6, <2>1
  <2> QED BY <1>1, <2>1, <2>2 DEF Rank, I
<1>10. Rank(q, s, n + 1) = c + 1
  <2>1. \A j \in I : j \in Int /\ j <= n + 1
    BY <1>1, <1>2
  <2>2. {j \in Inside(q, s) : j <= n + 1} = Inside(q, s)
    BY <1>1, <1>6, <2>1
  <2> QED BY <1>8, <2>2 DEF Rank
<1>11. ASSUME NEW i \in Inside(q, s) PROVE t[Rank(q, s, i)] = Row(q[i])
  <2>1. CASE i \in I
    BY <1>3, <1>5, <1>7, <1>9, <2>1
  <2>2. CASE i = n + 1
    BY <1>1, <1>5, <1>10, <2>2
  <2> QED BY <1>6, <2>1, <2>2
<1>12. ASSUME NEW p \in 1 .. c + 1 PROVE \E i \in Inside(q, s) : Rank(q, s, i) = p
  <2>1. CASE p \in 1 .. c
    BY <1>3, <1>6, <1>9, <2>1
  <2>2. CASE p = c + 1
    BY <1>6, <1>10, <2>2
  <2>3. p \in 1 .. c \/ p = c + 1
    BY <1>2
  <2> QED BY <2>1, <2>2, <2>3
<1> QED BY <1>5, <1>8, <1>11, <1>12 DEF Tabulates, q, t

-----------------------------------------------------------------------------
(***************************************************************************)
(* What is known of a document until one of its lines is refused: nothing  *)
(* forbidden was passed over, the section that is open is the one of the   *)
(* last heading, a scalar has its latest value and a section its lines.    *)
(***************************************************************************)
Setting(l, k)    == Margin(l) /\ l.key = k /\ l.value # ""
Settings(r, k)   == {i \in 1 .. Len(r) : Setting(r[i], k)}
ScalarInv(r, values, k) ==
  IF Settings(r, k) = {} THEN values[k] = Header[role][k]
  ELSE \E i \in Settings(r, k) :
         values[k] = r[i].value /\ \A j \in Settings(r, k) : j <= i

DocTypes ==
  /\ read \in Seq(Lines) /\ Len(read) <= MaxLines
  /\ role \in Roles /\ section \in Sections \cup {""}
  /\ sections \in [Sections -> Seq(Rows)] /\ banned \in BOOLEAN
  /\ verdict \in {"reading", "accepted", "rejected"}

ReadInv ==
  /\ \A i \in 1 .. Len(read) : ~read[i].comment /\ read[i].banned => banned
  /\ section = OpenedBy(read, Len(read) + 1)
  /\ \A k \in DOMAIN scalars : ScalarInv(read, scalars, k)
  /\ \A i \in 1 .. Len(read) : \A k : Setting(read[i], k) => k \in DOMAIN scalars
  /\ \A s \in Sections : Tabulates(sections[s], read, s)

DocInv ==
  /\ DocTypes
  /\ verdict # "rejected" => ReadInv
  /\ verdict = "accepted" => ValidFields /\ ValidCredentials /\ ValidPosture

LEMMA InitDoc == Init => DocInv
<1> SUFFICES ASSUME Init PROVE DocInv
  OBVIOUS
<1>1. /\ <<>> \in Seq(Lines) /\ <<>> \in Seq(Rows) /\ Len(<<>>) = 0
  OBVIOUS
<1>2. read = <<>> /\ role \in Roles /\ scalars = Header[role] /\ banned = FALSE
      /\ sections = [s \in Sections |-> <<>>] /\ section = "" /\ verdict = "reading"
  BY DEF Init
<1>3. read \in Seq(Lines) /\ Len(read) = 0 /\ 1 .. Len(read) = {} /\ 1 .. Len(read) + 1 - 1 = {}
  <2>1. read \in Seq(Lines) /\ Len(read) = 0
    BY <1>1, <1>2, Zenon
  <2>2. 1 .. 0 = {} /\ 1 .. 0 + 1 - 1 = {}
    OBVIOUS
  <2> QED BY <2>1, <2>2, Zenon
<1>4. DocTypes
  <2>1. sections \in [Sections -> Seq(Rows)]
    BY <1>1, <1>2
  <2>2. Len(read) <= MaxLines
    BY <1>3, LinesAssumption
  <2> QED BY <1>2, <1>3, <2>1, <2>2 DEF DocTypes
<1>5. OpenedBy(read, Len(read) + 1) = ""
  <2>1. Heads(read, Len(read) + 1) = {}
    BY <1>3 DEF Heads
  <2> QED BY <2>1 DEF OpenedBy
<1>6. \A s \in Sections : Tabulates(sections[s], read, s)
  <2> SUFFICES ASSUME NEW s \in Sections PROVE Tabulates(<<>>, read, s)
    BY <1>2
  <2>1. Inside(read, s) = {} /\ Cardinality({}) = 0
    BY <1>3, FS_EmptySet DEF Inside
  <2>2. 1 .. Len(<<>>) = {}
    BY <1>1
  <2> QED BY <1>1, <2>1, <2>2 DEF Tabulates
<1>7. \A k \in DOMAIN scalars : ScalarInv(read, scalars, k)
  <2>1. \A k : Settings(read, k) = {}
    BY <1>3 DEF Settings
  <2> QED BY <1>2, <2>1 DEF ScalarInv
<1>8. ReadInv
  BY <1>2, <1>3, <1>5, <1>6, <1>7 DEF ReadInv
<1> QED BY <1>2, <1>4, <1>8 DEF DocInv

\* The four things a line does that is not refused.
LEMMA LineCases ==
  ASSUME NEW l, Item(l) \/ TopLevel(l) \/ Indented(l), ~l.comment, verdict' # "rejected"
  PROVE  /\ verdict' = verdict
         /\ banned' = (banned \/ l.banned)
         /\ \/ ~Margin(l) /\ section # "" /\ Collect(l)
            \/ /\ Margin(l) /\ l.value = "" /\ IsSection(l.key)
               /\ section' = l.key /\ UNCHANGED <<scalars, sections>>
            \/ /\ Margin(l) /\ l.value # ""
               /\ SetScalar(l) /\ section' = "" /\ UNCHANGED sections
<1>1. CASE Item(l)
  BY <1>1 DEF Item, Margin, Reject, Collect, Proceed
<1>2. CASE TopLevel(l)
  BY <1>2 DEF TopLevel, Margin, Reject, Proceed
<1>3. CASE Indented(l)
  <2>1. ~ (0 > 0)
    OBVIOUS
  <2>2. l.indent > 0
    BY <1>3 DEF Indented
  <2>3. l.indent # 0
    BY <2>1, <2>2
  <2>4. ~Margin(l)
    BY <2>3 DEF Margin
  <2> QED BY <1>3, <2>4 DEF Indented, Reject, Collect, Proceed
<1> QED BY <1>1, <1>2, <1>3

\* The scalars after a line that sets none of them, or one.
LEMMA ScalarsKept ==
  ASSUME NEW r \in Seq(Lines), NEW l \in Lines, NEW values, NEW k,
         ~Setting(l, k), ScalarInv(r, values, k)
  PROVE  ScalarInv(Append(r, l), values, k)
<1>1. Settings(Append(r, l), k) = Settings(r, k)
  BY AppendFacts DEF Settings
<1>2. \A i \in Settings(r, k) : Append(r, l)[i] = r[i]
  BY AppendFacts DEF Settings
<1> QED BY <1>1, <1>2 DEF ScalarInv

LEMMA ScalarSet ==
  ASSUME NEW r \in Seq(Lines), NEW l \in Lines, NEW values, NEW k,
         Setting(l, k), values[k] = l.value
  PROVE  ScalarInv(Append(r, l), values, k)
<1> DEFINE q == Append(r, l)
           n == Len(r)
<1>1. n \in Nat /\ Len(q) = n + 1 /\ q[n + 1] = l
  BY AppendFacts
<1> HIDE DEF q, n
<1>2. n + 1 \in Settings(q, k)
  BY <1>1 DEF Settings
<1>3. \A j \in Settings(q, k) : j <= n + 1
  BY <1>1 DEF Settings
<1>4. q[n + 1].value = values[k]
  BY <1>1
<1>5. ScalarInv(q, values, k)
  BY <1>2, <1>3, <1>4 DEF ScalarInv
<1> QED BY <1>5 DEF q

LEMMA LineStep ==
  ASSUME DocInv, NEW l \in Lines, verdict = "reading", Len(read) < MaxLines,
         read' = Append(read, l), UNCHANGED role,
         \/ l.comment /\ UNCHANGED <<doc, verdict>>
         \/ Reject
         \/ ~l.comment /\ (Item(l) \/ TopLevel(l) \/ Indented(l))
  PROVE  DocInv'
<1> DEFINE n == Len(read)
<1>1. /\ read \in Seq(Lines) /\ n \in Nat /\ MaxLines \in Nat
      /\ read' \in Seq(Lines) /\ Len(read') = n + 1 /\ Len(read') <= MaxLines
      /\ read'[n + 1] = l /\ \A i \in 1 .. n : read'[i] = read[i]
  <2>1. read \in Seq(Lines) /\ MaxLines \in Nat
    BY LinesAssumption DEF DocInv, DocTypes
  <2>2. Append(read, l) \in Seq(Lines)
    BY <2>1
  <2> QED BY <2>1, <2>2, AppendFacts
<1>2. CASE verdict' = "rejected"
  <2>1. UNCHANGED doc \/ (~l.comment /\ (Item(l) \/ TopLevel(l) \/ Indented(l)))
    BY DEF Reject
  <2>2. UNCHANGED doc
    BY <1>2, <2>1 DEF Item, TopLevel, Indented, Reject, Proceed, Collect
  <2> QED BY <1>1, <1>2, <2>2 DEF DocInv, DocTypes, doc
<1>3. CASE verdict' # "rejected"
  <2>1. DocTypes /\ ReadInv
    BY DEF DocInv
  <2>2. /\ OpenedBy(read', n + 2) = IF Margin(l) THEN Heading(l) ELSE section
        /\ \A s : Inside(read', s)
                 = IF ~l.comment /\ ~Margin(l) /\ section = s
                   THEN Inside(read, s) \cup {n + 1} ELSE Inside(read, s)
    BY <1>1, <2>1, OpenerAppend, InsideAppend DEF ReadInv
  <2>3. \A i \in 1 .. n + 1 : i \in 1 .. n \/ i = n + 1
    BY <1>1
  <2>4. \/ l.comment /\ UNCHANGED <<doc, verdict>>
        \/ ~l.comment /\ (Item(l) \/ TopLevel(l) \/ Indented(l))
    BY <1>3 DEF Reject
  <2>5. /\ verdict' = "reading" /\ banned' \in BOOLEAN
        /\ banned => banned'
        /\ ~l.comment /\ l.banned => banned'
    BY <2>1, <2>4, <1>3, LineCases DEF DocTypes, doc
  <2>6. \A i \in 1 .. n + 1 : ~read'[i].comment /\ read'[i].banned => banned'
    BY <1>1, <2>1, <2>3, <2>5 DEF ReadInv
  <2>7. ASSUME section' = (IF Margin(l) THEN Heading(l) ELSE section),
               section' \in Sections \cup {""},
               sections' \in [Sections -> Seq(Rows)],
               \A k \in DOMAIN scalars' : ScalarInv(read', scalars', k),
               DOMAIN scalars \subseteq DOMAIN scalars',
               \A k : Setting(l, k) => k \in DOMAIN scalars',
               \A s \in Sections : Tabulates(sections'[s], read', s)
        PROVE  DocInv'
    <3>1. DocTypes'
      BY <1>1, <2>1, <2>5, <2>7 DEF DocTypes
    <3>2. \A i \in 1 .. n + 1 : \A k : Setting(read'[i], k) => k \in DOMAIN scalars'
      BY <1>1, <2>1, <2>3, <2>7 DEF ReadInv
    <3>3. \A k : ScalarInv(read', scalars', k) => ScalarInv(read, scalars, k)'
      BY DEF ScalarInv, Settings
    <3>4. section' = OpenedBy(read', n + 2) /\ n + 1 + 1 = n + 2
      <4>1. section' = OpenedBy(read', n + 2)
        BY <2>2, <2>7
      <4>2. n + 1 + 1 = n + 2
        BY <1>1
      <4> QED BY <4>1, <4>2
    <3>5. ReadInv'
      BY <1>1, <2>6, <2>7, <3>2, <3>3, <3>4 DEF ReadInv
    <3> QED BY <2>5, <3>1, <3>5 DEF DocInv
  <2>8. CASE UNCHANGED sections /\ (l.comment \/ Margin(l))
    <3>1. \A s : Inside(read', s) = Inside(read, s)
      BY <2>2, <2>8
    <3>2. \A s \in Sections : Tabulates(sections'[s], read', s)
      BY <1>1, <2>1, <2>8, <3>1, TableKept DEF ReadInv
    <3>3. sections' \in [Sections -> Seq(Rows)] /\ section \in Sections \cup {""}
      BY <2>1, <2>8 DEF DocTypes
    <3>4. CASE UNCHANGED scalars /\ \A k : ~Setting(l, k)
      <4>1. \A k \in DOMAIN scalars' : ScalarInv(read', scalars', k)
        BY <1>1, <2>1, <3>4, ScalarsKept DEF ReadInv
      <4>2. /\ section' = (IF Margin(l) THEN Heading(l) ELSE section)
            /\ section' \in Sections \cup {""}
        <5>1. CASE l.comment
          BY <2>4, <3>3, <5>1 DEF Margin, doc
        <5>2. CASE ~l.comment
          <6>1. Margin(l) /\ l.value = "" /\ IsSection(l.key) /\ section' = l.key
            BY <1>3, <2>4, <2>8, <3>4, <5>2, LineCases DEF Setting
          <6> QED BY <6>1 DEF Heading, IsSection, Sections
        <5> QED BY <5>1, <5>2
      <4> QED BY <2>7, <3>2, <3>3, <3>4, <4>1, <4>2
    <3>5. CASE ~l.comment /\ Margin(l) /\ l.value # "" /\ SetScalar(l) /\ section' = ""
      <4>1. /\ DOMAIN scalars' = DOMAIN scalars \cup {l.key} /\ scalars'[l.key] = l.value
            /\ \A k \in DOMAIN scalars : k # l.key => scalars'[k] = scalars[k]
        BY <3>5 DEF SetScalar
      <4>2. ASSUME NEW k \in DOMAIN scalars' PROVE ScalarInv(read', scalars', k)
        <5>1. CASE k = l.key
          BY <1>1, <3>5, <4>1, <5>1, ScalarSet DEF Setting
        <5>2. CASE k # l.key
          <6>1. ScalarInv(read, scalars, k) /\ scalars'[k] = scalars[k]
            BY <2>1, <4>1, <5>2 DEF ReadInv
          <6>2. ScalarInv(read, scalars', k)
            BY <6>1 DEF ScalarInv
          <6>3. ~Setting(l, k)
            BY <5>2 DEF Setting
          <6> QED BY <1>1, <6>2, <6>3, ScalarsKept
        <5> QED BY <5>1, <5>2
      <4>3. section' = Heading(l) /\ \A k : Setting(l, k) => k = l.key
        BY <3>5 DEF Heading, Setting
      <4> QED BY <2>7, <3>2, <3>3, <3>5, <4>1, <4>2, <4>3
    <3>6. l.comment => UNCHANGED scalars /\ \A k : ~Setting(l, k)
      BY <2>4 DEF Setting, Margin, doc
    <3>7. ~l.comment /\ l.value = "" => UNCHANGED scalars /\ \A k : ~Setting(l, k)
      BY <1>3, <2>4, <2>8, LineCases DEF Setting
    <3>8. ~l.comment /\ l.value # "" => SetScalar(l) /\ section' = "" /\ Margin(l)
      BY <1>3, <2>4, <2>8, LineCases
    <3> QED BY <3>4, <3>5, <3>6, <3>7, <3>8
  <2>9. CASE ~l.comment /\ ~Margin(l)
    <3>1. section # "" /\ Collect(l)
      BY <1>3, <2>4, <2>9, LineCases
    <3>2. /\ section \in Sections /\ section' = section /\ scalars' = scalars
          /\ sections' = [sections EXCEPT ![section] = Append(@, Row(l))]
      BY <2>1, <3>1 DEF DocTypes, Collect, Row
    <3>3. sections \in [Sections -> Seq(Rows)] /\ Row(l) \in Rows
      BY <2>1 DEF DocTypes, Rows
    <3>4. Append(sections[section], Row(l)) \in Seq(Rows)
      BY <3>2, <3>3
    <3>5. sections' \in [Sections -> Seq(Rows)]
      BY <3>2, <3>3, <3>4
    <3>6. ASSUME NEW s \in Sections PROVE Tabulates(sections'[s], read', s)
      <4>1. Tabulates(sections[s], read, s)
        BY <2>1 DEF ReadInv
      <4>2. CASE s = section
        <5>1. sections'[s] = Append(sections[s], Row(l))
          BY <3>2, <3>3, <4>2
        <5>2. Inside(Append(read, l), s) = Inside(read, s) \cup {Len(read) + 1}
          BY <2>2, <2>9, <4>2
        <5> HIDE DEF n
        <5>3. Tabulates(Append(sections[s], Row(l)), Append(read, l), s)
          BY <1>1, <4>1, <5>2, TableExtended
        <5> QED BY <5>1, <5>3
      <4>3. CASE s # section
        <5>1. sections'[s] = sections[s] /\ Inside(Append(read, l), s) = Inside(read, s)
          BY <2>2, <3>2, <3>3, <4>3
        <5> QED BY <1>1, <4>1, <5>1, TableKept
      <4> QED BY <4>2, <4>3
    <3>7. \A k : ~Setting(l, k)
      BY <2>9 DEF Setting
    <3>8. \A k \in DOMAIN scalars' : ScalarInv(read', scalars', k)
      BY <1>1, <2>1, <3>2, <3>7, ScalarsKept DEF ReadInv
    <3> QED BY <2>7, <2>9, <3>2, <3>5, <3>6, <3>7, <3>8
  <2>10. l.comment \/ Margin(l) => UNCHANGED sections
    BY <1>3, <2>4, LineCases DEF doc, Margin
  <2> QED BY <2>8, <2>9, <2>10
<1> QED BY <1>2, <1>3

\* The verdict is about the document: as long as that stays, it stays.
PortIn(items, kv) ==
  LET hits == {j \in 1 .. Len(items) :
                 /\ items[j][1] = "port"
                 /\ \E i \in 1 .. j - 1 :
                      items[i] = kv /\ \A k \in i + 1 .. j : items[k][1] # "name"}
  IN  IF hits = {} THEN "" ELSE items[CHOOSE j \in hits : \A k \in hits : j <= k][2]

LEMMA VerdictStays ==
  ASSUME UNCHANGED <<role, scalars, sections, banned>>,
         ValidFields /\ ValidCredentials /\ ValidPosture
  PROVE  (ValidFields /\ ValidCredentials /\ ValidPosture)'
<1>1. \A s \in Sections : Pairs(s)' = Pairs(s)
  BY DEF Pairs
<1>2. \A k : Scalar(k)' = Scalar(k)
  BY DEF Scalar
<1>3. \A kv : PortOfListener(kv)' = PortOfListener(kv)
  <2>1. \A kv : PortOfListener(kv) = PortIn(sections["listeners"], kv)
    BY DEF PortOfListener, PortIn
  <2>2. \A kv : PortOfListener(kv)' = PortIn(sections'["listeners"], kv)
    BY DEF PortOfListener, PortIn
  <2> QED BY <2>1, <2>2
<1>4. ValidListeners => ValidListeners'
  BY <1>1 DEF ValidListeners, Sections
<1>5. ValidFields'
  BY <1>1, <1>2 DEF ValidFields, IsSection
<1>6. ValidCredentials'
  BY <1>1 DEF ValidCredentials, Sections
<1>7. ValidPosture'
  BY <1>1, <1>2, <1>3, <1>4 DEF ValidPosture, Sections
<1> QED BY <1>5, <1>6, <1>7

LEMMA NextDoc == DocInv /\ [Next]_vars => DocInv'
<1> SUFFICES ASSUME DocInv, [Next]_vars PROVE DocInv'
  OBVIOUS
<1>1. CASE ReadLine
  <2>1. PICK l \in Lines :
          /\ read' = Append(read, l)
          /\ CASE l.comment -> UNCHANGED <<doc, verdict>>
               [] ~l.comment /\ l.key = "" -> Reject
               [] OTHER -> Item(l) \/ TopLevel(l) \/ Indented(l)
    BY <1>1 DEF ReadLine
  <2>2. \/ l.comment /\ UNCHANGED <<doc, verdict>>
        \/ Reject
        \/ ~l.comment /\ (Item(l) \/ TopLevel(l) \/ Indented(l))
    BY <2>1
  <2>3. verdict = "reading" /\ Len(read) < MaxLines /\ UNCHANGED role
    BY <1>1 DEF ReadLine
  <2> QED BY <2>1, <2>2, <2>3, LineStep
<1>2. CASE Validate
  <2>1. /\ UNCHANGED <<role, read, scalars, sections, section, banned>>
        /\ verdict = "reading" /\ verdict' \in {"accepted", "rejected"}
        /\ verdict' = "accepted" => ValidFields /\ ValidCredentials /\ ValidPosture
    BY <1>2 DEF Validate, doc
  <2>2. DocTypes'
    BY <2>1 DEF DocInv, DocTypes
  <2>3. ReadInv'
    BY <2>1 DEF DocInv, ReadInv, ScalarInv
  <2>4. verdict' = "accepted" => (ValidFields /\ ValidCredentials /\ ValidPosture)'
    BY <2>1, VerdictStays
  <2> QED BY <2>2, <2>3, <2>4 DEF DocInv
<1>3. CASE UNCHANGED vars
  <2>1. UNCHANGED <<role, read, scalars, sections, section, banned, verdict>>
    BY <1>3 DEF vars, doc
  <2>2. DocTypes'
    BY <2>1 DEF DocInv, DocTypes
  <2>3. verdict # "rejected" => ReadInv'
    BY <2>1 DEF DocInv, ReadInv, ScalarInv
  <2>4. verdict = "accepted" => (ValidFields /\ ValidCredentials /\ ValidPosture)'
    BY <2>1, VerdictStays DEF DocInv
  <2> QED BY <2>1, <2>2, <2>3, <2>4 DEF DocInv
<1> QED BY <1>1, <1>2, <1>3 DEF Next

LEMMA DocInvariance == Spec => []DocInv
BY InitDoc, NextDoc, PTL DEF Spec

-----------------------------------------------------------------------------
\* No line of an accepted document has a forbidden text, whatever later lines
\* replace: for any lines, and any number of them.
THEOREM BannedTextIsRefused == Spec => []BannedNowhere
<1>1. DocInv => BannedNowhere
  <2> SUFFICES ASSUME DocInv, Accepted PROVE \A i \in 1 .. Len(read) : Counts(i) => ~read[i].banned
    BY DEF BannedNowhere
  <2>1. ReadInv /\ ValidPosture
    BY DEF DocInv, Accepted
  <2> QED BY <2>1 DEF ReadInv, ValidPosture, Counts
<1> QED BY <1>1, DocInvariance, PTL

-----------------------------------------------------------------------------
LEMMA DocumentAsWritten == ASSUME DocInv PROVE ParsesAsWritten
<1> SUFFICES ASSUME Accepted PROVE ParsesAsWritten
  BY DEF ParsesAsWritten
<1>1. ReadInv
  BY DEF DocInv, Accepted
<1>2. \A k : {i \in 1 .. Len(read) : AtMargin(i) /\ read[i].key = k /\ read[i].value # ""}
              = Settings(read, k)
  BY SameStructure DEF Settings, Setting
<1>3. ASSUME NEW k \in DOMAIN scalars
      PROVE  LET set == {i \in 1 .. Len(read) :
                           AtMargin(i) /\ read[i].key = k /\ read[i].value # ""}
             IN  IF set = {} THEN scalars[k] = Header[role][k]
                 ELSE \E i \in set : scalars[k] = read[i].value /\ \A j \in set : j <= i
  BY <1>1, <1>2 DEF ReadInv, ScalarInv
<1>4. \A i \in 1 .. Len(read) :
        AtMargin(i) /\ read[i].value # "" => read[i].key \in DOMAIN scalars
  BY <1>1, SameStructure DEF ReadInv, Setting
<1>5. \A s \in Sections :
        /\ Len(sections[s]) = Cardinality(Within(s))
        /\ \A i \in Within(s) : sections[s][Place(s, i)] = <<read[i].key, read[i].value>>
  BY <1>1, SameStructure DEF ReadInv, Tabulates, Row
<1> QED BY <1>3, <1>4, <1>5 DEF ParsesAsWritten

\* Each line of a section is a pair of it, in its place, and there are no others.
LEMMA LinesArePairs ==
  ASSUME DocInv, Accepted, NEW s \in Sections
  PROVE  /\ Len(sections[s]) \in Nat
         /\ \A i \in Within(s) :
              /\ i \in 1 .. Len(read) /\ Place(s, i) \in 1 .. Len(sections[s])
              /\ sections[s][Place(s, i)] = <<read[i].key, read[i].value>>
              /\ <<read[i].key, read[i].value>> \in Pairs(s)
         /\ \A p \in 1 .. Len(sections[s]) : \E i \in Within(s) :
              Place(s, i) = p /\ sections[s][p] = <<read[i].key, read[i].value>>
         /\ \A i, j \in Within(s) : i <= j <=> Place(s, i) <= Place(s, j)
         /\ \A i, j \in Within(s) : i < j => Place(s, i) < Place(s, j)
<1>1. read \in Seq(Lines) /\ Tabulates(sections[s], read, s)
  BY DEF DocInv, DocTypes, ReadInv, Accepted
<1>2. /\ Within(s) = Inside(read, s) /\ \A i : Place(s, i) = Rank(read, s, i)
  BY SameStructure
<1>3. /\ Len(sections[s]) = Cardinality(Within(s)) /\ Cardinality(Within(s)) \in Nat
      /\ Within(s) \in SUBSET (1 .. Len(read))
      /\ \A i \in Within(s) : sections[s][Place(s, i)] = <<read[i].key, read[i].value>>
      /\ \A p \in 1 .. Len(sections[s]) : \E i \in Within(s) : Place(s, i) = p
  BY <1>1, <1>2, InsideFacts DEF Tabulates, Row
<1>4. ASSUME NEW i \in Within(s), NEW j \in Within(s)
      PROVE  /\ Place(s, i) \in 1 .. Len(sections[s])
             /\ i <= j <=> Place(s, i) <= Place(s, j)
             /\ i < j => Place(s, i) < Place(s, j)
  BY <1>1, <1>2, <1>3, RankOrder
<1>5. \A i \in Within(s) : <<read[i].key, read[i].value>> \in Pairs(s)
  BY <1>3, <1>4 DEF Pairs
<1> QED BY <1>3, <1>4, <1>5

LEMMA PasswordsArePlaceholders == ASSUME DocInv PROVE UserPasswordsArePlaceholders
<1> SUFFICES ASSUME Accepted, NEW i \in Within("users"), read[i].key = "password"
             PROVE  IsPlaceholder(read[i].value)
  BY DEF UserPasswordsArePlaceholders
<1>1. <<read[i].key, read[i].value>> \in Pairs("users")
  BY LinesArePairs DEF Sections
<1>2. ValidCredentials
  BY DEF DocInv, Accepted
<1> QED BY <1>1, <1>2 DEF ValidCredentials

\* What the listener checks say of the pairs, named by their places.
NameAt(p)   == sections["listeners"][p][1] = "name"
OwnedBy(p, m) ==
  m < p /\ NameAt(m) /\ \A k \in m + 1 .. p - 1 : ~NameAt(k)

LEMMA ListenerFacts ==
  ASSUME ValidListeners
  PROVE  LET items == sections["listeners"] IN
         /\ \A p \in 1 .. Len(items) : NameAt(p) =>
              /\ items[p][2] \in DOMAIN Listeners
              /\ \A m \in 1 .. p - 1 : items[m] # items[p]
         /\ \A p \in 1 .. Len(items) : ~NameAt(p) =>
              \E m \in 1 .. p - 1 : OwnedBy(p, m) /\ Fits(items[m][2], items[p])
         /\ \A n \in DOMAIN Listeners : <<"name", n>> \in Pairs("listeners")
BY DEF ValidListeners, NameAt, OwnedBy

LEMMA NamesAreNotFixed ==
  ASSUME NEW n \in DOMAIN Listeners, NEW v PROVE Fits(n, <<"name", v>>)
<1>1. n \in {"gateway_trojan", "gateway_https", "gateway_tproxy"}
  BY DEF Listeners
<1>2. "name" \notin DOMAIN Listeners[n]
  BY <1>1 DEF Listeners
<1> QED BY <1>2 DEF Fits

LEMMA ListenersAreFixed == ASSUME DocInv PROVE NamedListenersArePinned
<1> DEFINE W == Within("listeners")
           items == sections["listeners"]
           c == Len(items)
<1> SUFFICES ASSUME Accepted, W # {},
                    \A i \in W : read[i].item = (read[i].key = "name")
             PROVE  /\ Pinned
                    /\ \A n \in DOMAIN Listeners :
                         \E i \in W :
                           /\ read[i].key = "name" /\ read[i].value = n
                           /\ \A j \in W : read[j].key = "name" /\ read[j].value = n => j = i
  BY DEF NamedListenersArePinned
<1>1. /\ c \in Nat
      /\ \A i \in W : /\ i \in 1 .. Len(read) /\ Place("listeners", i) \in 1 .. c
                      /\ items[Place("listeners", i)] = <<read[i].key, read[i].value>>
                      /\ <<read[i].key, read[i].value>> \in Pairs("listeners")
      /\ \A p \in 1 .. c : \E i \in W :
           Place("listeners", i) = p /\ items[p] = <<read[i].key, read[i].value>>
      /\ \A i, j \in W : i <= j <=> Place("listeners", i) <= Place("listeners", j)
      /\ \A i, j \in W : i < j => Place("listeners", i) < Place("listeners", j)
  BY LinesArePairs DEF Sections
<1>2. Len(read) \in Nat
  <2>1. read \in Seq(Lines)
    BY DEF DocInv, DocTypes
  <2> QED BY <2>1
<1>3. ValidListeners
  <2>1. ValidFields /\ ValidPosture
    BY DEF DocInv, Accepted
  <2>2. PICK i \in W : TRUE
    OBVIOUS
  <2>3. <<read[i].key, read[i].value>> \in Pairs("listeners") /\ c # 0
    BY <1>1, <2>2
  <2>4. IsSection("listeners")
    BY <2>1, <2>3 DEF ValidFields, Sections
  <2>5. role = "gateway"
    BY <2>4 DEF IsSection
  <2>6. items # <<>>
    BY <2>3
  <2> QED BY <2>1, <2>5, <2>6 DEF ValidPosture
<1>4. /\ \A p \in 1 .. c : NameAt(p) =>
           /\ items[p][2] \in DOMAIN Listeners
           /\ \A m \in 1 .. p - 1 : items[m] # items[p]
      /\ \A p \in 1 .. c : ~NameAt(p) =>
           \E m \in 1 .. p - 1 : OwnedBy(p, m) /\ Fits(items[m][2], items[p])
      /\ \A n \in DOMAIN Listeners : <<"name", n>> \in Pairs("listeners")
  BY <1>3, ListenerFacts
<1>5. ASSUME NEW i \in W PROVE NameAt(Place("listeners", i)) <=> read[i].key = "name"
  <2>1. items[Place("listeners", i)] = <<read[i].key, read[i].value>>
    BY <1>1
  <2>2. items[Place("listeners", i)][1] = read[i].key
    BY <2>1
  <2> QED BY <2>2 DEF NameAt
<1>6. \A i \in W : read[i].key = "name" <=> read[i].item
  OBVIOUS
<1> DEFINE P(i) == Place("listeners", i)
<1>7. ASSUME NEW i \in W, NEW j \in W, read[i].key = "name", SameItem(i, j)
      PROVE  Fits(read[i].value, <<read[j].key, read[j].value>>)
  <2>1. i \in 1 .. Len(read) /\ j \in 1 .. Len(read)
    BY <1>1
  <2>2. i \in ItemStart(i)
    <3>1. i \in 1 .. i /\ i + 1 .. i = {}
      BY <1>2, <2>1
    <3>2. read[i].item
      BY <1>6, <1>7
    <3> QED BY <3>1, <3>2 DEF ItemStart
  <2>3. i \in 1 .. j /\ \A k \in i + 1 .. j : ~read[k].item
    BY <2>2, <1>7 DEF SameItem, ItemStart
  <2>4. CASE j = i
    <3>1. items[P(i)] = <<read[i].key, read[i].value>> /\ P(i) \in 1 .. c /\ NameAt(P(i))
      BY <1>1, <1>5, <1>7
    <3>2. read[i].value \in DOMAIN Listeners
      BY <1>4, <3>1
    <3> QED BY <1>7, <2>4, <3>2, NamesAreNotFixed
  <2>5. CASE j # i
    <3>1. i < j /\ ~read[j].item
      BY <1>2, <2>1, <2>3, <2>5
    <3>2. /\ P(i) \in 1 .. c /\ P(j) \in 1 .. c /\ P(i) < P(j)
          /\ NameAt(P(i)) /\ ~NameAt(P(j))
      BY <1>1, <1>5, <1>6, <1>7, <3>1
    <3>3. PICK m \in 1 .. P(j) - 1 :
            OwnedBy(P(j), m) /\ Fits(items[m][2], items[P(j)])
      BY <1>4, <3>2
    <3>4. m \in Nat /\ m < P(j) /\ m \in 1 .. c /\ NameAt(m)
      BY <1>1, <3>2, <3>3 DEF OwnedBy
    <3>5. ~ (m < P(i))
      <4> SUFFICES ASSUME m < P(i) PROVE FALSE
        OBVIOUS
      <4>1. P(i) \in m + 1 .. P(j) - 1
        BY <3>2, <3>4
      <4> QED BY <3>2, <3>3, <4>1 DEF OwnedBy
    <3>6. ~ (P(i) < m)
      <4> SUFFICES ASSUME P(i) < m PROVE FALSE
        OBVIOUS
      <4>1. PICK k \in W : P(k) = m
        BY <1>1, <3>4
      <4>2. read[k].item
        BY <1>5, <1>6, <3>4, <4>1
      <4>3. ~ (P(k) <= P(i)) /\ ~ (P(j) <= P(k))
        BY <3>2, <3>4, <4>1
      <4>4. ~ (k <= i) /\ ~ (j <= k) /\ k \in 1 .. Len(read)
        BY <1>1, <4>3
      <4>5. k \in i + 1 .. j
        BY <1>2, <2>1, <4>4
      <4> QED BY <2>3, <4>2, <4>5
    <3>7. m = P(i)
      BY <3>2, <3>4, <3>5, <3>6
    <3>8. items[m][2] = read[i].value /\ items[P(j)] = <<read[j].key, read[j].value>>
      <4>1. /\ items[P(i)] = <<read[i].key, read[i].value>>
            /\ items[P(j)] = <<read[j].key, read[j].value>>
        BY <1>1
      <4> QED BY <3>7, <4>1
    <3> QED BY <3>3, <3>8
  <2> QED BY <2>4, <2>5
<1>8. ASSUME NEW n \in DOMAIN Listeners
      PROVE  \E i \in W :
               /\ read[i].key = "name" /\ read[i].value = n
               /\ \A j \in W : read[j].key = "name" /\ read[j].value = n => j = i
  <2>1. PICK p \in 1 .. c : items[p] = <<"name", n>>
    BY <1>4 DEF Pairs
  <2>2. PICK i \in W : P(i) = p /\ items[p] = <<read[i].key, read[i].value>>
    BY <1>1
  <2>3. read[i].key = "name" /\ read[i].value = n
    BY <2>1, <2>2
  <2>4. ASSUME NEW j \in W, read[j].key = "name", read[j].value = n PROVE j = i
    <3>1. /\ P(j) \in 1 .. c /\ P(i) \in 1 .. c /\ items[P(j)] = items[P(i)]
          /\ NameAt(P(i)) /\ NameAt(P(j))
      <4>1. /\ P(j) \in 1 .. c /\ items[P(j)] = <<read[j].key, read[j].value>>
            /\ P(i) \in 1 .. c /\ items[P(i)] = <<read[i].key, read[i].value>>
        BY <1>1
      <4>2. NameAt(P(i)) /\ NameAt(P(j))
        BY <1>5, <2>3, <2>4
      <4> QED BY <2>3, <2>4, <4>1, <4>2
    <3>2. \A m \in 1 .. P(j) - 1 : items[m] # items[P(j)]
      BY <1>4, <3>1
    <3>3. \A m \in 1 .. P(i) - 1 : items[m] # items[P(i)]
      BY <1>4, <3>1
    <3>4. P(i) \notin 1 .. P(j) - 1 /\ P(j) \notin 1 .. P(i) - 1
      BY <3>1, <3>2, <3>3
    <3>5. P(i) = P(j)
      BY <1>1, <3>1, <3>4
    <3>6. i <= j /\ j <= i /\ i \in Int /\ j \in Int
      <4>1. P(i) <= P(j) /\ P(j) <= P(i)
        BY <3>1, <3>5
      <4>2. i \in 1 .. Len(read) /\ j \in 1 .. Len(read)
        BY <1>1
      <4> QED BY <1>1, <4>1, <4>2
    <3> QED BY <3>6
  <2> QED BY <2>3, <2>4
<1>9. Pinned
  BY <1>7 DEF Pinned
<1> QED BY <1>8, <1>9

-----------------------------------------------------------------------------
\* For any lines and scalars before them: what Parse hands on is the document
\* as it is written, user passwords are placeholders under every heading, and
\* where items begin with their names the fixed listeners are all there, once,
\* with their fixed values.
THEOREM DocumentsAreRead == Spec => []AcceptedIsAsWritten
<1>1. DocInv => TypeOK
  <2> SUFFICES ASSUME DocInv PROVE TypeOK
    OBVIOUS
  <2>1. DocTypes
    BY DEF DocInv
  <2>2. \A i \in 1 .. Len(read) : read[i] \in Lines
    <3>1. read \in Seq(Lines)
      BY <2>1 DEF DocTypes
    <3> QED BY <3>1
  <2> QED BY <2>1, <2>2 DEF DocTypes, TypeOK
<1>2. DocInv => AcceptedIsAsWritten
  BY <1>1, DocumentAsWritten, PasswordsArePlaceholders, ListenersAreFixed
     DEF AcceptedIsAsWritten
<1> QED BY <1>2, DocInvariance, PTL
=============================================================================
