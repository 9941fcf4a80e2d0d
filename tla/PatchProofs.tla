----------------------------- MODULE PatchProofs -----------------------------
(***************************************************************************)
(* PatchText implements AtomicPatch, for every text, every list of         *)
(* operations and every alphabet.  The heart of it is the loop of          *)
(* replace_all: it goes over the text it is changing, and the promise is a *)
(* scan of the text it has started with.  RoundInv ties the two: what is   *)
(* before the cursor, followed by the scan of what is left, is the scan of *)
(* the old text.  A round keeps it because the scan from a position on     *)
(* depends only on the text from there on (ScanSuffix), copies what no     *)
(* occurrence touches (ScanSkips) and does at an occurrence what the round *)
(* does (ScanStep).  What the recursive functions are at an argument comes *)
(* from the least argument at which it would fail.                         *)
(***************************************************************************)
EXTENDS PatchText, Integers, WellFoundedInduction, SequenceTheorems, TLAPS

-----------------------------------------------------------------------------
\* Every set of natural numbers with an element has a least one.
LEMMA LeastExists ==
  ASSUME NEW T \in SUBSET Nat, T # {}
  PROVE  \E x \in T : \A y \in T : x <= y
<1>1. PICK R : R = OpToRel(<, Nat)
  OBVIOUS
<1>2. \E x \in T : \A y \in T : <<y, x>> \notin R
  BY <1>1, NatLessThanWellFounded, WFMin
<1>3. \A x, y \in Nat : y < x => <<y, x>> \in R
  BY <1>1 DEF OpToRel
<1>4. \A x, y \in Nat : ~(y < x) => x <= y
  OBVIOUS
<1> QED
  BY <1>2, <1>3, <1>4

\* The least number of a set is one of its elements.
LEMMA LeastChosen ==
  ASSUME NEW T \in SUBSET Nat, T # {}
  PROVE  LET m == CHOOSE x \in T : \A y \in T : x <= y
         IN  m \in T /\ \A y \in T : m <= y
BY LeastExists

\* What the scan is at i, given what it is behind i.
ScanAt(t, n, r, g, i) ==
    IF i > Len(t) THEN [text |-> <<>>, matches |-> 0]
    ELSE IF i \in Atomic!Occurrences(t, n)
         THEN [text |-> r \o g[i + Len(n)].text, matches |-> 1 + g[i + Len(n)].matches]
    ELSE [text |-> <<t[i]>> \o g[i + 1].text, matches |-> g[i + 1].matches]

\* Such a scan exists: a text has no first position, from the end, without one.
LEMMA ScanExists ==
  ASSUME NEW t \in Seq(Letters), NEW n \in Seq(Letters), n # <<>>, NEW r
  PROVE  \E g : g = [i \in 1..Len(t) + 1 |-> ScanAt(t, n, r, g, i)]
<1> DEFINE L == Len(t)
           Upto(m) == \E g : g = [i \in L + 1 - m..L + 1 |-> ScanAt(t, n, r, g, i)]
           bad == {m \in 0..L : ~Upto(m)}
<1>0. L \in Nat /\ Len(n) \in Nat /\ Len(n) > 0
  BY EmptySeq, LenProperties
<1>1. Upto(0)
  <2> DEFINE g == [i \in L + 1..L + 1 |-> [text |-> <<>>, matches |-> 0]]
  <2>1. \A i \in L + 1..L + 1 : ScanAt(t, n, r, g, i) = [text |-> <<>>, matches |-> 0]
    BY <1>0 DEF ScanAt
  <2>2. g = [i \in L + 1..L + 1 |-> ScanAt(t, n, r, g, i)]
    BY <2>1
  <2>3. L + 1 - 0 = L + 1
    BY <1>0
  <2> QED
    BY <2>2, <2>3
<1>2. ASSUME NEW m \in 1..L, Upto(m - 1) PROVE Upto(m)
  <2>1. PICK g : g = [i \in L + 1 - (m - 1)..L + 1 |-> ScanAt(t, n, r, g, i)]
    BY <1>2
  <2> DEFINE s == L + 1 - m
             h == [i \in s..L + 1 |-> IF i = s THEN ScanAt(t, n, r, g, i) ELSE g[i]]
  <2>2. \A i \in s + 1..L + 1 : h[i] = g[i]
    BY <1>0
  <2>3. L + 1 - (m - 1) = s + 1
    BY <1>0
  <2>4. ASSUME NEW i \in s..L + 1 PROVE ScanAt(t, n, r, h, i) = ScanAt(t, n, r, g, i)
    <3>1. i \in Atomic!Occurrences(t, n) => i + Len(n) \in s + 1..L + 1
      BY <1>0 DEF Atomic!Occurrences
    <3>2. ~(i > L) => i + 1 \in s + 1..L + 1
      BY <1>0
    <3> HIDE DEF h, s
    <3> QED
      BY <2>2, <3>1, <3>2 DEF ScanAt
  <2>5. ASSUME NEW i \in s..L + 1 PROVE h[i] = ScanAt(t, n, r, h, i)
    <3>1. CASE i = s
      BY <2>4, <3>1
    <3>2. CASE i # s
      <4>1. i \in s + 1..L + 1
        BY <1>0, <3>2
      <4>2. g[i] = ScanAt(t, n, r, g, i)
        BY <2>1, <2>3, <4>1
      <4> QED
        BY <2>2, <2>4, <4>1, <4>2
    <3> QED
      BY <3>1, <3>2
  <2>6. h = [i \in s..L + 1 |-> ScanAt(t, n, r, h, i)]
    BY <2>5
  <2> QED
    BY <2>6
<1>3. \A m \in 0..L : Upto(m)
  <2> SUFFICES ASSUME bad # {} PROVE FALSE
    OBVIOUS
  <2> HIDE DEF Upto
  <2>1. bad \in SUBSET Nat
    BY <1>0
  <2>2. PICK m \in bad : \A k \in bad : m <= k
    BY <2>1, LeastExists
  <2>3. m # 0
    BY <1>1, <2>2
  <2>4. m - 1 \in 0..L /\ m - 1 \notin bad /\ m \in 1..L
    BY <1>0, <2>1, <2>2, <2>3
  <2> QED
    BY <1>2, <2>2, <2>4
<1>4. Upto(L)
  BY <1>0, <1>3
<1>5. L + 1 - L = 1
  BY <1>0
<1> QED
  BY <1>4, <1>5

\* The recursive definition of the scan means what it says.
LEMMA ScanDef ==
  ASSUME NEW t \in Seq(Letters), NEW n \in Seq(Letters), n # <<>>, NEW r
  PROVE  LET g == Atomic!Scanned(t, n, r)
         IN  g = [i \in 1..Len(t) + 1 |-> ScanAt(t, n, r, g, i)]
<1>1. Atomic!Scanned(t, n, r) =
        CHOOSE g : g = [i \in 1..Len(t) + 1 |-> ScanAt(t, n, r, g, i)]
  BY DEF Atomic!Scanned, ScanAt
<1>2. \E g : g = [i \in 1..Len(t) + 1 |-> ScanAt(t, n, r, g, i)]
  BY ScanExists
<1> QED
  BY <1>1, <1>2, Zenon

\* The scan at a position, in each of its three cases.
LEMMA ScanStep ==
  ASSUME NEW t \in Seq(Letters), NEW n \in Seq(Letters), n # <<>>, NEW r,
         NEW i \in 1..Len(t) + 1
  PROVE  Atomic!Scanned(t, n, r)[i] = ScanAt(t, n, r, Atomic!Scanned(t, n, r), i)
<1> DEFINE g == Atomic!Scanned(t, n, r)
<1>1. g = [j \in 1..Len(t) + 1 |-> ScanAt(t, n, r, g, j)]
  BY ScanDef
<1> HIDE DEF g
<1>2. g[i] = ScanAt(t, n, r, g, i)
  BY <1>1
<1> QED
  BY <1>2 DEF g

\* Three texts after one another, in the form the scans need.
LEMMA Associative ==
  ASSUME NEW a \in Seq(Letters), NEW b \in Seq(Letters), NEW z \in Seq(Letters)
  PROVE  a \o (b \o z) = (a \o b) \o z
BY ConcatAssociative, SMTT(30)

Scan == [text : Seq(Letters), matches : Nat]

\* The scan is a text and a number at every position.
LEMMA ScanTypes ==
  ASSUME NEW t \in Seq(Letters), NEW n \in Seq(Letters), n # <<>>, NEW r \in Seq(Letters),
         NEW i \in 1..Len(t) + 1
  PROVE  Atomic!Scanned(t, n, r)[i] \in Scan
<1> DEFINE L == Len(t)
           g == Atomic!Scanned(t, n, r)
           bad == {m \in 0..L : g[L + 1 - m] \notin Scan}
<1>0. L \in Nat /\ Len(n) \in Nat /\ Len(n) > 0
  BY EmptySeq, LenProperties
<1>1. ASSUME NEW m \in bad, \A k \in bad : m <= k PROVE FALSE
  <2> DEFINE j == L + 1 - m
  <2>1. j \in 1..L + 1 /\ g[j] = ScanAt(t, n, r, g, j)
    BY <1>0, ScanStep
  <2>2. ASSUME NEW k \in j + 1..L + 1 PROVE g[k] \in Scan
    <3>1. L + 1 - k \in 0..L /\ L + 1 - k < m /\ L + 1 - (L + 1 - k) = k
      BY <1>0, <2>1
    <3> HIDE DEF g, L
    <3> QED
      BY <1>1, <3>1
  <2>3. ASSUME j > L PROVE g[j] \in Scan
    <3>1. g[j] = [text |-> <<>>, matches |-> 0]
      BY <2>1, <2>3 DEF ScanAt
    <3>2. <<>> \in Seq(Letters)
      BY EmptySeq
    <3> HIDE DEF g, j
    <3> QED
      BY <3>1, <3>2 DEF Scan
  <2>4. ASSUME ~(j > L), j \in Atomic!Occurrences(t, n) PROVE g[j] \in Scan
    <3> DEFINE k == j + Len(n)
    <3>1. k \in j + 1..L + 1
      BY <1>0, <2>1, <2>4 DEF Atomic!Occurrences
    <3>2. g[j] = [text |-> r \o g[k].text, matches |-> 1 + g[k].matches]
      BY <2>1, <2>4 DEF ScanAt
    <3>3. g[k].text \in Seq(Letters) /\ g[k].matches \in Nat
      BY <2>2, <3>1 DEF Scan
    <3>4. r \o g[k].text \in Seq(Letters) /\ 1 + g[k].matches \in Nat
      BY <3>3, ConcatProperties
    <3> HIDE DEF g, k, j
    <3> QED
      BY <3>2, <3>4 DEF Scan
  <2>5. ASSUME ~(j > L), j \notin Atomic!Occurrences(t, n) PROVE g[j] \in Scan
    <3> DEFINE k == j + 1
    <3>1. k \in j + 1..L + 1
      BY <1>0, <2>1, <2>5
    <3>2. g[j] = [text |-> <<t[j]>> \o g[k].text, matches |-> g[k].matches]
      BY <2>1, <2>5 DEF ScanAt
    <3>3. g[k].text \in Seq(Letters) /\ g[k].matches \in Nat
      BY <2>2, <3>1 DEF Scan
    <3>4. <<t[j]>> \in Seq(Letters)
      BY <1>0, <2>1, <2>5, ElementOfSeq
    <3>5. <<t[j]>> \o g[k].text \in Seq(Letters)
      BY <3>3, <3>4, ConcatProperties
    <3> HIDE DEF g, k, j
    <3> QED
      BY <3>2, <3>3, <3>5 DEF Scan
  <2> QED
    BY <2>3, <2>4, <2>5
<1>2. bad = {}
  <2> SUFFICES ASSUME bad # {} PROVE FALSE
    OBVIOUS
  <2>1. bad \in SUBSET Nat
    BY <1>0
  <2> HIDE DEF bad
  <2>2. PICK m \in bad : \A k \in bad : m <= k
    BY <2>1, LeastExists
  <2> QED
    BY <1>1, <2>2
<1>3. L + 1 - i \in 0..L /\ L + 1 - (L + 1 - i) = i
  BY <1>0
<1> QED
  BY <1>2, <1>3

\* Where nothing occurs the scan copies.
Free(t, n, i, k) == \A j \in i..k - 1 : j \notin Atomic!Occurrences(t, n)

\* The scan of replace passes places where no match begins unchanged.
LEMMA ScanSkips ==
  ASSUME NEW t \in Seq(Letters), NEW n \in Seq(Letters), n # <<>>, NEW r \in Seq(Letters),
         NEW k \in 1..Len(t) + 1, NEW i \in 1..k,
         Free(t, n, i, k)
  PROVE  LET g == Atomic!Scanned(t, n, r)
         IN  g[i] = [text |-> SubSeq(t, i, k - 1) \o g[k].text, matches |-> g[k].matches]
<1> DEFINE g == Atomic!Scanned(t, n, r)
           Copied(j) == g[j] = [text |-> SubSeq(t, j, k - 1) \o g[k].text,
                                matches |-> g[k].matches]
           bad == {d \in 0..k - i : ~Copied(k - d)}
<1>0. Len(t) \in Nat /\ k \in Nat /\ i \in Nat
  BY LenProperties
<1>1. /\ g[k].text \in Seq(Letters) /\ g[k].matches \in Nat
      /\ DOMAIN g[k] = {"text", "matches"}
      /\ g[k] = [text |-> g[k].text, matches |-> g[k].matches]
  <2>1. g[k] \in Scan
    BY ScanTypes
  <2> HIDE DEF g
  <2> QED
    BY <2>1 DEF Scan
<1>2. ASSUME NEW d \in bad, \A e \in bad : d <= e PROVE FALSE
  <2> DEFINE j == k - d
  <2>1. j \in i..k /\ ~Copied(j)
    BY <1>0
  <2>2. CASE d = 0
    <3>1. SubSeq(t, k, k - 1) = <<>>
      BY <1>0, SubSeqEmpty
    <3>2. <<>> \o g[k].text = g[k].text
      BY <1>1, ConcatEmptySeq
    <3>3. Copied(k)
      BY <1>1, <3>1, <3>2
    <3>4. j = k
      BY <1>0, <2>2
    <3> HIDE DEF Copied, j
    <3> QED
      BY <2>1, <3>3, <3>4
  <2>3. CASE d # 0
    <3>1. d - 1 \in 0..k - i /\ k - (d - 1) = j + 1 /\ ~(d <= d - 1)
      <4>1. d \in 1..k - i
        BY <1>0, <2>3
      <4> HIDE DEF bad
      <4> QED
        BY <1>0, <4>1
    <3>2. Copied(j + 1)
      <4>1. d - 1 \notin bad
        <5> HIDE DEF bad
        <5> QED
          BY <1>2, <3>1
      <4> HIDE DEF Copied, j
      <4> QED
        BY <3>1, <4>1
    <3>3. j \in 1..Len(t) /\ j \in i..k - 1
      BY <1>0, <2>1, <2>3, SMTT(30)
    <3>4. g[j] = [text |-> <<t[j]>> \o g[j + 1].text, matches |-> g[j + 1].matches]
      <4>1. g[j] = ScanAt(t, n, r, g, j)
        BY <1>0, <3>3, ScanStep
      <4>2. ~(j > Len(t)) /\ j \notin Atomic!Occurrences(t, n)
        BY <1>0, <3>3 DEF Free
      <4> HIDE DEF g, j
      <4> QED
        BY <4>1, <4>2 DEF ScanAt
    <3> DEFINE a == <<t[j]>>
               b == SubSeq(t, j + 1, k - 1)
               z == g[k].text
    <3>5. a \in Seq(Letters) /\ b \in Seq(Letters) /\ z \in Seq(Letters)
      <4>1. t[j] \in Letters
        BY <3>3, ElementOfSeq
      <4>2. \A x \in j + 1..k - 1 : t[x] \in Letters
        BY <1>0, <3>3, ElementOfSeq, SMTT(30)
      <4>3. b \in Seq(Letters)
        BY <1>0, <3>3, <4>2, SubSeqProperties
      <4> QED
        BY <1>1, <4>1, <4>3
    <3>6. SubSeq(t, j, k - 1) = a \o b
      BY <1>0, <3>3, SubSeqRecursiveFirst
    <3>7. a \o (b \o z) = (a \o b) \o z
      <4> HIDE DEF a, b, z, g, j
      <4> QED
        BY <3>5, Associative, SMTT(60)
    <3>8. g[j + 1].text = b \o z /\ g[j + 1].matches = g[k].matches
      <4>1. g[j + 1] = [text |-> b \o z, matches |-> g[k].matches]
        BY <3>2
      <4> HIDE DEF g, j, a, b, z
      <4> QED
        BY <4>1
    <3>9. Copied(j)
      <4> HIDE DEF g, j, a, b, z
      <4>1. g[j] = [text |-> SubSeq(t, j, k - 1) \o z, matches |-> g[k].matches]
        <5> DEFINE A == <<t[j]>> \o g[j + 1].text
        <5>1. A = SubSeq(t, j, k - 1) \o z
          BY <3>6, <3>7, <3>8 DEF a
        <5> QED
          BY <3>4, <3>8, <5>1
      <4> QED
        BY <4>1 DEF z
    <3> QED
      BY <2>1, <3>9
  <2> QED
    BY <2>2, <2>3
<1>3. bad = {}
  <2> SUFFICES ASSUME bad # {} PROVE FALSE
    OBVIOUS
  <2>1. bad \in SUBSET Nat
    BY <1>0
  <2> HIDE DEF bad
  <2>2. PICK m \in bad : \A e \in bad : m <= e
    BY <2>1, LeastExists
  <2> QED
    BY <1>2, <2>2
<1>4. k - i \in 0..k - i /\ k - (k - i) = i
  BY <1>0
<1>5. Copied(i)
  <2> HIDE DEF Copied
  <2> QED
    BY <1>3, <1>4
<1> QED
  BY <1>5

-----------------------------------------------------------------------------
\* What k operations have made, given what those before made.
ProgressAt(t, os, g, k) ==
    IF k = 0 THEN [text |-> t, outcome |-> "ok", matches |-> <<>>]
    ELSE IF g[k - 1].outcome # "ok" THEN g[k - 1]
    ELSE IF Atomic!Outcome(os[k], g[k - 1].text) # "ok"
         THEN [g[k - 1] EXCEPT !.outcome = Atomic!Outcome(os[k], g[k - 1].text)]
    ELSE [text |-> Atomic!Edit(os[k], g[k - 1].text).text, outcome |-> "ok",
          matches |-> Append(g[k - 1].matches, Atomic!Edit(os[k], g[k - 1].text).matches)]

\* Such a progress exists.
LEMMA ProgressExists ==
  ASSUME NEW t, NEW os, Len(os) \in Nat
  PROVE  \E g : g = [k \in 0..Len(os) |-> ProgressAt(t, os, g, k)]
<1> DEFINE Upto(m) == \E g : g = [k \in 0..m |-> ProgressAt(t, os, g, k)]
           bad == {m \in 0..Len(os) : ~Upto(m)}
<1>1. Upto(0)
  <2> DEFINE g == [k \in 0..0 |-> [text |-> t, outcome |-> "ok", matches |-> <<>>]]
  <2>1. g = [k \in 0..0 |-> ProgressAt(t, os, g, k)]
    BY DEF ProgressAt
  <2> QED
    BY <2>1
<1>2. ASSUME NEW m \in 1..Len(os), Upto(m - 1) PROVE Upto(m)
  <2>1. PICK g : g = [k \in 0..m - 1 |-> ProgressAt(t, os, g, k)]
    BY <1>2
  <2> DEFINE h == [k \in 0..m |-> IF k = m THEN ProgressAt(t, os, g, k) ELSE g[k]]
  <2>2. \A k \in 0..m - 1 : h[k] = g[k]
    OBVIOUS
  <2>3. ASSUME NEW k \in 0..m PROVE ProgressAt(t, os, h, k) = ProgressAt(t, os, g, k)
    <3>1. k # 0 => k - 1 \in 0..m - 1
      OBVIOUS
    <3> HIDE DEF h
    <3> QED
      BY <2>2, <3>1 DEF ProgressAt
  <2>4. ASSUME NEW k \in 0..m PROVE h[k] = ProgressAt(t, os, h, k)
    <3>1. CASE k = m
      BY <2>3, <3>1
    <3>2. CASE k # m
      <4>1. k \in 0..m - 1
        BY <3>2
      <4>2. g[k] = ProgressAt(t, os, g, k)
        BY <2>1, <4>1
      <4> QED
        BY <2>2, <2>3, <4>1, <4>2
    <3> QED
      BY <3>1, <3>2
  <2>5. h = [k \in 0..m |-> ProgressAt(t, os, h, k)]
    BY <2>4
  <2> QED
    BY <2>5
<1>3. \A m \in 0..Len(os) : Upto(m)
  <2> SUFFICES ASSUME bad # {} PROVE FALSE
    OBVIOUS
  <2> HIDE DEF Upto
  <2>1. bad \in SUBSET Nat
    OBVIOUS
  <2>2. PICK m \in bad : \A k \in bad : m <= k
    BY <2>1, LeastExists
  <2>3. m # 0
    BY <1>1, <2>2
  <2>4. m - 1 \in 0..Len(os) /\ m - 1 \notin bad /\ m \in 1..Len(os)
    BY <2>1, <2>2, <2>3
  <2> QED
    BY <1>2, <2>2, <2>4
<1> QED
  BY <1>3

\* What the operations make, one after the other.
LEMMA ProgressStep ==
  ASSUME NEW t, NEW os, Len(os) \in Nat, NEW k \in 0..Len(os)
  PROVE  Atomic!Progress(t, os)[k] = ProgressAt(t, os, Atomic!Progress(t, os), k)
<1> DEFINE g == Atomic!Progress(t, os)
<1>1. g = CHOOSE f : f = [j \in 0..Len(os) |-> ProgressAt(t, os, f, j)]
  BY DEF Atomic!Progress, ProgressAt
<1>2. \E f : f = [j \in 0..Len(os) |-> ProgressAt(t, os, f, j)]
  BY ProgressExists
<1>3. g = [j \in 0..Len(os) |-> ProgressAt(t, os, g, j)]
  BY <1>1, <1>2, Zenon
<1> HIDE DEF g
<1>4. g[k] = ProgressAt(t, os, g, k)
  BY <1>3
<1> QED
  BY <1>4 DEF g

\* After an operation that fails nothing changes.
LEMMA ProgressStops ==
  ASSUME NEW t, NEW os, Len(os) \in Nat, NEW k \in 0..Len(os),
         Atomic!Progress(t, os)[k].outcome # "ok"
  PROVE  Atomic!Progress(t, os)[Len(os)] = Atomic!Progress(t, os)[k]
<1> DEFINE g == Atomic!Progress(t, os)
           bad == {m \in k..Len(os) : g[m] # g[k]}
<1>1. bad = {}
  <2> SUFFICES ASSUME bad # {} PROVE FALSE
    OBVIOUS
  <2>1. bad \in SUBSET Nat
    OBVIOUS
  <2>2. PICK m \in bad : \A j \in bad : m <= j
    <3> HIDE DEF bad
    <3> QED
      BY <2>1, LeastExists
  <2>3. m # k /\ m - 1 \in k..Len(os) /\ ~(m <= m - 1)
    BY <2>2
  <2>4. g[m - 1] = g[k]
    <3>1. m - 1 \notin bad
      <4> HIDE DEF bad
      <4> QED
        BY <2>2, <2>3
    <3> QED
      BY <2>3, <3>1
  <2>5. g[m] = ProgressAt(t, os, g, m)
    BY <2>2, ProgressStep
  <2>6. g[m] = g[m - 1]
    <3>1. m # 0
      BY <2>3
    <3> HIDE DEF g
    <3> QED
      BY <2>4, <2>5, <3>1 DEF ProgressAt, g
  <2> QED
    BY <2>2, <2>4, <2>6
<1> HIDE DEF g
<1>2. Len(os) \in k..Len(os)
  OBVIOUS
<1>3. g[Len(os)] = g[k]
  BY <1>1, <1>2
<1> QED
  BY <1>3 DEF g

-----------------------------------------------------------------------------
\* What find returns.
LEMMA FindFinds ==
  ASSUME NEW t \in Seq(Letters), NEW n \in Seq(Letters), NEW from \in 1..Len(t) + 1
  PROVE  LET at == Find(t, n, from)
             Occ == Atomic!Occurrences(t, n)
         IN  \/ at = NotFound /\ \A j \in Occ : j < from
             \/ /\ at # NotFound /\ at \in Occ /\ from <= at
                /\ \A j \in Occ : from <= j => at <= j
<1> DEFINE S == {i \in from..Len(t) + 1 - Len(n) : SubSeq(t, i, i + Len(n) - 1) = n}
           Occ == Atomic!Occurrences(t, n)
<1>0. Len(t) \in Nat /\ Len(n) \in Nat
  BY LenProperties
<1>1. \A j : j \in S <=> j \in Occ /\ from <= j
  BY <1>0 DEF Atomic!Occurrences
<1>2. S \in SUBSET Nat /\ NotFound \notin S
  BY <1>0 DEF NotFound
<1>3. Len(n) > Len(t) => S = {}
  BY <1>0
<1>4. \A j \in Occ : j \in Nat
  BY <1>0 DEF Atomic!Occurrences
<1>5. Find(t, n, from) = IF Len(n) > Len(t) \/ S = {} THEN NotFound
                         ELSE CHOOSE i \in S : \A j \in S : i <= j
  BY DEF Find
<1>6. CASE S = {}
  BY <1>1, <1>4, <1>5, <1>6
<1>7. CASE S # {}
  <2> HIDE DEF S, Occ
  <2> DEFINE at == Find(t, n, from)
  <2>1. at = CHOOSE i \in S : \A j \in S : i <= j
    BY <1>3, <1>5, <1>7
  <2>2. at \in S /\ \A j \in S : at <= j
    BY <1>2, <1>7, <2>1, LeastChosen
  <2> QED
    BY <1>1, <1>2, <2>2 DEF Occ
<1> QED
  BY <1>6, <1>7

\* A part of a text.
LEMMA Subtext ==
  ASSUME NEW t \in Seq(Letters), NEW a \in Nat \ {0}, NEW b \in Nat, b <= Len(t)
  PROVE  /\ SubSeq(t, a, b) \in Seq(Letters)
         /\ Len(SubSeq(t, a, b)) = IF a <= b THEN b - a + 1 ELSE 0
         /\ \A i \in 1..b - a + 1 : SubSeq(t, a, b)[i] = t[a + i - 1]
<1>1. Len(t) \in Nat
  BY LenProperties
<1>2. \A i \in a..b : t[i] \in Letters
  BY <1>1, ElementOfSeq
<1> QED
  BY <1>2, SubSeqProperties

\* Two texts after one another.
LEMMA Joins ==
  ASSUME NEW a \in Seq(Letters), NEW b \in Seq(Letters)
  PROVE  /\ a \o b \in Seq(Letters)
         /\ Len(a \o b) = Len(a) + Len(b)
         /\ \A z \in 1..Len(a) : (a \o b)[z] = a[z]
         /\ \A z \in 1..Len(b) : (a \o b)[Len(a) + z] = b[z]
<1>0. Len(a) \in Nat /\ Len(b) \in Nat
  BY LenProperties
<1>1. a \o b \in Seq(Letters) /\ Len(a \o b) = Len(a) + Len(b)
  BY ConcatProperties
<1>2. \A i \in 1..Len(a) + Len(b) :
         (a \o b)[i] = IF i <= Len(a) THEN a[i] ELSE b[i - Len(a)]
  BY ConcatProperties
<1>3. ASSUME NEW z \in 1..Len(a) PROVE (a \o b)[z] = a[z]
  BY <1>0, <1>2
<1>4. ASSUME NEW z \in 1..Len(b) PROVE (a \o b)[Len(a) + z] = b[z]
  <2>1. /\ Len(a) + z \in 1..Len(a) + Len(b)
        /\ ~(Len(a) + z <= Len(a)) /\ Len(a) + z - Len(a) = z
    BY <1>0
  <2> QED
    BY <1>2, <2>1
<1> QED
  BY <1>1, <1>3, <1>4

\* An edit in place keeps what is before it and what is behind it.
LEMMA Replaces ==
  ASSUME NEW t \in Seq(Letters), NEW r \in Seq(Letters), NEW at \in 1..Len(t) + 1,
         NEW n \in Nat, at + n <= Len(t) + 1
  PROVE  LET u == Replace(t, at, n, r)
         IN  /\ u \in Seq(Letters)
             /\ Len(u) = Len(t) + Len(r) - n
             /\ SubSeq(u, 1, at + Len(r) - 1) = SubSeq(t, 1, at - 1) \o r
             /\ \A x \in 1..Len(t) + 1 - at - n :
                   u[Len(u) + 1 - x] = t[Len(t) + 1 - x]
<1> DEFINE a == SubSeq(t, 1, at - 1)
           b == SubSeq(t, at + n, Len(t))
           c == a \o r
           u == Replace(t, at, n, r)
<1>0. Len(t) \in Nat /\ Len(r) \in Nat
  BY LenProperties
<1>1. a \in Seq(Letters) /\ Len(a) = at - 1
  BY <1>0, Subtext
<1>2. /\ b \in Seq(Letters) /\ Len(b) = Len(t) + 1 - at - n
      /\ \A z \in 1..Len(t) - (at + n) + 1 : b[z] = t[at + n + z - 1]
  BY <1>0, Subtext
<1>3. u = c \o b
  BY DEF Replace
<1> HIDE DEF a, b, u
<1>4. c \in Seq(Letters) /\ Len(c) = at - 1 + Len(r)
  BY <1>0, <1>1, Joins
<1> HIDE DEF c
<1>5. /\ u \in Seq(Letters) /\ Len(u) = Len(c) + Len(b)
      /\ \A z \in 1..Len(c) : u[z] = c[z]
      /\ \A z \in 1..Len(b) : u[Len(c) + z] = b[z]
  BY <1>2, <1>3, <1>4, Joins
<1>6. SubSeq(u, 1, at + Len(r) - 1) = c
  <2> DEFINE v == SubSeq(u, 1, Len(c))
  <2>1. /\ v \in Seq(Letters) /\ Len(v) = Len(c)
        /\ \A z \in 1..Len(c) : v[z] = u[1 + z - 1]
    BY <1>0, <1>2, <1>4, <1>5, Subtext, SMTT(30)
  <2> HIDE DEF v
  <2>2. \A z \in 1..Len(c) : v[z] = c[z]
    BY <1>5, <2>1
  <2>3. v = c
    BY <1>4, <2>1, <2>2, SeqEqual
  <2>4. Len(c) = at + Len(r) - 1
    BY <1>0, <1>4
  <2> QED
    BY <2>3, <2>4 DEF v
<1>7. ASSUME NEW x \in 1..Len(t) + 1 - at - n
      PROVE  u[Len(u) + 1 - x] = t[Len(t) + 1 - x]
  <2>1. PICK y \in 1..Len(b) : y = Len(b) + 1 - x
    <3>1. Len(b) + 1 - x \in 1..Len(b)
      BY <1>0, <1>2
    <3> QED
      BY <3>1
  <2>2. Len(u) + 1 - x = Len(c) + y /\ at + n + y - 1 = Len(t) + 1 - x
    BY <1>0, <1>2, <1>4, <1>5, <2>1
  <2>3. u[Len(c) + y] = b[y]
    BY <1>5
  <2>4. y \in 1..Len(t) - (at + n) + 1
    BY <1>0, <1>2
  <2>5. b[y] = t[at + n + y - 1]
    BY <1>2, <2>4
  <2> QED
    BY <2>2, <2>3, <2>5
<1>8. Len(u) = Len(t) + Len(r) - n
  BY <1>0, <1>2, <1>4, <1>5
<1> QED
  BY <1>5, <1>6, <1>7, <1>8 DEF u, c, a

\* Where a needle occurs, letter by letter.
LEMMA Occurs ==
  ASSUME NEW t \in Seq(Letters), NEW n \in Seq(Letters), NEW i \in 1..Len(t) + 1
  PROVE  i \in Atomic!Occurrences(t, n) <=>
             /\ i + Len(n) <= Len(t) + 1
             /\ \A y \in 1..Len(n) : t[i + y - 1] = n[y]
<1>0. Len(t) \in Nat /\ Len(n) \in Nat
  BY LenProperties
<1>1. i \in Atomic!Occurrences(t, n) <=>
        i + Len(n) <= Len(t) + 1 /\ SubSeq(t, i, i + Len(n) - 1) = n
  BY <1>0 DEF Atomic!Occurrences
<1>2. ASSUME i + Len(n) <= Len(t) + 1
      PROVE  SubSeq(t, i, i + Len(n) - 1) = n <=> \A y \in 1..Len(n) : t[i + y - 1] = n[y]
  <2> DEFINE v == SubSeq(t, i, i + Len(n) - 1)
  <2>1. /\ v \in Seq(Letters) /\ Len(v) = Len(n)
        /\ \A y \in 1..i + Len(n) - 1 - i + 1 : v[y] = t[i + y - 1]
    BY <1>0, <1>2, Subtext
  <2>2. i + Len(n) - 1 - i + 1 = Len(n)
    BY <1>0
  <2> HIDE DEF v
  <2>3. v = n <=> \A y \in 1..Len(n) : v[y] = n[y]
    BY <2>1, SeqEqual
  <2>4. v = n <=> \A y \in 1..Len(n) : t[i + y - 1] = n[y]
    BY <2>1, <2>2, <2>3
  <2> QED
    BY <2>4 DEF v
<1> QED
  BY <1>1, <1>2

\* The scan from a position on depends on the text from there on only.
LEMMA ScanSuffix ==
  ASSUME NEW t \in Seq(Letters), NEW u \in Seq(Letters),
         NEW n \in Seq(Letters), n # <<>>, NEW r \in Seq(Letters),
         NEW m \in Nat, m <= Len(t), m <= Len(u),
         \A x \in 1..m : u[Len(u) + 1 - x] = t[Len(t) + 1 - x]
  PROVE  Atomic!Scanned(u, n, r)[Len(u) + 1 - m] = Atomic!Scanned(t, n, r)[Len(t) + 1 - m]
<1> DEFINE T == Len(t)
           U == Len(u)
           f == Atomic!Scanned(t, n, r)
           g == Atomic!Scanned(u, n, r)
           bad == {x \in 0..m : g[U + 1 - x] # f[T + 1 - x]}
<1>0. T \in Nat /\ U \in Nat /\ Len(n) \in Nat /\ Len(n) > 0
  BY EmptySeq, LenProperties
<1>1. ASSUME NEW x \in bad, \A z \in bad : x <= z PROVE FALSE
  <2> DEFINE i == T + 1 - x
             j == U + 1 - x
  <2>1. /\ i \in 1..T + 1 /\ f[i] = ScanAt(t, n, r, f, i)
        /\ j \in 1..U + 1 /\ g[j] = ScanAt(u, n, r, g, j)
    BY <1>0, ScanStep
  <2>2. ASSUME NEW d \in 1..x PROVE g[j + d] = f[i + d]
    <3>1. /\ x - d \in 0..m /\ ~(x <= x - d)
          /\ U + 1 - (x - d) = j + d /\ T + 1 - (x - d) = i + d
      BY <1>0
    <3>2. x - d \notin bad
      <4> HIDE DEF bad
      <4> QED
        BY <1>1, <3>1
    <3>3. g[U + 1 - (x - d)] = f[T + 1 - (x - d)]
      <4> HIDE DEF f, g, T, U
      <4> QED
        BY <3>1, <3>2
    <3> HIDE DEF f, g, i, j, T, U
    <3> QED
      BY <3>1, <3>3
  <2>3. (i > T <=> x = 0) /\ (j > U <=> x = 0)
    BY <1>0
  <2>4. i \in Atomic!Occurrences(t, n) <=> j \in Atomic!Occurrences(u, n)
    <3>1. i + Len(n) <= T + 1 <=> Len(n) <= x
      BY <1>0
    <3>2. j + Len(n) <= U + 1 <=> Len(n) <= x
      BY <1>0
    <3>3. ASSUME Len(n) <= x, NEW y \in 1..Len(n) PROVE u[j + y - 1] = t[i + y - 1]
      <4>1. /\ x + 1 - y \in 1..m
            /\ U + 1 - (x + 1 - y) = j + y - 1 /\ T + 1 - (x + 1 - y) = i + y - 1
        BY <1>0, <3>3
      <4> QED
        BY <4>1
    <3>4. i \in Atomic!Occurrences(t, n) <=>
            i + Len(n) <= T + 1 /\ \A y \in 1..Len(n) : t[i + y - 1] = n[y]
      BY <2>1, Occurs
    <3>5. j \in Atomic!Occurrences(u, n) <=>
            j + Len(n) <= U + 1 /\ \A y \in 1..Len(n) : u[j + y - 1] = n[y]
      BY <2>1, Occurs
    <3> HIDE DEF i, j, T, U
    <3> QED
      BY <3>1, <3>2, <3>3, <3>4, <3>5
  <2>5. i \in Atomic!Occurrences(t, n) => Len(n) \in 1..x
    BY <1>0 DEF Atomic!Occurrences
  <2>6. x # 0 => t[i] = u[j] /\ 1 \in 1..x
    BY <1>0
  <2>7. ScanAt(t, n, r, f, i) = ScanAt(u, n, r, g, j)
    <3>1. i \in Atomic!Occurrences(t, n) => g[j + Len(n)] = f[i + Len(n)]
      <4> HIDE DEF i, j, f, g
      <4> QED
        BY <2>2, <2>5
    <3>2. x # 0 => g[j + 1] = f[i + 1]
      BY <2>2, <2>6
    <3> HIDE DEF i, j, f, g
    <3> QED
      BY <2>3, <2>4, <2>6, <3>1, <3>2 DEF ScanAt
  <2>8. g[j] = f[i]
    <3> HIDE DEF i, j, f, g
    <3> QED
      BY <2>1, <2>7
  <2> QED
    BY <2>8
<1>2. bad = {}
  <2> SUFFICES ASSUME bad # {} PROVE FALSE
    OBVIOUS
  <2>1. bad \in SUBSET Nat
    OBVIOUS
  <2> HIDE DEF bad
  <2>2. PICK x \in bad : \A z \in bad : x <= z
    BY <2>1, LeastExists
  <2> QED
    BY <1>1, <2>2
<1>3. m \in 0..m
  OBVIOUS
<1> QED
  BY <1>2, <1>3

-----------------------------------------------------------------------------
\* What the operations before the current one make of the original.
Before == Atomic!Progress(original, ops)[index - 1]

\* The text in memory is what the operations that are done have made, and none of
\* them has failed.
ProgressInv ==
    result.is = "running" =>
        /\ result = [is |-> "running", matches |-> <<>>]
        /\ file = original
        /\ Before = [text |-> Before.text, outcome |-> "ok", matches |-> applied]
        /\ cursor = 0 => matches = 0 /\ Before.text = content

\* In the loop of replace_all: what is before the cursor, with the scan of what is
\* left, is the scan of the text the loop started with.
RoundInv ==
    Replacing =>
        /\ index <= Len(ops) /\ Operation.op \in {"replace", "delete"}
        /\ Operation.all /\ Operation.find # <<>>
        /\ LET ahead == Atomic!Scanned(content, Operation.find, Replacement)[cursor]
           IN  Atomic!Rewritten(Before.text, Operation.find, Replacement) =
                   [text |-> SubSeq(content, 1, cursor - 1) \o ahead.text,
                    matches |-> matches + ahead.matches]
        /\ matches = 0 => cursor = 1 /\ content = Before.text
        /\ matches # 0 => Atomic!Occurrences(Before.text, Operation.find) # {}

PatchInv == TypeOK /\ ProgressInv /\ RoundInv

\* The current operation is one.
LEMMA Lists ==
  ASSUME TypeOK
  PROVE  /\ Len(ops) \in Nat
         /\ index <= Len(ops) => IsOperation(Operation) /\ Replacement \in Seq(Letters)
<1>1. Len(ops) \in Nat /\ DOMAIN ops = 1..Len(ops)
      /\ \A i \in DOMAIN ops : IsOperation(ops[i])
  BY OperationAssumption DEF TypeOK
<1>2. ASSUME index <= Len(ops) PROVE IsOperation(Operation)
  BY <1>1, <1>2, SMTT(30) DEF TypeOK, Operation
<1>3. ASSUME index <= Len(ops) PROVE Replacement \in Seq(Letters)
  BY <1>2, <1>3, EmptySeq DEF IsOperation, Replacement
<1> QED
  BY <1>1, <1>2, <1>3

\* A match that is found can be replaced.
LEMMA Matched ==
  ASSUME NEW t \in Seq(Letters), NEW n \in Seq(Letters), NEW from \in 1..Len(t) + 1,
         Find(t, n, from) # NotFound
  PROVE  LET at == Find(t, n, from)
         IN  /\ at \in Atomic!Occurrences(t, n) /\ at \in 1..Len(t) + 1
             /\ from <= at /\ at + Len(n) <= Len(t) + 1
             /\ \A j \in Atomic!Occurrences(t, n) : from <= j => at <= j
<1> DEFINE at == Find(t, n, from)
<1>1. at \in Atomic!Occurrences(t, n) /\ from <= at
      /\ \A j \in Atomic!Occurrences(t, n) : from <= j => at <= j
  BY FindFinds
<1>2. at \in 1..Len(t) + 1 /\ at + Len(n) <= Len(t) + 1
  BY <1>1 DEF Atomic!Occurrences
<1> QED
  BY <1>1, <1>2

\* What NextOperation and Throw do to the types.
LEMMA NextTypes ==
  ASSUME TypeOK, cursor = 0, index <= Len(ops), NEW k \in Nat, NextOperation(k),
         UNCHANGED <<original, ops, file, cursor, result>>, content' \in Seq(Letters)
  PROVE  TypeOK'
<1>1. Len(ops) \in Nat /\ Len(content') \in Nat
  BY Lists, LenProperties
<1>2. applied' \in Seq(Nat)
  BY AppendProperties DEF NextOperation, TypeOK
<1>3. index' \in 1..Len(ops') + 1 /\ matches' \in Nat
  BY <1>1 DEF NextOperation, TypeOK
<1>4. cursor' \in 0..Len(content') + 1
  BY <1>1
<1> QED
  BY <1>2, <1>3, <1>4 DEF TypeOK

\* A failure keeps the types.
LEMMA ThrowTypes ==
  ASSUME TypeOK, NEW why \in Results, Throw(why)
  PROVE  TypeOK'
BY DEF TypeOK, Throw

\* Every action keeps the types.
LEMMA Typing ==
  ASSUME PatchInv, [Next]_vars
  PROVE  TypeOK'
<1> USE DEF PatchInv
<1>0. Len(ops) \in Nat /\ Len(content) \in Nat /\ 1 \in 1..Len(content) + 1
      /\ content \in Seq(Letters)
  BY Lists, LenProperties DEF TypeOK
<1>1. CASE replace_single
  <2>1. Operation.find \in Seq(Letters) /\ Operation.text \in Seq(Letters) /\ cursor = 0
        /\ index <= Len(ops)
    BY <1>1, Lists DEF replace_single, Applying, IsOperation
  <2>2. content' \in Seq(Letters)
    BY <1>0, <1>1, <2>1, Matched, Replaces, LenProperties DEF replace_single
  <2> QED
    BY <1>1, <2>1, <2>2, NextTypes DEF replace_single
<1>2. CASE delete_single
  <2>1. Operation.find \in Seq(Letters) /\ <<>> \in Seq(Letters) /\ cursor = 0
        /\ index <= Len(ops)
    BY <1>2, Lists, EmptySeq DEF delete_single, Applying, IsOperation
  <2>2. content' \in Seq(Letters)
    BY <1>0, <1>2, <2>1, Matched, Replaces, LenProperties DEF delete_single
  <2> QED
    BY <1>2, <2>1, <2>2, NextTypes DEF delete_single
<1>3. CASE insert_relative
  <2>1. Operation.find \in Seq(Letters) /\ Operation.text \in Seq(Letters) /\ cursor = 0
        /\ index <= Len(ops)
    BY <1>3, Lists DEF insert_relative, Applying, IsOperation
  <2> DEFINE at == Find(content, Operation.find, 1)
             spot == IF Operation.op = "insert_after" THEN at + Len(Operation.find) ELSE at
  <2>2. at # NotFound /\ content' = Replace(content, spot, 0, Operation.text)
    BY <1>3 DEF insert_relative
  <2>3. spot \in 1..Len(content) + 1 /\ spot + 0 <= Len(content) + 1
    BY <1>0, <2>1, <2>2, Matched, LenProperties
  <2> HIDE DEF spot
  <2>4. content' \in Seq(Letters)
    BY <1>0, <2>1, <2>2, <2>3, Replaces
  <2> QED
    BY <1>3, <2>1, <2>4, NextTypes DEF insert_relative
<1>4. CASE StartReplaceAll
  BY <1>0, <1>4 DEF StartReplaceAll, TypeOK
<1>5. CASE ReplaceNext
  <2>1. Operation.find \in Seq(Letters) /\ Replacement \in Seq(Letters)
        /\ cursor \in 1..Len(content) + 1
    BY <1>0, <1>5, Lists DEF ReplaceNext, Replacing, RoundInv, IsOperation, TypeOK
  <2> DEFINE at == Find(content, Operation.find, cursor)
             n == Len(Operation.find)
  <2>2. at # NotFound /\ content' = Replace(content, at, n, Replacement)
        /\ cursor' = at + Len(Replacement)
    BY <1>5 DEF ReplaceNext
  <2>3. at \in 1..Len(content) + 1 /\ at + n <= Len(content) + 1
    BY <1>0, <2>1, <2>2, Matched
  <2>4. n \in Nat /\ Len(Replacement) \in Nat
    BY <2>1, LenProperties
  <2> HIDE DEF at, n
  <2>5. content' \in Seq(Letters) /\ Len(content') = Len(content) + Len(Replacement) - n
    BY <1>0, <2>1, <2>2, <2>3, <2>4, Replaces
  <2>6. cursor' \in 0..Len(content') + 1
    BY <1>0, <2>2, <2>3, <2>4, <2>5
  <2>7. matches' \in Nat
    BY <1>5 DEF ReplaceNext, TypeOK
  <2> QED
    BY <1>5, <2>5, <2>6, <2>7 DEF ReplaceNext, TypeOK
<1>6. CASE EndReplaceAll
  <2>1. index <= Len(ops) /\ matches \in Nat
    BY <1>6 DEF EndReplaceAll, RoundInv, TypeOK
  <2>2. applied' \in Seq(Nat)
    BY <1>6, <2>1, AppendProperties DEF EndReplaceAll, NextOperation, TypeOK
  <2>3. index' \in 1..Len(ops') + 1 /\ matches' \in Nat /\ cursor' \in 0..Len(content') + 1
    BY <1>0, <1>6, <2>1 DEF EndReplaceAll, NextOperation, TypeOK
  <2> QED
    BY <1>6, <2>2, <2>3 DEF EndReplaceAll, TypeOK
<1>7. CASE NoMatch
  BY <1>7, ThrowTypes DEF NoMatch, Results
<1>8. CASE EmptyFind
  BY <1>8, ThrowTypes DEF EmptyFind, Results
<1>9. CASE Unsupported
  BY <1>9, ThrowTypes DEF Unsupported, Results
<1>10. CASE Write
  BY <1>10 DEF Write, TypeOK, Results
<1>11. CASE UNCHANGED vars
  BY <1>11 DEF vars, TypeOK
<1> QED
  BY <1>1, <1>2, <1>3, <1>4, <1>5, <1>6, <1>7, <1>8, <1>9, <1>10, <1>11 DEF Next

-----------------------------------------------------------------------------
\* The progress with the current operation, from the progress before it.
LEMMA Current ==
  ASSUME TypeOK, index <= Len(ops)
  PROVE  Atomic!Progress(original, ops)[index] =
            ProgressAt(original, ops, Atomic!Progress(original, ops), index)
         /\ index # 0 /\ index \in 0..Len(ops) /\ Len(ops) \in Nat
<1>1. Len(ops) \in Nat /\ index \in 0..Len(ops) /\ index # 0
  BY Lists DEF TypeOK
<1> QED
  BY <1>1, ProgressStep

\* An operation that finds its text.
LEMMA Succeeds ==
  ASSUME TypeOK, ProgressInv, result.is = "running", index <= Len(ops),
         Atomic!Outcome(Operation, Before.text) = "ok"
  PROVE  LET edit == Atomic!Edit(Operation, Before.text)
         IN  Atomic!Progress(original, ops)[index] =
                [text |-> edit.text, outcome |-> "ok",
                 matches |-> Append(applied, edit.matches)]
<1> DEFINE g == Atomic!Progress(original, ops)
<1>1. g[index] = ProgressAt(original, ops, g, index) /\ index # 0
  BY Current
<1>2. g[index - 1].outcome = "ok" /\ g[index - 1].matches = applied
  <2>1. Before = [text |-> Before.text, outcome |-> "ok", matches |-> applied]
    BY DEF ProgressInv
  <2>2. Before.outcome = "ok" /\ Before.matches = applied
    BY <2>1
  <2> QED
    BY <2>2 DEF Before
<1>3. Before = g[index - 1] /\ Operation = ops[index]
  BY DEF Before, Operation
<1> HIDE DEF g
<1>4. g[index] = [text |-> Atomic!Edit(Operation, Before.text).text, outcome |-> "ok",
                  matches |-> Append(applied, Atomic!Edit(Operation, Before.text).matches)]
  BY <1>1, <1>2, <1>3, Zenon DEF ProgressAt
<1> QED
  BY <1>4 DEF g

\* An operation that fails decides the outcome.
LEMMA Fails ==
  ASSUME TypeOK, ProgressInv, result.is = "running", index <= Len(ops),
         Atomic!Outcome(Operation, Before.text) # "ok"
  PROVE  Atomic!Progress(original, ops)[Len(ops)].outcome =
            Atomic!Outcome(Operation, Before.text)
<1> DEFINE g == Atomic!Progress(original, ops)
           why == Atomic!Outcome(Operation, Before.text)
<1>1. g[index] = ProgressAt(original, ops, g, index) /\ index # 0
      /\ index \in 0..Len(ops) /\ Len(ops) \in Nat
  BY Current
<1>2. Before = [text |-> Before.text, outcome |-> "ok", matches |-> applied]
  BY DEF ProgressInv
<1>3. Before = g[index - 1] /\ Operation = ops[index]
  BY DEF Before, Operation
<1> HIDE DEF g
<1>4. g[index] = [Before EXCEPT !.outcome = why]
  <2>1. g[index - 1].outcome = "ok"
    <3>1. Before.outcome = "ok"
      BY <1>2
    <3> QED
      BY <1>3, <3>1
  <2> QED
    BY <1>1, <1>3, <2>1, Zenon DEF ProgressAt
<1>5. g[index].outcome = why
  <2> HIDE DEF why
  <2> DEFINE b == Before
  <2>1. g[index] = [b EXCEPT !.outcome = why]
        /\ b = [text |-> b.text, outcome |-> "ok", matches |-> applied]
    BY <1>2, <1>4
  <2> HIDE DEF b
  <2> QED
    BY <2>1
<1>6. g[Len(ops)] = g[index]
  BY <1>1, <1>5, ProgressStops DEF g
<1> QED
  BY <1>5, <1>6 DEF g

\* The first occurrence is what find finds.
LEMMA First ==
  ASSUME NEW t \in Seq(Letters), NEW n \in Seq(Letters)
  PROVE  LET at == Find(t, n, 1)
         IN  /\ at = NotFound <=> Atomic!Occurrences(t, n) = {}
             /\ at # NotFound => Atomic!FirstOccurrence(t, n) = at
<1> DEFINE at == Find(t, n, 1)
           Occ == Atomic!Occurrences(t, n)
<1>0. Len(t) \in Nat /\ Len(n) \in Nat /\ 1 \in 1..Len(t) + 1
  BY LenProperties
<1>1. \A j \in Occ : j \in Nat /\ 1 <= j
  BY <1>0 DEF Atomic!Occurrences
<1>2. \/ at = NotFound /\ \A j \in Occ : j < 1
      \/ at # NotFound /\ at \in Occ /\ \A j \in Occ : 1 <= j => at <= j
  BY <1>0, FindFinds
<1> HIDE DEF at
<1>3. at = NotFound <=> Occ = {}
  <2> HIDE DEF Occ
  <2> QED
    BY <1>1, <1>2
<1>4. ASSUME at # NotFound PROVE Atomic!FirstOccurrence(t, n) = at
  <2> DEFINE f == Atomic!FirstOccurrence(t, n)
  <2>1. f = CHOOSE i \in Occ : \A j \in Occ : i <= j
    BY DEF Atomic!FirstOccurrence
  <2>2. at \in Occ /\ \A j \in Occ : at <= j
    BY <1>1, <1>2, <1>4
  <2> HIDE DEF f, Occ
  <2>3. f \in Occ /\ \A j \in Occ : f <= j
    BY <2>1, <2>2
  <2>4. f <= at /\ at <= f /\ f \in Nat /\ at \in Nat
    BY <1>1, <2>2, <2>3
  <2> QED
    BY <2>4 DEF f
<1> QED
  BY <1>3, <1>4 DEF at

\* An operation that is done as it is defined.
LEMMA EditDone ==
  ASSUME PatchInv, result.is = "running", index <= Len(ops), cursor' = 0,
         NEW k, NextOperation(k), UNCHANGED <<original, ops, file, result>>,
         Atomic!Outcome(Operation, Before.text) = "ok",
         Atomic!Edit(Operation, Before.text) = [text |-> content', matches |-> k]
  PROVE  ProgressInv' /\ RoundInv'
<1>1. TypeOK /\ ProgressInv
  BY DEF PatchInv
<1> DEFINE g == Atomic!Progress(original, ops)
           edit == Atomic!Edit(Operation, Before.text)
<1>2. g[index] = [text |-> edit.text, outcome |-> "ok",
                  matches |-> Append(applied, edit.matches)]
  BY <1>1, Succeeds
<1>3. edit.text = content' /\ edit.matches = k
  <2>1. edit = [text |-> content', matches |-> k]
    OBVIOUS
  <2> HIDE DEF edit
  <2> QED
    BY <2>1
<1> HIDE DEF g, edit
<1>4. g[index] = [text |-> content', outcome |-> "ok", matches |-> applied']
  BY <1>2, <1>3 DEF NextOperation
<1>5. index' - 1 = index
  BY <1>1 DEF NextOperation, TypeOK
<1>6. Before' = g[index]
  BY <1>5 DEF Before, g
<1>7. ProgressInv'
  <2>1. Before' = [text |-> Before.text', outcome |-> "ok", matches |-> applied']
        /\ Before.text' = content'
    BY <1>4, <1>6
  <2>2. matches' = 0 /\ result' = result /\ file' = file /\ original' = original
        /\ result = [is |-> "running", matches |-> <<>>] /\ file = original
    BY <1>1 DEF NextOperation, ProgressInv
  <2> QED
    BY <2>1, <2>2 DEF ProgressInv
<1>8. RoundInv'
  BY DEF RoundInv, Replacing
<1> QED
  BY <1>7, <1>8

\* An operation on its first match.
LEMMA OneEdit ==
  ASSUME PatchInv, result.is = "running", cursor = 0, index <= Len(ops),
         NextOperation(1), UNCHANGED <<original, ops, file, cursor, result>>,
         Atomic!Outcome(Operation, content) = "ok",
         Atomic!Edit(Operation, content) = [text |-> content', matches |-> 1]
  PROVE  ProgressInv' /\ RoundInv'
<1>1. Before.text = content
  BY DEF PatchInv, ProgressInv
<1> QED
  BY <1>1, EditDone

\* A single replacement is a whole round of the abstract specification.
LEMMA ReplaceSingleStep ==
  ASSUME PatchInv, replace_single
  PROVE  ProgressInv' /\ RoundInv'
<1>1. /\ result.is = "running" /\ cursor = 0 /\ index <= Len(ops)
      /\ Operation.op = "replace" /\ ~Operation.all
      /\ NextOperation(1) /\ UNCHANGED <<original, ops, file, cursor, result>>
  BY DEF replace_single, Applying
<1>2. content \in Seq(Letters) /\ Operation.find \in Seq(Letters)
  BY <1>1, Lists DEF PatchInv, TypeOK, IsOperation
<1> DEFINE at == Find(content, Operation.find, 1)
<1>3. at # NotFound /\ content' = Replace(content, at, Len(Operation.find), Operation.text)
  BY DEF replace_single
<1>4. Atomic!Occurrences(content, Operation.find) # {}
      /\ Atomic!FirstOccurrence(content, Operation.find) = at
  BY <1>2, <1>3, First
<1> HIDE DEF at
<1>5. Atomic!Outcome(Operation, content) = "ok"
  BY <1>1, <1>4 DEF Atomic!Outcome, Atomic!Kinds
<1>6. Atomic!Put(Operation) = Operation.text /\ ~Atomic!Everywhere(Operation)
  BY <1>1 DEF Atomic!Put, Atomic!Everywhere
<1>7. Atomic!Spliced(content, Operation.find, Operation.text) = content'
  BY <1>3, <1>4 DEF Atomic!Spliced, Replace
<1>8. Atomic!Edit(Operation, content) = [text |-> content', matches |-> 1]
  BY <1>6, <1>7, Zenon DEF Atomic!Edit
<1> QED
  BY <1>1, <1>5, <1>8, OneEdit

\* A single deletion is a whole round of the abstract specification.
LEMMA DeleteSingleStep ==
  ASSUME PatchInv, delete_single
  PROVE  ProgressInv' /\ RoundInv'
<1>1. /\ result.is = "running" /\ cursor = 0 /\ index <= Len(ops)
      /\ Operation.op = "delete" /\ ~Operation.all /\ Operation.find # <<>>
      /\ NextOperation(1) /\ UNCHANGED <<original, ops, file, cursor, result>>
  BY DEF delete_single, Applying
<1>2. content \in Seq(Letters) /\ Operation.find \in Seq(Letters)
  BY <1>1, Lists DEF PatchInv, TypeOK, IsOperation
<1> DEFINE at == Find(content, Operation.find, 1)
<1>3. at # NotFound /\ content' = Replace(content, at, Len(Operation.find), <<>>)
  BY DEF delete_single
<1>4. Atomic!Occurrences(content, Operation.find) # {}
      /\ Atomic!FirstOccurrence(content, Operation.find) = at
  BY <1>2, <1>3, First
<1> HIDE DEF at
<1>5. Atomic!Outcome(Operation, content) = "ok"
  BY <1>1, <1>4 DEF Atomic!Outcome, Atomic!Kinds
<1>6. Atomic!Put(Operation) = <<>> /\ ~Atomic!Everywhere(Operation)
  BY <1>1 DEF Atomic!Put, Atomic!Everywhere
<1>7. Atomic!Spliced(content, Operation.find, <<>>) = content'
  BY <1>3, <1>4 DEF Atomic!Spliced, Replace
<1>8. Atomic!Edit(Operation, content) = [text |-> content', matches |-> 1]
  BY <1>6, <1>7, Zenon DEF Atomic!Edit
<1> QED
  BY <1>1, <1>5, <1>8, OneEdit

\* To insert is to put the needle back with the text before it or behind it.
LEMMA Inserts ==
  ASSUME NEW t \in Seq(Letters), NEW n \in Seq(Letters), NEW r \in Seq(Letters),
         NEW at \in Atomic!Occurrences(t, n), Atomic!FirstOccurrence(t, n) = at
  PROVE  /\ Replace(t, at, 0, r) = Atomic!Spliced(t, n, r \o n)
         /\ Replace(t, at + Len(n), 0, r) = Atomic!Spliced(t, n, n \o r)
<1> DEFINE k == Len(n)
           a == SubSeq(t, 1, at - 1)
           b == SubSeq(t, at + k, Len(t))
<1>0. /\ Len(t) \in Nat /\ k \in Nat /\ at \in 1..Len(t) + 1 /\ at + k <= Len(t) + 1
      /\ SubSeq(t, at, at + k - 1) = n
  BY LenProperties DEF Atomic!Occurrences
<1>1. a \in Seq(Letters) /\ b \in Seq(Letters)
  BY <1>0, Subtext
<1>2. SubSeq(t, at, Len(t)) = n \o b
  <2>1. SubSeq(t, at, at + k - 1) \o SubSeq(t, at + k - 1 + 1, Len(t)) = SubSeq(t, at, Len(t))
    <3>1. at + k - 1 \in at - 1..Len(t) /\ Len(t) \in at + k - 1..Len(t)
      BY <1>0
    <3> HIDE DEF k
    <3> QED
      BY <1>0, <3>1, ConcatAdjacentSubSeq
  <2>2. at + k - 1 + 1 = at + k
    BY <1>0
  <2> HIDE DEF k
  <2> QED
    BY <1>0, <2>1, <2>2
<1>3. SubSeq(t, 1, at + k - 1) = a \o n
  <2>1. SubSeq(t, 1, at - 1) \o SubSeq(t, at - 1 + 1, at + k - 1) = SubSeq(t, 1, at + k - 1)
    <3>1. 1 \in 1..Len(t) + 1 /\ at - 1 \in 1 - 1..Len(t) /\ at + k - 1 \in at - 1..Len(t)
      BY <1>0
    <3> HIDE DEF k
    <3> QED
      BY <3>1, ConcatAdjacentSubSeq
  <2>2. at - 1 + 1 = at
    BY <1>0
  <2> HIDE DEF k
  <2> QED
    BY <1>0, <2>1, <2>2
<1>4. \A z : Atomic!Spliced(t, n, z) = a \o z \o b
  BY DEF Atomic!Spliced
<1>5. Replace(t, at, 0, r) = a \o r \o (n \o b)
  <2>1. at + 0 = at
    BY <1>0
  <2> QED
    BY <1>2, <2>1 DEF Replace
<1>6. Replace(t, at + k, 0, r) = (a \o n) \o r \o b
  <2>1. (at + k) + 0 = at + k
    BY <1>0
  <2>2. SubSeq(t, (at + k) + 0, Len(t)) = b
    BY <2>1
  <2> HIDE DEF b, a, k
  <2>3. Replace(t, at + k, 0, r) =
          SubSeq(t, 1, (at + k) - 1) \o r \o SubSeq(t, (at + k) + 0, Len(t))
    BY Zenon DEF Replace
  <2>4. SubSeq(t, 1, (at + k) - 1) = a \o n
    <3>1. (at + k) - 1 = at + k - 1
      BY <1>0 DEF k
    <3> QED
      BY <1>3, <3>1
  <2> DEFINE x == SubSeq(t, 1, (at + k) - 1)
             y == SubSeq(t, (at + k) + 0, Len(t))
  <2>5. Replace(t, at + k, 0, r) = x \o r \o y /\ x = a \o n /\ y = b
    BY <2>2, <2>3, <2>4
  <2> HIDE DEF x, y
  <2> QED
    BY <2>5
<1> HIDE DEF a, b, k
<1>7. (a \o r) \o (n \o b) = (a \o (r \o n)) \o b
  <2>1. a \o r \in Seq(Letters)
    BY <1>1, Joins
  <2>2. (a \o r) \o (n \o b) = ((a \o r) \o n) \o b
    BY <1>1, <2>1, Associative, SMTT(30)
  <2>3. (a \o r) \o n = a \o (r \o n)
    BY <1>1, Associative, SMTT(30)
  <2> QED
    BY <2>2, <2>3
<1>8. (a \o n) \o r = a \o (n \o r)
  BY <1>1, Associative, ZenonT(30)
<1> QED
  BY <1>4, <1>5, <1>6, <1>7, <1>8 DEF k

\* An insertion next to a match is a whole round of the abstract specification.
LEMMA InsertRelativeStep ==
  ASSUME PatchInv, insert_relative
  PROVE  ProgressInv' /\ RoundInv'
<1>1. /\ result.is = "running" /\ cursor = 0 /\ index <= Len(ops)
      /\ Operation.op \in {"insert_before", "insert_after"} /\ Operation.find # <<>>
      /\ NextOperation(1) /\ UNCHANGED <<original, ops, file, cursor, result>>
  BY DEF insert_relative, Applying
<1>2. content \in Seq(Letters) /\ Operation.find \in Seq(Letters)
      /\ Operation.text \in Seq(Letters) /\ 1 \in 1..Len(content) + 1
  BY <1>1, Lists, LenProperties DEF PatchInv, TypeOK, IsOperation
<1> DEFINE at == Find(content, Operation.find, 1)
<1>3. at # NotFound
      /\ content' = Replace(content,
                            IF Operation.op = "insert_after"
                            THEN at + Len(Operation.find) ELSE at, 0, Operation.text)
  BY DEF insert_relative
<1>4. Atomic!Occurrences(content, Operation.find) # {}
      /\ Atomic!FirstOccurrence(content, Operation.find) = at
      /\ at \in Atomic!Occurrences(content, Operation.find)
  BY <1>2, <1>3, First, Matched
<1> HIDE DEF at
<1>5. Atomic!Outcome(Operation, content) = "ok"
  BY <1>1, <1>4 DEF Atomic!Outcome, Atomic!Kinds
<1>6. ~Atomic!Everywhere(Operation)
  BY <1>1 DEF Atomic!Everywhere
<1>7. Atomic!Spliced(content, Operation.find, Atomic!Put(Operation)) = content'
  <2>1. CASE Operation.op = "insert_after"
    <3>1. Atomic!Put(Operation) = Operation.find \o Operation.text
      BY <2>1 DEF Atomic!Put
    <3>2. content' = Replace(content, at + Len(Operation.find), 0, Operation.text)
      BY <1>3, <2>1
    <3> QED
      BY <1>2, <1>4, <3>1, <3>2, Inserts
  <2>2. CASE Operation.op = "insert_before"
    <3>1. Atomic!Put(Operation) = Operation.text \o Operation.find
      BY <2>2 DEF Atomic!Put
    <3>2. content' = Replace(content, at, 0, Operation.text)
      BY <1>3, <2>2
    <3> QED
      BY <1>2, <1>4, <3>1, <3>2, Inserts
  <2> QED
    BY <1>1, <2>1, <2>2
<1>8. Atomic!Edit(Operation, content) = [text |-> content', matches |-> 1]
  BY <1>6, <1>7, Zenon DEF Atomic!Edit
<1> QED
  BY <1>1, <1>5, <1>8, OneEdit

\* The loop starts with nothing behind it.
LEMMA StartStep ==
  ASSUME PatchInv, StartReplaceAll
  PROVE  ProgressInv' /\ RoundInv'
<1>1. /\ result.is = "running" /\ cursor = 0 /\ index <= Len(ops)
      /\ Operation.op \in {"replace", "delete"} /\ Operation.all /\ Operation.find # <<>>
      /\ cursor' = 1
      /\ UNCHANGED <<original, ops, file, index, content, matches, applied, result>>
  BY DEF StartReplaceAll, Applying
<1>2. /\ content \in Seq(Letters) /\ Operation.find \in Seq(Letters)
      /\ Replacement \in Seq(Letters) /\ 1 \in 1..Len(content) + 1
  BY <1>1, Lists, LenProperties DEF PatchInv, TypeOK, IsOperation
<1>3. result = [is |-> "running", matches |-> <<>>] /\ file = original
      /\ Before = [text |-> Before.text, outcome |-> "ok", matches |-> applied]
      /\ matches = 0 /\ Before.text = content
  BY <1>1 DEF PatchInv, ProgressInv
<1>4. Before' = Before /\ Operation' = Operation /\ Replacement' = Replacement
  BY <1>1 DEF Before, Operation, Replacement
<1>5. ProgressInv'
  BY <1>1, <1>3, <1>4 DEF ProgressInv
<1> DEFINE s == Atomic!Scanned(content, Operation.find, Replacement)[1]
<1>6. s = [text |-> SubSeq(content, 1, 0) \o s.text, matches |-> 0 + s.matches]
  <2>1. s \in Scan
    BY <1>1, <1>2, ScanTypes
  <2>2. SubSeq(content, 1, 0) = <<>>
    BY SubSeqEmpty
  <2> HIDE DEF s
  <2>3. s.text \in Seq(Letters) /\ s.matches \in Nat
        /\ s = [text |-> s.text, matches |-> s.matches]
    BY <2>1 DEF Scan
  <2>4. <<>> \o s.text = s.text
    BY <2>3, ConcatEmptySeq
  <2>5. 0 + s.matches = s.matches
    BY <2>3
  <2> QED
    BY <2>2, <2>3, <2>4, <2>5
<1>7. Atomic!Rewritten(content, Operation.find, Replacement) = s
  BY DEF Atomic!Rewritten
<1> HIDE DEF s
<1>8. RoundInv'
  <2>1. 1 - 1 = 0
    OBVIOUS
  <2>2. Atomic!Rewritten(Before.text, Operation.find, Replacement) =
          [text |-> SubSeq(content, 1, 1 - 1) \o s.text, matches |-> matches + s.matches]
    BY <1>3, <1>6, <1>7, <2>1
  <2> QED
    BY <1>1, <1>3, <1>4, <2>2 DEF RoundInv, s
<1> QED
  BY <1>5, <1>8

\* A round: the scan goes over the text up to the match, puts the replacement and
\* goes on behind the match.
LEMMA RoundStep ==
  ASSUME PatchInv, ReplaceNext
  PROVE  ProgressInv' /\ RoundInv'
<1> DEFINE f == Operation.find
           r == Replacement
           at == Find(content, f, cursor)
           n == Len(f)
           g == Atomic!Scanned(content, f, r)
           h == Atomic!Scanned(content', f, r)
           rest == g[at + n]
<1>1. /\ Replacing /\ result.is = "running" /\ cursor # 0
      /\ index <= Len(ops) /\ Operation.op \in {"replace", "delete"}
      /\ Operation.all /\ f # <<>>
      /\ UNCHANGED <<original, ops, file, index, applied, result>>
  BY DEF ReplaceNext, PatchInv, RoundInv, Replacing
<1>2. /\ at # NotFound /\ content' = Replace(content, at, n, r)
      /\ cursor' = at + Len(r) /\ matches' = matches + 1
  BY DEF ReplaceNext
<1>3. /\ content \in Seq(Letters) /\ f \in Seq(Letters) /\ r \in Seq(Letters)
      /\ cursor \in 1..Len(content) + 1 /\ matches \in Nat
  BY <1>1, Lists, LenProperties DEF PatchInv, TypeOK, IsOperation
<1>4. Len(content) \in Nat /\ n \in Nat /\ n > 0 /\ Len(r) \in Nat
  BY <1>1, <1>3, EmptySeq, LenProperties
<1>5. /\ at \in Atomic!Occurrences(content, f) /\ at \in 1..Len(content) + 1
      /\ cursor <= at /\ at + n <= Len(content) + 1
      /\ \A j \in Atomic!Occurrences(content, f) : cursor <= j => at <= j
  BY <1>2, <1>3, Matched
<1>6. Before' = Before /\ Operation' = Operation /\ Replacement' = r
  BY <1>1 DEF Before, Operation, Replacement
<1>7. ProgressInv'
  <2>1. cursor' # 0
    BY <1>2, <1>4, <1>5
  <2> HIDE DEF f, r, at, n, g, h
  <2> QED
    BY <1>1, <1>6, <2>1 DEF ProgressInv, PatchInv
<1>8. g[cursor] = [text |-> SubSeq(content, cursor, at - 1) \o g[at].text,
                   matches |-> g[at].matches]
  <2>1. Free(content, f, cursor, at)
    BY <1>3, <1>5 DEF Free
  <2>2. cursor \in 1..at
    BY <1>3, <1>5
  <2>3. f # <<>> /\ content \in Seq(Letters) /\ f \in Seq(Letters) /\ r \in Seq(Letters)
        /\ at \in 1..Len(content) + 1
    BY <1>1, <1>3, <1>5
  <2> HIDE DEF f, r, at
  <2> QED
    BY <2>1, <2>2, <2>3, ScanSkips
<1>9. g[at] = [text |-> r \o rest.text, matches |-> 1 + rest.matches]
  <2>1. g[at] = ScanAt(content, f, r, g, at)
    <3> HIDE DEF f, r, at
    <3> QED
      BY <1>1, <1>3, <1>5, ScanStep
  <2>2. ~(at > Len(content))
    BY <1>4, <1>5
  <2> HIDE DEF f, r, at, g, n
  <2> QED
    BY <1>5, <2>1, <2>2 DEF ScanAt, n
<1>10. rest.text \in Seq(Letters) /\ rest.matches \in Nat
       /\ rest = [text |-> rest.text, matches |-> rest.matches]
  <2>1. at + n \in 1..Len(content) + 1
    BY <1>4, <1>5
  <2>2. rest \in Scan
    <3> HIDE DEF f, r, at, n
    <3> QED
      BY <1>1, <1>3, <2>1, ScanTypes
  <2> HIDE DEF rest
  <2> QED
    BY <2>2 DEF Scan
<1>11. /\ content' \in Seq(Letters)
       /\ Len(content') = Len(content) + Len(r) - n
       /\ SubSeq(content', 1, at + Len(r) - 1) = SubSeq(content, 1, at - 1) \o r
       /\ \A x \in 1..Len(content) + 1 - at - n :
             content'[Len(content') + 1 - x] = content[Len(content) + 1 - x]
  <2> HIDE DEF f, r, at, n, g, h, rest
  <2>1. at + n <= Len(content) + 1 /\ at \in 1..Len(content) + 1 /\ n \in Nat
        /\ content \in Seq(Letters) /\ r \in Seq(Letters)
    BY <1>3, <1>4, <1>5
  <2>2. content' = Replace(content, at, n, r)
    BY <1>2
  <2> DEFINE u == Replace(content, at, n, r)
  <2>3. /\ u \in Seq(Letters) /\ Len(u) = Len(content) + Len(r) - n
        /\ SubSeq(u, 1, at + Len(r) - 1) = SubSeq(content, 1, at - 1) \o r
        /\ \A x \in 1..Len(content) + 1 - at - n :
              u[Len(u) + 1 - x] = content[Len(content) + 1 - x]
    BY <2>1, Replaces, Zenon
  <2> HIDE DEF u
  <2>4. content' = u
    BY <2>2 DEF u
  <2> QED
    BY <2>3, <2>4
<1>12. h[cursor'] = rest
  <2> DEFINE m == Len(content) + 1 - at - n
  <2>1. m \in Nat /\ m <= Len(content) /\ m <= Len(content')
        /\ Len(content) + 1 - m = at + n /\ Len(content') + 1 - m = cursor'
    <3> HIDE DEF at, n, r, f
    <3>1. m \in Nat /\ m <= Len(content) /\ Len(content) + 1 - m = at + n
      BY <1>4, <1>5
    <3>2. m <= Len(content') /\ Len(content') + 1 - m = cursor'
      BY <1>2, <1>4, <1>5, <1>11
    <3> QED
      BY <3>1, <3>2
  <2>2. h[Len(content') + 1 - m] = g[Len(content) + 1 - m]
    <3>1. \A x \in 1..m : content'[Len(content') + 1 - x] = content[Len(content) + 1 - x]
      BY <1>11
    <3>2. /\ content \in Seq(Letters) /\ content' \in Seq(Letters)
          /\ f # <<>> /\ f \in Seq(Letters) /\ r \in Seq(Letters)
      BY <1>1, <1>3, <1>11
    <3>3. m \in Nat /\ m <= Len(content) /\ m <= Len(content')
      BY <2>1
    <3> HIDE DEF m, f, r
    <3> QED
      BY <3>1, <3>2, <3>3, ScanSuffix
  <2> HIDE DEF f, r, at, n, g, h, m
  <2> QED
    BY <2>1, <2>2
<1>13. SubSeq(content, 1, cursor - 1) \o SubSeq(content, cursor, at - 1) =
          SubSeq(content, 1, at - 1)
  <2>1. cursor - 1 \in 1 - 1..Len(content) /\ at - 1 \in cursor - 1..Len(content)
        /\ 1 \in 1..Len(content) + 1 /\ cursor - 1 + 1 = cursor
    BY <1>3, <1>4, <1>5
  <2> HIDE DEF f, r, at, n, g, h
  <2>2. SubSeq(content, 1, cursor - 1) \o SubSeq(content, cursor - 1 + 1, at - 1) =
          SubSeq(content, 1, at - 1)
    BY <1>3, <2>1, ConcatAdjacentSubSeq
  <2> QED
    BY <2>1, <2>2
<1> DEFINE a == SubSeq(content, 1, cursor - 1)
           b == SubSeq(content, cursor, at - 1)
           whole == Atomic!Rewritten(Before.text, f, r)
<1>14. a \in Seq(Letters) /\ b \in Seq(Letters)
  BY <1>3, <1>4, <1>5, Subtext
<1>15. whole = [text |-> a \o g[cursor].text, matches |-> matches + g[cursor].matches]
  BY <1>1 DEF PatchInv, RoundInv
<1>16. a \o (b \o (r \o rest.text)) = SubSeq(content', 1, cursor' - 1) \o rest.text
  <2> DEFINE z == rest.text
  <2>1. z \in Seq(Letters)
    BY <1>10
  <2> HIDE DEF a, b, r, z
  <2>2. r \o z \in Seq(Letters) /\ a \o b \in Seq(Letters)
    BY <1>3, <1>14, <2>1, Joins
  <2>3. a \o (b \o (r \o z)) = (a \o b) \o (r \o z)
    BY <1>14, <2>2, Associative
  <2>4. (a \o b) \o (r \o z) = ((a \o b) \o r) \o z
    <3> DEFINE c == a \o b
    <3> HIDE DEF c
    <3>1. c \in Seq(Letters) /\ r \in Seq(Letters)
      BY <1>3, <2>2 DEF c
    <3>2. c \o (r \o z) = (c \o r) \o z
      BY <2>1, <3>1, Associative
    <3> QED
      BY <3>2 DEF c
  <2>5. a \o b = SubSeq(content, 1, at - 1)
    BY <1>13 DEF a, b
  <2>6. SubSeq(content', 1, cursor' - 1) = (a \o b) \o r
    <3> HIDE DEF at, f
    <3>1. cursor' - 1 = at + Len(r) - 1
      BY <1>2, <1>4, <1>5
    <3> QED
      BY <1>11, <2>5, <3>1
  <2> HIDE DEF at, f
  <2> QED
    BY <2>3, <2>4, <2>6 DEF z
<1>17. whole = [text |-> SubSeq(content', 1, cursor' - 1) \o rest.text,
                matches |-> matches' + rest.matches]
  <2> HIDE DEF a, b, f, r, at, n, g, h, rest, whole
  <2>1. g[at].text = r \o rest.text /\ g[at].matches = 1 + rest.matches
    BY <1>9
  <2>2. g[cursor].text = b \o (r \o rest.text) /\ g[cursor].matches = 1 + rest.matches
    <3> DEFINE q == b \o g[at].text
               k == g[at].matches
    <3>1. g[cursor] = [text |-> q, matches |-> k]
      BY <1>8 DEF b
    <3> HIDE DEF q, k
    <3>2. g[cursor].text = q /\ g[cursor].matches = k
      BY <3>1
    <3>3. q = b \o (r \o rest.text) /\ k = 1 + rest.matches
      BY <2>1 DEF q, k
    <3> QED
      BY <3>2, <3>3
  <2>3. matches + (1 + rest.matches) = matches' + rest.matches
    BY <1>2, <1>3, <1>10
  <2> QED
    BY <1>15, <1>16, <2>2, <2>3
<1>18. Atomic!Occurrences(Before.text, f) # {}
  <2> HIDE DEF r, n, g, h, rest, whole
  <2>1. CASE matches = 0
    <3>1. content = Before.text
      BY <1>1, <2>1 DEF PatchInv, RoundInv
    <3> QED
      BY <1>5, <3>1
  <2>2. CASE matches # 0
    BY <1>1, <2>2 DEF PatchInv, RoundInv
  <2> QED
    BY <2>1, <2>2
<1>19. RoundInv'
  <2>1. matches' # 0
    BY <1>2, <1>3
  <2>2. Atomic!Scanned(content', Operation'.find, Replacement')[cursor'] = rest
    BY <1>6, <1>12
  <2> HIDE DEF rest
  <2>3. Atomic!Rewritten(Before'.text, Operation'.find, Replacement') =
          [text |-> SubSeq(content', 1, cursor' - 1) \o rest.text,
           matches |-> matches' + rest.matches]
    BY <1>6, <1>17
  <2> HIDE DEF r, n, g, h, whole, at
  <2> QED
    BY <1>1, <1>6, <1>18, <2>1, <2>2, <2>3 DEF RoundInv
<1> QED
  BY <1>7, <1>19

\* The loop ends with nothing of the text left to scan.
LEMMA EndStep ==
  ASSUME PatchInv, EndReplaceAll
  PROVE  ProgressInv' /\ RoundInv'
<1> DEFINE f == Operation.find
           r == Replacement
           L == Len(content)
           g == Atomic!Scanned(content, f, r)
<1>1. /\ result.is = "running" /\ cursor # 0 /\ index <= Len(ops) /\ matches # 0
      /\ Operation.op \in {"replace", "delete"} /\ Operation.all /\ f # <<>>
      /\ cursor' = 0 /\ NextOperation(matches) /\ content' = content
      /\ UNCHANGED <<original, ops, file, result>>
      /\ Find(content, f, cursor) = NotFound
  BY DEF EndReplaceAll, PatchInv, RoundInv, Replacing
<1>2. /\ content \in Seq(Letters) /\ f \in Seq(Letters) /\ r \in Seq(Letters)
      /\ L \in Nat /\ cursor \in 1..L + 1 /\ L + 1 \in 1..L + 1 /\ matches \in Nat
  BY <1>1, Lists, LenProperties DEF PatchInv, TypeOK, IsOperation
<1>3. \A j \in cursor..L + 1 - 1 : j \notin Atomic!Occurrences(content, f)
  <2>1. \A j \in Atomic!Occurrences(content, f) : j < cursor
    BY <1>1, <1>2, FindFinds
  <2> HIDE DEF f, L
  <2> QED
    BY <1>2, <2>1
<1>4. g[L + 1] = [text |-> <<>>, matches |-> 0]
  <2>1. g[L + 1] = ScanAt(content, f, r, g, L + 1)
    <3> HIDE DEF f, r
    <3> QED
      BY <1>1, <1>2, ScanStep
  <2>2. L + 1 > L
    BY <1>2
  <2> HIDE DEF f, r, g
  <2> QED
    BY <2>1, <2>2 DEF ScanAt
<1>5. g[cursor] = [text |-> SubSeq(content, cursor, L + 1 - 1) \o g[L + 1].text,
                   matches |-> g[L + 1].matches]
  <2>1. PICK k \in 1..Len(content) + 1 : k = L + 1
    BY <1>2
  <2>2. /\ f # <<>> /\ cursor \in 1..k
        /\ \A j \in cursor..k - 1 : j \notin Atomic!Occurrences(content, f)
    BY <1>1, <1>2, <1>3, <2>1
  <2>3. g[cursor] = [text |-> SubSeq(content, cursor, k - 1) \o g[k].text,
                     matches |-> g[k].matches]
    <3>1. /\ content \in Seq(Letters) /\ f \in Seq(Letters) /\ r \in Seq(Letters)
          /\ f # <<>>
      BY <1>2, <2>2
    <3>2. k \in 1..Len(content) + 1 /\ cursor \in 1..k
      BY <2>2
    <3>3. Free(content, f, cursor, k)
      BY <2>2 DEF Free
    <3> HIDE DEF f, r, L
    <3> QED
      BY <3>1, <3>2, <3>3, ScanSkips
  <2> HIDE DEF f, r, g, L
  <2>4. L + 1 - 1 = k - 1
    BY <1>2, <2>1
  <2> QED
    BY <2>1, <2>3, <2>4
<1> DEFINE a == SubSeq(content, 1, cursor - 1)
           b == SubSeq(content, cursor, L)
<1>6. a \in Seq(Letters) /\ b \in Seq(Letters)
  BY <1>2, Subtext
<1>7. a \o b = content
  <2>1. cursor - 1 \in 1 - 1..L /\ L \in cursor - 1..L
        /\ 1 \in 1..L + 1 /\ cursor - 1 + 1 = cursor
    BY <1>2
  <2>2. SubSeq(content, 1, cursor - 1) \o SubSeq(content, cursor - 1 + 1, L) =
          SubSeq(content, 1, L)
    BY <1>2, <2>1, ConcatAdjacentSubSeq
  <2>3. SubSeq(content, 1, L) = content
    BY <1>2, SubSeqFull
  <2> HIDE DEF L
  <2> QED
    BY <2>1, <2>2, <2>3
<1>8. g[cursor].text = b /\ g[cursor].matches = 0
  <2>1. L + 1 - 1 = L
    BY <1>2
  <2> HIDE DEF L, g, b
  <2>2. g[L + 1].text = <<>> /\ g[L + 1].matches = 0
    BY <1>4
  <2>3. b \o <<>> = b
    BY <1>6, ConcatEmptySeq
  <2>4. g[cursor] = [text |-> b, matches |-> 0]
    BY <1>5, <2>1, <2>2, <2>3 DEF b
  <2> QED
    BY <2>4
<1>9. Atomic!Rewritten(Before.text, f, r) = [text |-> content', matches |-> matches]
  <2>1. Atomic!Rewritten(Before.text, f, r) =
          [text |-> a \o g[cursor].text, matches |-> matches + g[cursor].matches]
    BY <1>1 DEF PatchInv, RoundInv, Replacing
  <2>2. matches + 0 = matches
    BY <1>2
  <2> HIDE DEF a, b, f, r, g
  <2> QED
    BY <1>1, <1>7, <1>8, <2>1, <2>2
<1>10. Atomic!Occurrences(Before.text, f) # {}
  BY <1>1 DEF PatchInv, RoundInv, Replacing
<1>11. Atomic!Outcome(Operation, Before.text) = "ok"
  BY <1>1, <1>10 DEF Atomic!Outcome, Atomic!Kinds
<1>12. Atomic!Put(Operation) = r /\ Atomic!Everywhere(Operation)
  BY <1>1 DEF Atomic!Put, Atomic!Everywhere, Replacement
<1>13. Atomic!Edit(Operation, Before.text) = [text |-> content', matches |-> matches]
  BY <1>9, <1>12, Zenon DEF Atomic!Edit
<1> QED
  BY <1>1, <1>11, <1>13, EditDone

\* The operation that fails is the one the specification names.
LEMMA Refused ==
  ASSUME PatchInv, NoMatch \/ EmptyFind \/ Unsupported
  PROVE  /\ result.is = "running"
         /\ Throw(Atomic!Progress(original, ops)[Len(ops)].outcome)
         /\ Atomic!Progress(original, ops)[Len(ops)].outcome # "ok"
<1> DEFINE t == Before.text
           why == Atomic!Outcome(Operation, t)
<1>1. TypeOK /\ ProgressInv /\ RoundInv /\ content \in Seq(Letters)
  BY DEF PatchInv, TypeOK
<1>2. result.is = "running" /\ index <= Len(ops)
  BY <1>1 DEF NoMatch, EmptyFind, Unsupported, Applying, Replacing, RoundInv
<1>3. Operation.find \in Seq(Letters)
  BY <1>1, <1>2, Lists DEF IsOperation
<1>4. CASE NoMatch
  <2>1. /\ Operation.op \in Atomic!Kinds
        /\ ~(Operation.find = <<>> /\ (Operation.op # "replace" \/ Operation.all))
        /\ t = content /\ Find(content, Operation.find, 1) = NotFound
    BY <1>1, <1>2, <1>4 DEF NoMatch, Applying, Replacing, RoundInv, ProgressInv, Atomic!Kinds
  <2>2. Atomic!Occurrences(t, Operation.find) = {}
    BY <1>1, <1>3, <2>1, First
  <2> HIDE DEF t
  <2>3. why = "no match"
    BY <2>1, <2>2 DEF Atomic!Outcome
  <2> QED
    BY <1>1, <1>2, <1>4, <2>3, Fails DEF NoMatch, t
<1>5. CASE EmptyFind
  <2>1. why = "empty find"
    BY <1>5 DEF EmptyFind, Applying, Atomic!Outcome, Atomic!Kinds
  <2> QED
    BY <1>1, <1>2, <1>5, <2>1, Fails DEF EmptyFind
<1>6. CASE Unsupported
  <2>1. why = "unsupported"
    BY <1>6 DEF Unsupported, Atomic!Outcome, Atomic!Kinds
  <2> QED
    BY <1>1, <1>2, <1>6, <2>1, Fails DEF Unsupported
<1> QED
  BY <1>2, <1>4, <1>5, <1>6

-----------------------------------------------------------------------------
\* Nothing is done at the start.
LEMMA InitInv ==
  ASSUME Init
  PROVE  PatchInv
<1>1. /\ original \in Seq(Letters) /\ Len(original) \in Nat /\ Len(ops) \in Nat
      /\ <<>> \in Seq(Nat)
  BY TextAssumption, OperationAssumption, LenProperties, EmptySeq DEF Init
<1>2. TypeOK
  BY <1>1 DEF Init, TypeOK, Results
<1>3. Atomic!Progress(original, ops)[0] =
        [text |-> original, outcome |-> "ok", matches |-> <<>>]
  <2> DEFINE g == Atomic!Progress(original, ops)
  <2>1. 0 \in 0..Len(ops)
    BY <1>1
  <2>2. g[0] = ProgressAt(original, ops, g, 0)
    BY <1>1, <2>1, ProgressStep
  <2> HIDE DEF g
  <2> QED
    BY <2>2, Zenon DEF ProgressAt, g
<1>4. Before = [text |-> original, outcome |-> "ok", matches |-> <<>>]
  <2>1. index - 1 = 0
    BY DEF Init
  <2> QED
    BY <1>3, <2>1 DEF Before
<1>5. ProgressInv
  <2>1. Before.text = original
    BY <1>4
  <2> QED
    BY <1>4, <2>1 DEF Init, ProgressInv
<1>6. RoundInv
  BY DEF Init, RoundInv, Replacing
<1> QED
  BY <1>2, <1>5, <1>6 DEF PatchInv

\* Every step keeps the invariant.
LEMMA Preserved ==
  ASSUME PatchInv, [Next]_vars
  PROVE  PatchInv'
<1>1. TypeOK'
  BY Typing
<1>2. ASSUME result'.is # "running" PROVE ProgressInv' /\ RoundInv'
  BY <1>2 DEF ProgressInv, RoundInv, Replacing
<1>3. CASE replace_single
  BY <1>1, <1>3, ReplaceSingleStep DEF PatchInv
<1>4. CASE delete_single
  BY <1>1, <1>4, DeleteSingleStep DEF PatchInv
<1>5. CASE insert_relative
  BY <1>1, <1>5, InsertRelativeStep DEF PatchInv
<1>6. CASE StartReplaceAll
  BY <1>1, <1>6, StartStep DEF PatchInv
<1>7. CASE ReplaceNext
  BY <1>1, <1>7, RoundStep DEF PatchInv
<1>8. CASE EndReplaceAll
  BY <1>1, <1>8, EndStep DEF PatchInv
<1>9. CASE NoMatch \/ EmptyFind \/ Unsupported
  <2>1. result'.is # "running"
    <3>1. Throw("no match") \/ Throw("empty find") \/ Throw("unsupported")
      BY <1>9 DEF NoMatch, EmptyFind, Unsupported
    <3>2. PICK why \in {"no match", "empty find", "unsupported"} :
             result' = [is |-> why, matches |-> <<>>]
      BY <3>1 DEF Throw
    <3>3. result'.is = why
      BY <3>2, Zenon
    <3> QED
      BY <3>3
  <2> QED
    BY <1>1, <1>2, <2>1 DEF PatchInv
<1>10. CASE Write
  <2>1. result'.is # "running"
    BY <1>10 DEF Write
  <2> QED
    BY <1>1, <1>2, <2>1 DEF PatchInv
<1>11. CASE UNCHANGED vars
  <2>1. ProgressInv' /\ RoundInv'
    BY <1>11 DEF PatchInv, ProgressInv, RoundInv, Before, Operation, Replacement,
                 Replacing, vars
  <2> QED
    BY <1>1, <2>1 DEF PatchInv
<1> QED
  BY <1>3, <1>4, <1>5, <1>6, <1>7, <1>8, <1>9, <1>10, <1>11 DEF Next

\* The text in memory, the operations and their matches keep their types, and the
\* text is at every point of the loop what the scan defines.
THEOREM PatchCorrect == Spec => []PatchInv
<1>1. Init => PatchInv
  BY InitInv
<1>2. PatchInv /\ [Next]_vars => PatchInv'
  BY Preserved
<1> QED
  BY <1>1, <1>2, PTL DEF Spec

\* Every variable of a call has its type, for every list of operations.
THEOREM PatchTypes == Spec => []TypeOK
<1>1. PatchInv => TypeOK
  BY DEF PatchInv
<1> QED
  BY <1>1, PatchCorrect, PTL

\* A step of the call is the whole edit, its refusal, or nothing that is seen.
LEMMA StepRefines ==
  ASSUME PatchInv, [Next]_vars
  PROVE  Atomic!Patch \/ UNCHANGED Atomic!atomicVars
<1> DEFINE end == Atomic!Progress(original, ops)[Len(ops)]
<1>1. CASE NoMatch \/ EmptyFind \/ Unsupported
  <2>1. result.is = "running" /\ Throw(end.outcome) /\ end.outcome # "ok"
    BY <1>1, Refused
  <2> HIDE DEF end
  <2>2. result' = [is |-> end.outcome, matches |-> <<>>] /\ UNCHANGED <<original, ops, file>>
    BY <2>1 DEF Throw
  <2> QED
    BY <2>1, <2>2 DEF Atomic!Patch, end
<1>2. CASE Write
  <2>1. /\ result.is = "running" /\ index > Len(ops) /\ cursor = 0 /\ file' = content
        /\ result' = [is |-> "patched", matches |-> applied] /\ UNCHANGED <<original, ops>>
    BY <1>2 DEF Write
  <2>2. index - 1 = Len(ops)
    BY <2>1, Lists DEF PatchInv, TypeOK
  <2>3. end = Before
    BY <2>2 DEF Before
  <2>4. Before = [text |-> Before.text, outcome |-> "ok", matches |-> applied]
        /\ Before.text = content
    BY <2>1 DEF PatchInv, ProgressInv
  <2> HIDE DEF end
  <2>5. end.outcome = "ok" /\ end.matches = applied /\ end.text = content
    BY <2>3, <2>4
  <2> QED
    BY <2>1, <2>5 DEF Atomic!Patch, end
<1>3. CASE UNCHANGED <<original, ops, file, result>>
  BY <1>3 DEF Atomic!atomicVars
<1>4. CASE replace_single \/ delete_single \/ insert_relative
  BY <1>3, <1>4 DEF replace_single, delete_single, insert_relative
<1>5. CASE StartReplaceAll \/ ReplaceNext \/ EndReplaceAll
  BY <1>3, <1>5 DEF StartReplaceAll, ReplaceNext, EndReplaceAll
<1>6. CASE UNCHANGED vars
  BY <1>3, <1>6 DEF vars
<1> QED
  BY <1>1, <1>2, <1>4, <1>5, <1>6 DEF Next

\* The call is atomic for every text and every list of operations: the file has the
\* text that all of them make, as one scan of the text defines it, or it is untouched
\* and the first operation that fails is the reason.
THEOREM PatchRefines == Spec => ImplementsAtomicPatch
<1>1. Init => Atomic!AtomicInit
  BY DEF Init, Atomic!AtomicInit
<1>2. PatchInv /\ [Next]_vars => [Atomic!Patch]_Atomic!atomicVars
  BY StepRefines
<1> QED
  BY <1>1, <1>2, PatchCorrect, PTL DEF Spec, ImplementsAtomicPatch, Atomic!AtomicSpec

\* Every round of replace_all leaves less text to search, for every needle and
\* replacement: the loop ends.
THEOREM PatchAdvances == Spec => ReplaceAllAdvances
<1> DEFINE Less == matches' > matches =>
                      Len(content') - (cursor' - 1) < Len(content) - (cursor - 1)
<1>1. ASSUME PatchInv, ReplaceNext PROVE Less
  <2> DEFINE f == Operation.find
             r == Replacement
             at == Find(content, f, cursor)
             n == Len(f)
  <2>1. /\ index <= Len(ops) /\ f # <<>> /\ cursor # 0 /\ at # NotFound
        /\ content' = Replace(content, at, n, r) /\ cursor' = at + Len(r)
    BY <1>1 DEF ReplaceNext, PatchInv, RoundInv, Replacing
  <2>2. /\ content \in Seq(Letters) /\ f \in Seq(Letters) /\ r \in Seq(Letters)
        /\ cursor \in 1..Len(content) + 1
    BY <1>1, <2>1, Lists, LenProperties DEF PatchInv, TypeOK, IsOperation
  <2>3. Len(content) \in Nat /\ n \in Nat /\ n > 0 /\ Len(r) \in Nat
    BY <2>1, <2>2, EmptySeq, LenProperties
  <2>4. at \in 1..Len(content) + 1 /\ cursor <= at /\ at + n <= Len(content) + 1
    BY <2>1, <2>2, Matched
  <2> HIDE DEF f, r, at, n
  <2>5. Len(content') = Len(content) + Len(r) - n
    BY <2>1, <2>2, <2>3, <2>4, Replaces
  <2> QED
    BY <2>1, <2>2, <2>3, <2>4, <2>5
<1>2. ASSUME PatchInv, [Next]_vars, ~ReplaceNext PROVE ~(matches' > matches)
  <2>1. matches \in Nat
    BY <1>2 DEF PatchInv, TypeOK
  <2>2. matches' = matches \/ matches' = 0
    BY <1>2 DEF Next, vars, replace_single, delete_single, insert_relative, NextOperation,
                StartReplaceAll, EndReplaceAll, NoMatch, EmptyFind, Unsupported, Throw, Write
  <2> QED
    BY <2>1, <2>2
<1>3. PatchInv /\ [Next]_vars => [Less]_vars
  BY <1>1, <1>2
<1> QED
  BY <1>3, PatchCorrect, PTL DEF Spec, ReplaceAllAdvances
=============================================================================
