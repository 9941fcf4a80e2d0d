------------------------------ MODULE PathProofs ------------------------------
(***************************************************************************)
(* Proofs about PathTree, for every tree, any names and links, any depth   *)
(* and any number of calls.                                                *)
(***************************************************************************)
EXTENDS PathTree, Integers, WellFoundedInduction, SequenceTheorems, TLAPS

-----------------------------------------------------------------------------
\* Every set of natural numbers with an element has a least one.
LEMMA LeastExists ==
  ASSUME NEW T \in SUBSET Nat, T # {}
  PROVE  \E x \in T : \A y \in T : x <= y
<1>1. PICK R : R = OpToRel(<, Nat)
  OBVIOUS
<1>2. \E x \in T : \A y \in T : <<y, x>> \notin R
  BY <1>1, NatLessThanWellFounded, WFMin
<1>3. \A x, y \in Nat : y < x => <<y, x>> \in R
  BY <1>1 DEF OpToRel
<1>4. \A x, y \in Nat : ~(y < x) => x <= y
  OBVIOUS
<1> QED
  BY <1>2, <1>3, <1>4

\* The least number of a set is among its elements.
LEMMA MinIn ==
  ASSUME NEW T \in SUBSET Nat, T # {}
  PROVE  Min(T) \in T /\ \A y \in T : Min(T) <= y
BY LeastExists DEF Min

\* So is the greatest, where there is a bound.
LEMMA MaxIn ==
  ASSUME NEW L \in Nat, NEW T \in SUBSET (0..L), T # {}
  PROVE  Max(T) \in T /\ \A y \in T : Max(T) >= y
<1> DEFINE U == {L - y : y \in T}
<1>1. U \in SUBSET Nat /\ U # {}
  <2>1. PICK x : x \in T
    OBVIOUS
  <2>2. L - x \in U
    BY <2>1
  <2>3. \A y \in T : L - y \in Nat
    OBVIOUS
  <2> QED
    BY <2>2, <2>3
<1>2. PICK m \in U : \A u \in U : m <= u
  BY <1>1, LeastExists
<1>3. PICK x \in T : m = L - x
  BY <1>2
<1>4. ASSUME NEW y \in T PROVE x >= y
  <2>1. L - y \in U /\ x \in Int /\ y \in Int
    OBVIOUS
  <2>2. m <= L - y
    BY <1>2, <2>1
  <2> QED
    BY <1>3, <2>1, <2>2
<1>5. \E z \in T : \A y \in T : z >= y
  BY <1>4
<1> QED
  BY <1>5 DEF Max

-----------------------------------------------------------------------------
\* The beginning of a path, up to its i-th name.
LEMMA CutIs ==
  ASSUME NEW S, NEW p \in Seq(S), NEW i \in 0..Len(p)
  PROVE  /\ SubSeq(p, 1, i) \in Seq(S) /\ Len(SubSeq(p, 1, i)) = i
         /\ \A j \in 1..i : SubSeq(p, 1, i)[j] = p[j]
<1>1. Len(p) \in Nat
  BY LenProperties
<1>2. \A j \in 1..i : p[j] \in S
  BY <1>1, ElementOfSeq
<1>3. /\ SubSeq(p, 1, i) \in Seq(S) /\ Len(SubSeq(p, 1, i)) = IF 1 <= i THEN i - 1 + 1 ELSE 0
      /\ \A j \in 1..i - 1 + 1 : SubSeq(p, 1, i)[j] = p[1 + j - 1]
  BY <1>1, <1>2, SubSeqProperties
<1> QED
  BY <1>1, <1>3

\* The end of a path, behind its i-th name.
LEMMA RestIs ==
  ASSUME NEW S, NEW p \in Seq(S), NEW i \in 0..Len(p)
  PROVE  /\ SubSeq(p, i + 1, Len(p)) \in Seq(S)
         /\ Len(SubSeq(p, i + 1, Len(p))) = Len(p) - i
         /\ \A j \in 1..Len(p) - i : SubSeq(p, i + 1, Len(p))[j] = p[i + j]
<1>1. PICK n \in Nat : n = Len(p)
  BY LenProperties
<1>2. \A j \in i + 1..n : p[j] \in S
  BY <1>1, ElementOfSeq
<1>3. /\ SubSeq(p, i + 1, n) \in Seq(S)
      /\ Len(SubSeq(p, i + 1, n)) = IF i + 1 <= n THEN n - (i + 1) + 1 ELSE 0
      /\ \A j \in 1..n - (i + 1) + 1 : SubSeq(p, i + 1, n)[j] = p[i + 1 + j - 1]
  BY <1>1, <1>2, SubSeqProperties
<1>4. \A j \in 1..n - i : SubSeq(p, i + 1, n)[j] = p[i + j]
  BY <1>1, <1>3
<1> QED
  BY <1>1, <1>3, <1>4

\* The directory of a path.
LEMMA FrontIs ==
  ASSUME NEW S, NEW p \in Seq(S), p # <<>>
  PROVE  /\ Front(p) \in Seq(S) /\ Len(Front(p)) = Len(p) - 1 /\ Len(p) \in Nat \ {0}
         /\ \A j \in 1..Len(p) - 1 : Front(p)[j] = p[j]
         /\ Last(p) \in S /\ p = Append(Front(p), Last(p))
<1>1. Len(p) \in Nat \ {0}
  BY EmptySeq
<1>2. PICK n \in Nat : n = Len(p) - 1
  BY <1>1
<1>3. /\ Front(p) \in Seq(S) /\ Len(Front(p)) = n
      /\ \A j \in 1..n : Front(p)[j] = p[j]
  BY <1>1, <1>2, CutIs DEF Front
<1>4. Last(p) \in S /\ Last(p) = p[n + 1]
  BY <1>1, <1>2, ElementOfSeq DEF Last
<1>5. PICK q : q = Append(Front(p), Last(p))
  OBVIOUS
<1>6. /\ q \in Seq(S) /\ Len(q) = n + 1 /\ q[n + 1] = Last(p)
      /\ \A j \in 1..n : q[j] = Front(p)[j]
  BY <1>3, <1>4, <1>5, AppendProperties
<1>7. q = p
  <2>1. Len(q) = Len(p) /\ \A j \in 1..Len(q) : q[j] = p[j]
    BY <1>1, <1>2, <1>3, <1>4, <1>6
  <2> QED
    BY <1>6, <2>1, SeqEqual
<1> QED
  BY <1>1, <1>2, <1>3, <1>4, <1>5, <1>7

\* What it is that a path starts with another.
LEMMA StartsIs ==
  ASSUME NEW S, NEW p \in Seq(S), NEW q \in Seq(S)
  PROVE  StartsWith(p, q) <=> Len(q) <= Len(p) /\ \A j \in 1..Len(q) : p[j] = q[j]
<1>1. Len(p) \in Nat /\ Len(q) \in Nat
  BY LenProperties
<1>2. SUFFICES ASSUME Len(q) <= Len(p)
               PROVE  SubSeq(q, 1, Len(q)) = SubSeq(p, 1, Len(q))
                        <=> \A j \in 1..Len(q) : p[j] = q[j]
  BY DEF StartsWith, IsPrefix
<1>3. PICK n, u, v : n = Len(q) /\ u = SubSeq(q, 1, n) /\ v = SubSeq(p, 1, n)
  OBVIOUS
<1>4. n \in 0..Len(q) /\ n \in 0..Len(p)
  BY <1>1, <1>2, <1>3
<1>5. /\ u \in Seq(S) /\ Len(u) = n /\ \A j \in 1..n : u[j] = q[j]
      /\ v \in Seq(S) /\ Len(v) = n /\ \A j \in 1..n : v[j] = p[j]
  BY <1>3, <1>4, CutIs
<1>6. u = v <=> \A j \in 1..n : p[j] = q[j]
  <2>1. u = v => \A j \in 1..n : p[j] = q[j]
    BY <1>5
  <2>2. ASSUME \A j \in 1..n : p[j] = q[j] PROVE u = v
    <3>1. \A j \in 1..Len(u) : u[j] = v[j]
      BY <1>5, <2>2
    <3> QED
      BY <1>5, <3>1, SeqEqual
  <2> QED
    BY <2>1, <2>2
<1> QED
  BY <1>3, <1>6

\* The paths are the sequences of names that are not too long.
LEMMA PathsAre ==
  ASSUME NEW p
  PROVE  p \in Paths <=> p \in Seq(Names) /\ Len(p) <= MaxDepth
<1>1. ASSUME p \in Paths PROVE p \in Seq(Names) /\ Len(p) <= MaxDepth
  <2>1. PICK n \in 0..MaxDepth : p \in [1..n -> Names]
    BY <1>1 DEF Paths
  <2>2. n \in Nat /\ n <= MaxDepth
    BY PathAssumption
  <2>3. p \in Seq(Names)
    BY <2>1, <2>2, SeqDef
  <2>4. Len(p) = n
    <3>1. DOMAIN p = 1..Len(p) /\ Len(p) \in Nat /\ DOMAIN p = 1..n
      BY <2>1, <2>3, LenProperties
    <3>2. PICK m \in Nat : m = Len(p)
      BY <3>1
    <3>3. \A j \in Nat : j \in 1..m <=> j \in 1..n
      BY <3>1, <3>2
    <3>4. (m >= 1 => m <= n) /\ (n >= 1 => n <= m)
      BY <2>2, <3>2, <3>3
    <3> QED
      BY <2>2, <3>2, <3>4
  <2> QED
    BY <2>2, <2>3, <2>4
<1>2. ASSUME p \in Seq(Names), Len(p) <= MaxDepth PROVE p \in Paths
  <2>1. p \in [1..Len(p) -> Names] /\ Len(p) \in 0..MaxDepth
    BY <1>2, LenProperties, PathAssumption
  <2> QED
    BY <2>1 DEF Paths
<1> QED
  BY <1>1, <1>2
\* A path put behind another.
LEMMA JoinIs ==
  ASSUME NEW S, NEW p \in Seq(S), NEW q \in Seq(S)
  PROVE  /\ p \o q \in Seq(S) /\ Len(p \o q) = Len(p) + Len(q)
         /\ \A j \in 1..Len(p) : (p \o q)[j] = p[j]
         /\ \A j \in 1..Len(q) : (p \o q)[Len(p) + j] = q[j]
         /\ (p # <<>> \/ q # <<>>) => p \o q # <<>>
<1>1. Len(p) \in Nat /\ Len(q) \in Nat
  BY LenProperties
<1>2. PICK s : s = p \o q
  OBVIOUS
<1>3. /\ s \in Seq(S) /\ Len(s) = Len(p) + Len(q)
      /\ \A i \in 1..Len(p) + Len(q) : s[i] = IF i <= Len(p) THEN p[i] ELSE q[i - Len(p)]
  BY <1>2, ConcatProperties
<1>4. \A j \in 1..Len(p) : s[j] = p[j]
  BY <1>1, <1>3
<1>5. \A j \in 1..Len(q) : s[Len(p) + j] = q[j]
  BY <1>1, <1>3, SMTT(30)
<1>6. (p # <<>> \/ q # <<>>) => s # <<>>
  <2>1. (Len(p) # 0 \/ Len(q) # 0) => Len(s) # 0
    BY <1>1, <1>3
  <2>2. (p = <<>> <=> Len(p) = 0) /\ (q = <<>> <=> Len(q) = 0) /\ (s = <<>> <=> Len(s) = 0)
    BY <1>3, EmptySeq
  <2> QED
    BY <2>1, <2>2
<1> QED
  BY <1>2, <1>3, <1>4, <1>5, <1>6

\* A path with a name more is a path with that name at its end, and starts with it.
LEMMA LongerIs ==
  ASSUME NEW S, NEW p \in Seq(S), NEW n \in S
  PROVE  /\ Append(p, n) \in Seq(S) \ {<<>>} /\ Len(Append(p, n)) = Len(p) + 1
         /\ Front(Append(p, n)) = p /\ StartsWith(Append(p, n), p)
<1>1. Len(p) \in Nat
  BY LenProperties
<1>2. PICK q : q = Append(p, n)
  OBVIOUS
<1>3. /\ q \in Seq(S) /\ Len(q) = Len(p) + 1 /\ q[Len(p) + 1] = n
      /\ \A j \in 1..Len(p) : q[j] = p[j]
  BY <1>2, AppendProperties
<1>4. q # <<>>
  BY <1>1, <1>3, EmptySeq
<1>5. Front(q) \in Seq(S) /\ Len(Front(q)) = Len(q) - 1 /\ \A j \in 1..Len(q) - 1 : Front(q)[j] = q[j]
  BY <1>3, <1>4, FrontIs
<1>6. Len(Front(q)) = Len(p) /\ \A j \in 1..Len(p) : Front(q)[j] = p[j]
  BY <1>1, <1>3, <1>5
<1>7. Front(q) = p
  BY <1>5, <1>6, SeqEqual
<1>8. StartsWith(q, p)
  BY <1>1, <1>3, StartsIs
<1> QED
  BY <1>2, <1>3, <1>4, <1>7, <1>8

-----------------------------------------------------------------------------
\* What is at a path of a tree is a node, also where there is no path.
LEMMA AtIsNode ==
  ASSUME NEW t, IsTree(t), NEW p
  PROVE  /\ IsNode(At(t, p))
         /\ At(t, p) # Absent => p \in Paths /\ At(t, p) = t[p]
         /\ At(t, p).kind # "absent" <=> At(t, p) # Absent
<1>1. IsNode(Absent) /\ Absent.kind = "absent"
  BY DEF IsNode, Absent, Node
<1>2. IsNode(At(t, p))
  BY <1>1 DEF At, IsTree
<1>3. At(t, p).kind # "absent" <=> At(t, p) # Absent
  BY <1>1, <1>2 DEF IsNode
<1> QED
  BY <1>2, <1>3 DEF At

\* A path with a link in it followed is a path, and still not the root.
LEMMA FollowTyped ==
  ASSUME NEW t, IsTree(t), NEW p \in Seq(Names)
  PROVE  Follow(t, p) \in Seq(Names) /\ (p # <<>> => Follow(t, p) # <<>>)
<1>1. CASE Links(t, p) = {}
  BY <1>1 DEF Follow
<1>2. CASE Links(t, p) # {}
  <2>1. PICK f : f = Min(Links(t, p))
    OBVIOUS
  <2>2. Links(t, p) \in SUBSET Nat /\ Len(p) \in Nat
    BY LenProperties DEF Links
  <2>3. f \in Links(t, p)
    BY <1>2, <2>1, <2>2, MinIn
  <2>4. f \in 0..Len(p) /\ At(t, SubSeq(p, 1, f)).kind = "link"
    BY <2>2, <2>3 DEF Links
  <2>5. PICK d : d = At(t, SubSeq(p, 1, f)).data
    OBVIOUS
  <2>6. d \in Seq(Names) /\ d # <<>>
    BY <2>4, <2>5, AtIsNode DEF IsNode
  <2>7. PICK r : r = SubSeq(p, f + 1, Len(p))
    OBVIOUS
  <2>8. r \in Seq(Names)
    BY <2>4, <2>7, RestIs
  <2>9. d \o r \in Seq(Names) /\ d \o r # <<>>
    BY <2>6, <2>8, JoinIs
  <2> QED
    BY <1>2, <2>1, <2>5, <2>7, <2>9 DEF Follow
<1> QED
  BY <1>1, <1>2

\* So is what a path leads to.
LEMMA RealTyped ==
  ASSUME NEW t, IsTree(t), NEW p \in Seq(Names)
  PROVE  Real(t, p) \in Seq(Names) /\ (p # <<>> => Real(t, p) # <<>>)
BY FollowTyped DEF Real

\* And the place of an entry.
LEMMA SpotTyped ==
  ASSUME IsTree(fs), NEW p \in Seq(Names) \ {<<>>}
  PROVE  Spot(p) \in Seq(Names) \ {<<>>} /\ Front(Spot(p)) = Real(fs, Front(p))
<1>1. Front(p) \in Seq(Names) /\ Last(p) \in Names
  BY FrontIs
<1>2. Real(fs, Front(p)) \in Seq(Names)
  BY <1>1, RealTyped
<1> QED
  BY <1>1, <1>2, LongerIs DEF Spot

\* The root is there, and no link.
LEMMA RootExists ==
  ASSUME NEW t, IsTree(t)
  PROVE  Real(t, <<>>) = <<>> /\ Exists(t, <<>>)
<1>1. Links(t, <<>>) = {}
  BY DEF Links
<1>2. Real(t, <<>>) = <<>>
  BY <1>1 DEF Real, Follow
<1>3. At(t, <<>>) # Absent
  BY DEF IsTree, IsDir, Absent, Node
<1> QED
  BY <1>1, <1>2, <1>3 DEF Exists, Status

\* A resolved path is a path, and not the root.
LEMMA ResolvedTyped ==
  ASSUME IsTree(fs), NEW p \in Seq(Names)
  PROVE  resolve_path(p) \in Seq(Names) /\ (p # <<>> => resolve_path(p) # <<>>)
<1>1. PICK l \in Nat : l = Len(p)
  BY LenProperties
<1>2. PICK T : T = {n \in 0..l : \A i \in 0..n : Exists(fs, SubSeq(p, 1, i))}
  OBVIOUS
<1>3. PICK k : k = Max(T)
  OBVIOUS
<1>4. k \in 0..l
  <2>1. SubSeq(p, 1, 0) = <<>>
    OBVIOUS
  <2>2. \A i \in 0..0 : Exists(fs, SubSeq(p, 1, i))
    <3>1. \A i \in 0..0 : i = 0
      OBVIOUS
    <3> QED
      BY <2>1, <3>1, RootExists
  <2>3. 0 \in T
    BY <1>1, <1>2, <2>2
  <2> QED
    BY <1>1, <1>2, <1>3, <2>3, MaxIn
<1>5. PICK u, v : u = SubSeq(p, 1, k) /\ v = SubSeq(p, k + 1, l)
  OBVIOUS
<1>6. u \in Seq(Names) /\ Len(u) = k /\ v \in Seq(Names) /\ Len(v) = l - k
  BY <1>1, <1>4, <1>5, CutIs, RestIs
<1>7. Real(fs, u) \in Seq(Names) /\ (u # <<>> => Real(fs, u) # <<>>)
  BY <1>6, RealTyped
<1>8. p # <<>> => u # <<>> \/ v # <<>>
  BY <1>1, <1>4, <1>6, EmptySeq
<1>9. Real(fs, u) \o v \in Seq(Names) /\ (p # <<>> => Real(fs, u) \o v # <<>>)
  BY <1>6, <1>7, <1>8, JoinIs
<1> QED
  BY <1>1, <1>2, <1>3, <1>5, <1>9 DEF resolve_path
-----------------------------------------------------------------------------
\* The directory of a path that is not too long is not too long, and a path that
\* starts with another is it, or its directory starts with it too.
LEMMA PathFront ==
  ASSUME NEW p \in Paths, p # <<>>
  PROVE  /\ Front(p) \in Paths /\ p \in Seq(Names) /\ Front(p) # p
         /\ \A q \in Seq(Names) : StartsWith(Front(p), q) => StartsWith(p, q)
         /\ \A q \in Seq(Names) : StartsWith(p, q) => p = q \/ StartsWith(Front(p), q)
<1>1. p \in Seq(Names) /\ Len(p) <= MaxDepth /\ MaxDepth \in Nat
  BY PathsAre, PathAssumption
<1>2. PICK n \in Nat : n + 1 = Len(p)
  <2>1. Len(p) \in Nat \ {0}
    BY <1>1, FrontIs
  <2> QED
    BY <2>1
<1>3. PICK f : f = Front(p)
  OBVIOUS
<1>4. f \in Seq(Names) /\ Len(f) = n /\ \A j \in 1..n : f[j] = p[j]
  BY <1>1, <1>2, <1>3, FrontIs
<1>5. f \in Paths /\ f # p
  BY <1>1, <1>2, <1>4, PathsAre
<1>6. ASSUME NEW q \in Seq(Names)
      PROVE  /\ StartsWith(f, q) => StartsWith(p, q)
             /\ StartsWith(p, q) => p = q \/ StartsWith(f, q)
  <2>1. Len(q) \in Nat
    BY LenProperties
  <2>2. /\ StartsWith(f, q) <=> Len(q) <= n /\ \A j \in 1..Len(q) : f[j] = q[j]
        /\ StartsWith(p, q) <=> Len(q) <= n + 1 /\ \A j \in 1..Len(q) : p[j] = q[j]
    BY <1>1, <1>2, <1>4, StartsIs
  <2>3. StartsWith(f, q) => StartsWith(p, q)
    BY <1>4, <2>1, <2>2
  <2>4. Len(q) <= n /\ StartsWith(p, q) => StartsWith(f, q)
    BY <1>4, <2>1, <2>2
  <2>5. Len(q) = n + 1 /\ StartsWith(p, q) => p = q
    <3>1. Len(q) = n + 1 /\ StartsWith(p, q) => Len(p) = Len(q) /\ \A j \in 1..Len(p) : p[j] = q[j]
      BY <1>2, <2>2
    <3> QED
      BY <1>1, <3>1, SeqEqual
  <2> QED
    BY <2>1, <2>2, <2>3, <2>4, <2>5
<1> QED
  BY <1>1, <1>3, <1>5, <1>6

\* Every path starts with itself and with the root, and what starts with a path
\* that starts with another starts with that.
LEMMA StartsForms ==
  ASSUME NEW p \in Seq(Names)
  PROVE  /\ StartsWith(p, p) /\ StartsWith(p, <<>>)
         /\ StartsWith(<<>>, p) => p = <<>>
         /\ \A q, r \in Seq(Names) : StartsWith(p, q) /\ StartsWith(q, r) => StartsWith(p, r)
<1>1. Len(p) \in Nat /\ <<>> \in Seq(Names) /\ Len(<<>>) = 0
  BY LenProperties, EmptySeq
<1>2. StartsWith(p, p)
  BY <1>1, StartsIs
<1>3. StartsWith(p, <<>>)
  <2>1. PICK e \in Seq(Names) : e = <<>> /\ Len(e) = 0
    BY <1>1
  <2>2. StartsWith(p, e) <=> Len(e) <= Len(p) /\ \A j \in 1..Len(e) : p[j] = e[j]
    BY StartsIs
  <2> QED
    BY <1>1, <2>1, <2>2
<1>4. StartsWith(<<>>, p) => p = <<>>
  <2>1. StartsWith(<<>>, p) => Len(p) <= Len(<<>>)
    BY <1>1, StartsIs
  <2>2. StartsWith(<<>>, p) => Len(p) = 0
    BY <1>1, <2>1
  <2> QED
    BY <2>2, EmptySeq
<1>5. ASSUME NEW q \in Seq(Names), NEW r \in Seq(Names), StartsWith(p, q), StartsWith(q, r)
      PROVE  StartsWith(p, r)
  <2>1. Len(q) \in Nat /\ Len(r) \in Nat
    BY LenProperties
  <2>2. Len(q) <= Len(p) /\ \A j \in 1..Len(q) : p[j] = q[j]
    BY <1>5, StartsIs
  <2>3. Len(r) <= Len(q) /\ \A j \in 1..Len(r) : q[j] = r[j]
    BY <1>5, StartsIs
  <2>4. Len(r) <= Len(p) /\ \A j \in 1..Len(r) : p[j] = r[j]
    BY <1>1, <2>1, <2>2, <2>3
  <2> QED
    BY <2>4, StartsIs
<1> QED
  BY <1>2, <1>3, <1>4, <1>5

-----------------------------------------------------------------------------
\* One node of a tree may be replaced by another, in a directory, a directory by a
\* directory only.
LEMMA NodeSet ==
  ASSUME NEW t, IsTree(t), NEW x \in Paths, NEW n, IsNode(n), n # Absent,
         x # <<>> => IsDir(t, Front(x)), t[x].kind = "dir" => n.kind = "dir"
  PROVE  IsTree([t EXCEPT ![x] = n])
<1>1. PICK u : u = [t EXCEPT ![x] = n]
  OBVIOUS
<1>2. t = [p \in Paths |-> t[p]] /\ u = [p \in Paths |-> IF p = x THEN n ELSE t[p]]
  BY <1>1 DEF IsTree
<1>3. \A p \in Paths : u[p] = IF p = x THEN n ELSE t[p]
  BY <1>2
<1>4. u = [p \in Paths |-> u[p]]
  BY <1>2
<1>5. \A p : IsDir(t, p) => IsDir(u, p)
  <2>1. \A p : IsDir(t, p) => p \in Paths /\ t[p].kind = "dir"
    BY DEF IsDir, At, Absent, Node
  <2> QED
    BY <1>3, <2>1 DEF IsDir, At
<1>6. ASSUME NEW p \in Paths
      PROVE  IsNode(u[p]) /\ (p # <<>> /\ u[p] # Absent => IsDir(u, Front(p)))
  <2>1. IsNode(t[p]) /\ (p # <<>> /\ t[p] # Absent => IsDir(t, Front(p)))
    BY DEF IsTree
  <2>2. IsNode(u[p])
    BY <1>3, <2>1
  <2>3. p # <<>> /\ u[p] # Absent => IsDir(t, Front(p))
    BY <1>3, <2>1
  <2> QED
    BY <1>5, <2>2, <2>3
<1>7. IsDir(u, <<>>)
  BY <1>5 DEF IsTree
<1>8. IsTree(u)
  BY <1>4, <1>6, <1>7 DEF IsTree
<1> QED
  BY <1>1, <1>8

\* A node with nothing in it may be taken away.
LEMMA NodeTaken ==
  ASSUME NEW t, IsTree(t), NEW x \in Paths, x # <<>>, Inside(t, x) = {}
  PROVE  IsTree([t EXCEPT ![x] = Absent])
<1>1. PICK u : u = [t EXCEPT ![x] = Absent]
  OBVIOUS
<1>2. t = [p \in Paths |-> t[p]] /\ u = [p \in Paths |-> IF p = x THEN Absent ELSE t[p]]
  BY <1>1 DEF IsTree
<1>3. \A p \in Paths : u[p] = IF p = x THEN Absent ELSE t[p]
  BY <1>2
<1>4. u = [p \in Paths |-> u[p]]
  BY <1>2
<1>5. \A p : p # x /\ IsDir(t, p) => IsDir(u, p)
  <2>1. \A p : IsDir(t, p) => p \in Paths /\ t[p].kind = "dir"
    BY DEF IsDir, At, Absent, Node
  <2> QED
    BY <1>3, <2>1 DEF IsDir, At
<1>6. ASSUME NEW p \in Paths
      PROVE  IsNode(u[p]) /\ (p # <<>> /\ u[p] # Absent => IsDir(u, Front(p)))
  <2>1. IsNode(t[p]) /\ (p # <<>> /\ t[p] # Absent => IsDir(t, Front(p)))
    BY DEF IsTree
  <2>2. IsNode(u[p])
    <3>1. IsNode(Absent)
      BY AtIsNode DEF At, IsNode, Absent, Node
    <3> QED
      BY <1>3, <2>1, <3>1
  <2>3. ASSUME p # <<>>, u[p] # Absent PROVE IsDir(u, Front(p))
    <3>1. t[p] # Absent
      BY <1>3, <2>3
    <3>2. p \in Seq(Names) /\ Last(p) \in Names /\ p = Append(Front(p), Last(p))
      BY <2>3, PathFront, FrontIs
    <3>3. Front(p) # x
      <4>1. Front(p) = x => Last(p) \in Inside(t, x)
        BY <3>1, <3>2 DEF Inside, At
      <4> QED
        BY <4>1
    <3> QED
      BY <1>5, <2>1, <2>3, <3>1, <3>3
  <2> QED
    BY <2>2, <2>3
<1>7. IsDir(u, <<>>)
  BY <1>5 DEF IsTree
<1>8. IsTree(u)
  BY <1>4, <1>6, <1>7 DEF IsTree
<1> QED
  BY <1>1, <1>8
\* Directories may be made at a path and above it, where nothing but directories is.
LEMMA TreeMade ==
  ASSUME IsTree(fs), NEW p \in Seq(Names), Creatable(p)
  PROVE  IsTree(Created(p))
<1>1. PICK q : q = resolve_path(p)
  OBVIOUS
<1>2. q \in Seq(Names) /\ Len(q) \in Nat
  BY <1>1, ResolvedTyped, LenProperties
<1>3. PICK u : u = Created(p)
  OBVIOUS
<1>4. u = [r \in Paths |-> IF StartsWith(q, r) /\ fs[r] = Absent THEN NewDir ELSE fs[r]]
  BY <1>1, <1>3 DEF Created
<1>5. u = [r \in Paths |-> u[r]]
  BY <1>4
<1>6. \A r : IsDir(fs, r) => IsDir(u, r)
  <2>1. \A r : IsDir(fs, r) => r \in Paths /\ fs[r].kind = "dir" /\ fs[r] # Absent
    BY DEF IsDir, At, Absent, Node
  <2> QED
    BY <1>4, <2>1 DEF IsDir, At
<1>7. \A r \in Paths : StartsWith(q, r) => IsDir(u, r)
  <2>1. ASSUME NEW r \in Paths, StartsWith(q, r) PROVE IsDir(u, r)
    <3>1. r \in Seq(Names) /\ Len(r) \in Nat
      BY PathsAre, LenProperties
    <3>2. Len(r) <= Len(q) /\ \A j \in 1..Len(r) : q[j] = r[j]
      BY <1>2, <2>1, <3>1, StartsIs
    <3>3. SubSeq(q, 1, Len(r)) = r
      <4>1. PICK n, s : n = Len(r) /\ s = SubSeq(q, 1, n)
        OBVIOUS
      <4>2. n \in 0..Len(q)
        BY <1>2, <3>1, <3>2, <4>1
      <4>3. s \in Seq(Names) /\ Len(s) = n /\ \A j \in 1..n : s[j] = q[j]
        BY <1>2, <4>1, <4>2, CutIs
      <4>4. Len(s) = Len(r) /\ \A j \in 1..Len(s) : s[j] = r[j]
        BY <3>2, <4>1, <4>3
      <4> QED
        BY <3>1, <4>1, <4>3, <4>4, SeqEqual
    <3>4. CASE Len(r) = 0
      BY <1>6, <3>1, <3>4, EmptySeq DEF IsTree
    <3>5. CASE Len(r) # 0
      <4>1. Len(r) \in 1..Len(q)
        BY <1>2, <3>1, <3>2, <3>5
      <4>2. fs[r].kind \in {"dir", "absent"}
        BY <1>1, <3>3, <4>1 DEF Creatable
      <4>3. fs[r].kind = "dir" \/ fs[r] = Absent
        BY <4>2 DEF IsTree, IsNode
      <4> QED
        BY <1>4, <1>6, <2>1, <4>3 DEF IsDir, At, NewDir, Node
    <3> QED
      BY <3>4, <3>5
  <2> QED
    BY <2>1
<1>8. ASSUME NEW r \in Paths
      PROVE  IsNode(u[r]) /\ (r # <<>> /\ u[r] # Absent => IsDir(u, Front(r)))
  <2>1. IsNode(fs[r]) /\ (r # <<>> /\ fs[r] # Absent => IsDir(fs, Front(r)))
    BY DEF IsTree
  <2>2. IsNode(u[r])
    <3>1. IsNode(NewDir)
      BY DEF IsNode, NewDir, Node
    <3> QED
      BY <1>4, <2>1, <3>1
  <2>3. ASSUME r # <<>>, u[r] # Absent PROVE IsDir(u, Front(r))
    <3>1. CASE fs[r] # Absent
      BY <1>6, <2>1, <2>3, <3>1
    <3>2. CASE fs[r] = Absent
      <4>1. StartsWith(q, r)
        BY <1>4, <2>3, <3>2
      <4>2. Front(r) \in Paths /\ r \in Seq(Names) /\ Front(r) \in Seq(Names)
        BY <2>3, PathFront, PathsAre
      <4>3. StartsWith(r, Front(r))
        BY <2>3, <4>2, PathFront, StartsForms
      <4>4. StartsWith(q, Front(r))
        BY <1>2, <4>1, <4>2, <4>3, StartsForms
      <4> QED
        BY <1>7, <4>2, <4>4
    <3> QED
      BY <3>1, <3>2
  <2> QED
    BY <2>2, <2>3
<1>9. IsDir(u, <<>>)
  BY <1>6 DEF IsTree
<1>10. IsTree(u)
  BY <1>5, <1>8, <1>9 DEF IsTree
<1> QED
  BY <1>3, <1>10

\* What of a path lies behind the beginning it has in common with another.
LEMMA SuffixIs ==
  ASSUME NEW q \in Seq(Names), NEW r \in Seq(Names), StartsWith(r, q)
  PROVE  /\ Suffix(r, q) \in Seq(Names) /\ (r = q => Suffix(r, q) = <<>>)
         /\ (r # q => Suffix(r, q) # <<>> /\ r # <<>>
                      /\ Suffix(Front(r), q) = Front(Suffix(r, q)))
<1>1. PICK m \in Nat : m = Len(q)
  BY LenProperties
<1>2. PICK n \in Nat : n = Len(r)
  BY LenProperties
<1>3. m <= n /\ \A j \in 1..m : r[j] = q[j]
  BY <1>1, <1>2, StartsIs
<1>4. PICK s : s = Suffix(r, q)
  OBVIOUS
<1>5. m \in 0..Len(r) /\ s = SubSeq(r, m + 1, Len(r))
  BY <1>1, <1>2, <1>3, <1>4 DEF Suffix
<1>6. s \in Seq(Names) /\ Len(s) = n - m /\ \A j \in 1..n - m : s[j] = r[m + j]
  BY <1>2, <1>5, RestIs
<1>7. r = q => s = <<>>
  <2>1. r = q => Len(s) = 0
    BY <1>1, <1>2, <1>6
  <2> QED
    BY <1>6, <2>1, EmptySeq
<1>8. ASSUME r # q PROVE s # <<>> /\ r # <<>> /\ Suffix(Front(r), q) = Front(s)
  <2>1. m < n
    <3>1. m = n => \A j \in 1..Len(r) : r[j] = q[j]
      BY <1>2, <1>3
    <3> QED
      BY <1>1, <1>2, <1>3, <1>8, <3>1, SeqEqual
  <2>2. Len(s) # 0 /\ Len(r) # 0
    BY <1>2, <1>6, <2>1
  <2>3. s # <<>> /\ r # <<>>
    BY <1>6, <2>2, EmptySeq
  <2>4. PICK f : f = Front(r)
    OBVIOUS
  <2>5. f \in Seq(Names) /\ Len(f) = n - 1 /\ \A j \in 1..n - 1 : f[j] = r[j]
    BY <1>2, <2>3, <2>4, FrontIs
  <2>6. PICK v : v = Suffix(f, q)
    OBVIOUS
  <2>7. m \in 0..Len(f) /\ v = SubSeq(f, m + 1, Len(f))
    BY <1>1, <2>1, <2>5, <2>6 DEF Suffix
  <2>8. v \in Seq(Names) /\ Len(v) = Len(f) - m /\ \A j \in 1..Len(f) - m : v[j] = f[m + j]
    BY <2>5, <2>7, RestIs
  <2>9. PICK w : w = Front(s)
    OBVIOUS
  <2>10. w \in Seq(Names) /\ Len(w) = Len(s) - 1 /\ \A j \in 1..Len(s) - 1 : w[j] = s[j]
    BY <1>6, <2>3, <2>9, FrontIs
  <2>11. Len(v) = n - 1 - m /\ Len(w) = n - 1 - m
    BY <1>6, <2>5, <2>8, <2>10
  <2>12. \A j \in 1..n - 1 - m : v[j] = r[m + j] /\ w[j] = r[m + j]
    <3>1. ASSUME NEW j \in 1..n - 1 - m PROVE v[j] = r[m + j] /\ w[j] = r[m + j]
      <4>1. j \in 1..Len(f) - m /\ m + j \in 1..n - 1 /\ j \in 1..Len(s) - 1 /\ j \in 1..n - m
        BY <1>6, <2>5
      <4> QED
        BY <1>6, <2>5, <2>8, <2>10, <4>1
    <3> QED
      BY <3>1
  <2>13. v = w
    <3>1. Len(v) = Len(w) /\ \A j \in 1..Len(v) : v[j] = w[j]
      BY <2>11, <2>12
    <3> QED
      BY <2>8, <2>10, <3>1, SeqEqual
  <2> QED
    BY <2>3, <2>4, <2>6, <2>9, <2>13
<1> QED
  BY <1>4, <1>6, <1>7, <1>8

\* The directory of a path behind another.
LEMMA JoinFront ==
  ASSUME NEW p \in Seq(Names), NEW s \in Seq(Names), s # <<>>
  PROVE  p \o s # <<>> /\ Front(p \o s) = p \o Front(s)
<1>1. PICK m \in Nat : m = Len(p)
  BY LenProperties
<1>2. PICK n \in Nat : n = Len(s) - 1 /\ Len(s) = n + 1
  <2>1. Len(s) \in Nat \ {0}
    BY FrontIs
  <2> QED
    BY <2>1
<1>3. PICK f : f = Front(s)
  OBVIOUS
<1>4. f \in Seq(Names) /\ Len(f) = n /\ \A j \in 1..n : f[j] = s[j]
  BY <1>2, <1>3, FrontIs
<1>5. PICK a, b : a = p \o s /\ b = p \o f
  OBVIOUS
<1>6. /\ a \in Seq(Names) /\ Len(a) = m + n + 1 /\ a # <<>>
      /\ \A j \in 1..m : a[j] = p[j]
      /\ \A j \in 1..n + 1 : a[m + j] = s[j]
  <2>1. /\ a \in Seq(Names) /\ Len(a) = Len(p) + Len(s) /\ a # <<>>
        /\ \A j \in 1..Len(p) : a[j] = p[j]
        /\ \A j \in 1..Len(s) : a[Len(p) + j] = s[j]
    BY <1>5, JoinIs
  <2> QED
    BY <1>1, <1>2, <2>1
<1>7. /\ b \in Seq(Names) /\ Len(b) = m + n
      /\ \A j \in 1..m : b[j] = p[j]
      /\ \A j \in 1..n : b[m + j] = f[j]
  <2>1. f \in Seq(Names) /\ b = p \o f
    BY <1>4, <1>5
  <2>2. /\ b \in Seq(Names) /\ Len(b) = Len(p) + Len(f)
        /\ \A j \in 1..Len(p) : b[j] = p[j]
        /\ \A j \in 1..Len(f) : b[Len(p) + j] = f[j]
    BY <2>1, JoinIs
  <2> QED
    BY <1>1, <1>4, <2>2
<1>8. PICK g : g = Front(a)
  OBVIOUS
<1>9. g \in Seq(Names) /\ Len(g) = m + n /\ \A j \in 1..m + n : g[j] = a[j]
  <2>1. g \in Seq(Names) /\ Len(g) = Len(a) - 1 /\ \A j \in 1..Len(a) - 1 : g[j] = a[j]
    BY <1>6, <1>8, FrontIs
  <2>2. Len(a) - 1 = m + n
    BY <1>6
  <2> QED
    BY <2>1, <2>2
<1>10. \A j \in 1..m + n : g[j] = b[j]
  <2>1. ASSUME NEW j \in 1..m + n PROVE g[j] = b[j]
    <3>1. CASE j \in 1..m
      BY <1>6, <1>7, <1>9, <3>1
    <3>2. CASE ~(j \in 1..m)
      <4>1. PICK i \in 1..n : j = m + i
        <5>1. j - m \in 1..n /\ j = m + (j - m)
          BY <3>2
        <5> QED
          BY <5>1
      <4>2. g[j] = a[m + i] /\ a[m + i] = s[i]
        BY <1>6, <1>9, <4>1
      <4>3. b[j] = f[i] /\ f[i] = s[i]
        BY <1>4, <1>7, <4>1
      <4> QED
        BY <4>2, <4>3
    <3> QED
      BY <3>1, <3>2
  <2> QED
    BY <2>1
<1>11. g = b
  BY <1>7, <1>9, <1>10, SeqEqual
<1> QED
  BY <1>3, <1>5, <1>6, <1>8, <1>11

\* A tree may be moved to a place in a directory that is not inside it.
LEMMA TreeMoved ==
  ASSUME IsTree(fs), NEW p \in Seq(Names) \ {<<>>}, NEW q \in Seq(Names) \ {<<>>},
         Renameable(p, q)
  PROVE  IsTree(Renamed(p, q))
<1>1. /\ q \in Paths /\ IsDir(fs, Front(q)) /\ ~StartsWith(q, p)
  BY DEF Renameable
<1>2. PICK u : u = Renamed(p, q)
  OBVIOUS
<1>3. u = [r \in Paths |-> IF StartsWith(r, q) THEN At(fs, p \o Suffix(r, q))
                           ELSE IF StartsWith(r, p) THEN Absent ELSE fs[r]]
  BY <1>2 DEF Renamed
<1>4. u = [r \in Paths |-> u[r]]
  BY <1>3
<1>5. \A r \in Paths : ~StartsWith(r, q) /\ ~StartsWith(r, p) => u[r] = fs[r]
  BY <1>3
<1>6. <<>> \in Paths /\ <<>> \in Seq(Names)
  <2>1. PICK e : e = <<>>
    OBVIOUS
  <2>2. e \in Seq(Names) /\ Len(e) = 0
    BY <2>1, EmptySeq
  <2>3. Len(e) <= MaxDepth
    BY <2>2, PathAssumption
  <2>4. e \in Paths
    BY <2>2, <2>3, PathsAre
  <2> QED
    BY <2>1, <2>2, <2>4
<1>7. IsDir(u, <<>>)
  BY <1>5, <1>6, StartsForms DEF IsTree, IsDir, At
<1>8. ASSUME NEW r \in Paths
      PROVE  IsNode(u[r]) /\ (r # <<>> /\ u[r] # Absent => IsDir(u, Front(r)))
  <2>1. IsNode(u[r])
    <3>1. IsNode(Absent)
      BY DEF IsNode, Absent, Node
    <3>2. \A s : IsNode(At(fs, s)) /\ IsNode(fs[r])
      BY AtIsNode DEF IsTree
    <3> QED
      BY <1>3, <3>1, <3>2
  <2>2. ASSUME r # <<>>, u[r] # Absent PROVE IsDir(u, Front(r))
    <3>1. /\ Front(r) \in Paths /\ r \in Seq(Names)
          /\ \A s \in Seq(Names) : StartsWith(Front(r), s) => StartsWith(r, s)
          /\ \A s \in Seq(Names) : StartsWith(r, s) => r = s \/ StartsWith(Front(r), s)
      BY <2>2, PathFront
    <3>2. CASE ~StartsWith(r, q)
      <4>1. ~StartsWith(r, p) /\ u[r] = fs[r]
        BY <1>3, <2>2, <3>2
      <4>2. IsDir(fs, Front(r))
        BY <2>2, <4>1 DEF IsTree
      <4>3. u[Front(r)] = fs[Front(r)]
        BY <1>5, <3>1, <3>2, <4>1
      <4> QED
        BY <3>1, <4>2, <4>3 DEF IsDir, At
    <3>3. CASE r = q
      <4>1. ~StartsWith(Front(q), q)
        <5>1. /\ q \in Seq(Names) /\ Len(q) \in Nat \ {0}
              /\ Front(q) \in Seq(Names) /\ Len(Front(q)) = Len(q) - 1
          BY FrontIs
        <5>2. StartsWith(Front(q), q) => Len(q) <= Len(Front(q))
          BY <5>1, StartsIs
        <5> QED
          BY <5>1, <5>2
      <4>2. ~StartsWith(Front(q), p)
        BY <1>1, <3>1, <3>3
      <4>3. u[Front(q)] = fs[Front(q)]
        BY <1>5, <3>1, <3>3, <4>1, <4>2
      <4> QED
        BY <1>1, <3>1, <3>3, <4>3 DEF IsDir, At
    <3>4. CASE StartsWith(r, q) /\ r # q
      <4>1. StartsWith(Front(r), q)
        BY <3>1, <3>4
      <4>2. PICK s : s = Suffix(r, q)
        OBVIOUS
      <4>3. s \in Seq(Names) /\ s # <<>> /\ Suffix(Front(r), q) = Front(s)
        BY <3>1, <3>4, <4>2, SuffixIs
      <4>4. p \o s # <<>> /\ Front(p \o s) = p \o Front(s)
        BY <4>3, JoinFront
      <4>5. At(fs, p \o s) # Absent
        BY <1>3, <2>2, <3>4, <4>2
      <4>6. IsDir(fs, Front(p \o s))
        BY <4>4, <4>5 DEF IsTree, At
      <4>7. u[Front(r)] = At(fs, p \o Front(s))
        BY <1>3, <3>1, <4>1, <4>3
      <4> QED
        BY <3>1, <4>4, <4>6, <4>7 DEF IsDir, At
    <3> QED
      BY <3>2, <3>3, <3>4
  <2> QED
    BY <2>1, <2>2
<1>9. IsTree(u)
  BY <1>4, <1>7, <1>8 DEF IsTree
<1> QED
  BY <1>2, <1>9
\* The bits of a mode are a number of three octal digits.
LEMMA OctalIs ==
  ASSUME NEW perms
  PROVE  permissions_to_octal(perms) \in 0..511
<1> DEFINE bit(i, v) == IF i \in perms THEN v ELSE 0
<1>1. /\ bit(8, 256) \in 0..256 /\ bit(7, 128) \in 0..128 /\ bit(6, 64) \in 0..64
      /\ bit(5, 32) \in 0..32 /\ bit(4, 16) \in 0..16 /\ bit(3, 8) \in 0..8
      /\ bit(2, 4) \in 0..4 /\ bit(1, 2) \in 0..2 /\ bit(0, 1) \in 0..1
  OBVIOUS
<1>2. permissions_to_octal(perms) =
        bit(8, 256) + bit(7, 128) + bit(6, 64) + bit(5, 32) + bit(4, 16) + bit(3, 8)
        + bit(2, 4) + bit(1, 2) + bit(0, 1)
  BY DEF permissions_to_octal
<1> HIDE DEF bit
<1>3. PICK a, b, c, d, e, f, g, h, i :
        /\ a = bit(8, 256) /\ b = bit(7, 128) /\ c = bit(6, 64) /\ d = bit(5, 32)
        /\ e = bit(4, 16) /\ f = bit(3, 8) /\ g = bit(2, 4) /\ h = bit(1, 2) /\ i = bit(0, 1)
  OBVIOUS
<1>4. /\ a \in 0..256 /\ b \in 0..128 /\ c \in 0..64 /\ d \in 0..32 /\ e \in 0..16
      /\ f \in 0..8 /\ g \in 0..4 /\ h \in 0..2 /\ i \in 0..1
  BY <1>1, <1>3
<1>5. a + b + c + d + e + f + g + h + i \in 0..511
  BY <1>4
<1> QED
  BY <1>2, <1>3, <1>5

\* Where nothing is, a file, a link or a directory can be put, and over a file.
LEMMA PlaceTaken ==
  ASSUME IsTree(fs), NEW x, NEW n, IsNode(n), n # Absent,
         Free(x) \/ (At(fs, x).kind = "file" /\ n.kind = "file")
  PROVE  IsTree([fs EXCEPT ![x] = n])
<1>1. x \in Paths /\ fs[x].kind # "dir" /\ (x # <<>> => IsDir(fs, Front(x)))
  <2>1. CASE Free(x)
    BY <2>1 DEF Free, Absent, Node
  <2>2. CASE At(fs, x).kind = "file"
    <3>1. x \in Paths /\ fs[x].kind = "file" /\ fs[x] # Absent
      BY <2>2 DEF At, Absent, Node
    <3> QED
      BY <3>1 DEF IsTree
  <2> QED
    BY <2>1, <2>2
<1> QED
  BY <1>1, NodeSet

-----------------------------------------------------------------------------
(***************************************************************************)
(* The tree stays a tree and calls know paths: what a call has resolved is *)
(* never the root, and what it has yet to copy lies at or below it.        *)
(***************************************************************************)
NE == Seq(Names) \ {<<>>}
Ready(c) == from[c] \in NE /\ to[c] \in NE
Within(p, q) == {e \in NE \X NE : StartsWith(e[1], p) /\ StartsWith(e[2], q)}
Due(c) == todo[c] \subseteq Within(from[c], to[c])
PathInv ==
    /\ IsTree(fs) /\ request \in Asked /\ pc \in [Calls -> States]
    /\ from = [c \in Calls |-> from[c]] /\ to = [c \in Calls |-> to[c]]
    /\ todo = [c \in Calls |-> todo[c]]
    /\ \A c \in Calls : /\ pc[c] = "start" => todo[c] = {}
                        /\ pc[c] \notin {"start", "done"} => Ready(c)
                        /\ Due(c)

\* What a request names is resolved to a path that is not the root.
LEMMA BothResolved ==
  ASSUME PathInv, NEW c \in Calls
  PROVE  Source(c) \in NE /\ Target(c) \in NE
<1>1. normal(request[c].from) \in NE /\ normal(request[c].to) \in NE
  BY PathAssumption DEF PathInv, NE
<1> QED
  BY <1>1, ResolvedTyped DEF Source, Target, PathInv, NE

\* An entry to copy lies at a place, and goes to one.
LEMMA CopyPlaces ==
  ASSUME PathInv, NEW e \in NE \X NE
  PROVE  /\ IsNode(Lstat(e[1])) /\ Goal(e) \in NE
         /\ Spot(e[1]) \in NE /\ Spot(e[2]) \in NE /\ Spot(Goal(e)) \in NE
<1>1. e[1] \in NE /\ e[2] \in NE /\ IsTree(fs)
  BY DEF PathInv
<1>2. Last(e[1]) \in Names
  BY <1>1, FrontIs DEF NE
<1>3. Append(e[2], Last(e[1])) \in NE
  BY <1>1, <1>2, LongerIs DEF NE
<1>4. Goal(e) \in NE
  BY <1>1, <1>3 DEF Goal
<1> QED
  BY <1>1, <1>4, AtIsNode, SpotTyped DEF Lstat, NE

\* To copy an entry puts it where nothing is, or a file where a file is.
LEMMA CopiedForm ==
  ASSUME PathInv, NEW c \in Calls, NEW e \in NE \X NE, CanCopy(c, e)
  PROVE  \/ Copied(c, e) = fs
         \/ \E x, n : /\ Copied(c, e) = [fs EXCEPT ![x] = n] /\ IsNode(n) /\ n # Absent
                      /\ Free(x) \/ (At(fs, x).kind = "file" /\ n.kind = "file")
<1>1. PICK n : n = Lstat(e[1])
  OBVIOUS
<1>2. IsTree(fs) /\ IsNode(n)
  BY <1>1, CopyPlaces DEF PathInv
<1>3. PICK x : x = IF Room(Goal(e)) THEN Spot(Goal(e)) ELSE Real(fs, Goal(e))
  OBVIOUS
<1>4. CASE n.kind = "dir" /\ (Status(fs, e[2]).kind = "dir" \/ ~Deep(c))
  BY <1>1, <1>4 DEF Copied
<1>5. CASE ~(n.kind = "dir" /\ (Status(fs, e[2]).kind = "dir" \/ ~Deep(c)))
  <2>1. Copied(c, e) = [fs EXCEPT ![x] = n]
    BY <1>1, <1>3, <1>5 DEF Copied
  <2>2. n # Absent /\ (Free(x) \/ (At(fs, x).kind = "file" /\ n.kind = "file"))
    <3>1. CASE n.kind = "dir"
      <4>1. Room(e[2]) /\ Goal(e) = e[2]
        BY <1>1, <1>5, <3>1 DEF CanCopy, Goal
      <4> QED
        BY <1>3, <3>1, <4>1 DEF Room, Absent, Node
    <3>2. CASE n.kind = "file"
      <4>1. \/ Room(Goal(e))
            \/ At(fs, Real(fs, Goal(e))).kind = "file" \/ Free(Real(fs, Goal(e)))
        BY <1>1, <3>2 DEF CanCopy
      <4> QED
        BY <1>3, <3>2, <4>1 DEF Room, Absent, Node
    <3>3. CASE n.kind \notin {"dir", "file"}
      <4>1. n.kind = "link" /\ Room(e[2]) /\ Goal(e) = e[2]
        BY <1>1, <3>3 DEF CanCopy, Goal
      <4> QED
        BY <1>3, <4>1 DEF Room, Absent, Node
    <3> QED
      BY <3>1, <3>2, <3>3
  <2> QED
    BY <1>2, <2>1, <2>2
<1> QED
  BY <1>4, <1>5

\* A tree with an entry copied is a tree, with all the directories it had.
LEMMA TreeCopied ==
  ASSUME PathInv, NEW c \in Calls, NEW e \in NE \X NE, CanCopy(c, e)
  PROVE  /\ IsTree(Copied(c, e))
         /\ \A p : IsDir(fs, p) => IsDir(Copied(c, e), p)
         /\ \A p \in Paths : Copied(c, e)[p] = Absent => fs[p] = Absent
<1>1. IsTree(fs)
  BY DEF PathInv
<1>2. CASE Copied(c, e) = fs
  BY <1>1, <1>2
<1>3. ASSUME NEW x, NEW n, Copied(c, e) = [fs EXCEPT ![x] = n], IsNode(n), n # Absent,
             Free(x) \/ (At(fs, x).kind = "file" /\ n.kind = "file")
      PROVE  /\ IsTree(Copied(c, e))
             /\ \A p : IsDir(fs, p) => IsDir(Copied(c, e), p)
             /\ \A p \in Paths : Copied(c, e)[p] = Absent => fs[p] = Absent
  <2>1. PICK u : u = [fs EXCEPT ![x] = n]
    OBVIOUS
  <2>2. IsTree(u)
    BY <1>1, <1>3, <2>1, PlaceTaken
  <2>3. \A p \in Paths : u[p] = IF p = x THEN n ELSE fs[p]
    BY <1>1, <2>1 DEF IsTree
  <2>4. ~IsDir(fs, x)
    BY <1>3 DEF Free, IsDir, At, Absent, Node
  <2>5. \A p : IsDir(fs, p) => IsDir(u, p)
    <3>1. \A p : IsDir(fs, p) => p \in Paths
      BY DEF IsDir, At, Absent, Node
    <3> QED
      BY <2>3, <2>4, <3>1 DEF IsDir, At
  <2> QED
    BY <1>3, <2>1, <2>2, <2>3, <2>5
<1> QED
  BY <1>2, <1>3, CopiedForm

\* The entries of a directory that is copied lie below where it lies.
LEMMA EntriesBelow ==
  ASSUME PathInv, NEW c \in Calls, pc[c] = "copy", NEW e \in todo[c], NEW d \in Entries(c, e)
  PROVE  d \in Within(from[c], to[c])
<1>1. e \in NE \X NE /\ StartsWith(e[1], from[c]) /\ StartsWith(e[2], to[c])
  BY DEF PathInv, Due, Within
<1>2. e[1] \in NE /\ e[2] \in NE /\ from[c] \in NE /\ to[c] \in NE
  BY <1>1 DEF PathInv, Ready
<1>3. PICK n \in Names : d = <<Append(e[1], n), Append(e[2], n)>>
  BY DEF Entries, Inside
<1>4. /\ d[1] \in NE /\ StartsWith(d[1], e[1])
      /\ d[2] \in NE /\ StartsWith(d[2], e[2])
  BY <1>2, <1>3, LongerIs DEF NE
<1>5. d \in NE \X NE
  BY <1>3, <1>4
<1>6. StartsWith(d[1], from[c])
  BY <1>1, <1>2, <1>4, StartsForms DEF NE
<1>7. StartsWith(d[2], to[c])
  BY <1>1, <1>2, <1>4, StartsForms DEF NE
<1> QED
  BY <1>5, <1>6, <1>7 DEF Within
\* What a step may do to a call: change the tree to a tree, and what it knows.
LEMMA StepOfOne ==
  ASSUME PathInv, NEW c \in Calls, IsTree(fs'), request' = request,
         NEW s \in States, NEW p, NEW q, NEW T,
         pc' = [pc EXCEPT ![c] = s], from' = [from EXCEPT ![c] = p], to' = [to EXCEPT ![c] = q],
         todo' = [todo EXCEPT ![c] = T],
         s = "start" => T = {}, s \notin {"start", "done"} => p \in NE /\ q \in NE,
         T \subseteq Within(p, q)
  PROVE  PathInv'
<1>1. /\ pc' \in [Calls -> States] /\ request' \in Asked
      /\ \A d \in Calls : pc'[d] = IF d = c THEN s ELSE pc[d]
  BY DEF PathInv
<1>2. /\ from' = [d \in Calls |-> from'[d]] /\ to' = [d \in Calls |-> to'[d]]
      /\ todo' = [d \in Calls |-> todo'[d]]
      /\ \A d \in Calls : /\ from'[d] = IF d = c THEN p ELSE from[d]
                          /\ to'[d] = IF d = c THEN q ELSE to[d]
                          /\ todo'[d] = IF d = c THEN T ELSE todo[d]
  <2>1. /\ from' = [d \in Calls |-> IF d = c THEN p ELSE from[d]]
        /\ to' = [d \in Calls |-> IF d = c THEN q ELSE to[d]]
        /\ todo' = [d \in Calls |-> IF d = c THEN T ELSE todo[d]]
    BY DEF PathInv
  <2> QED
    BY <2>1
<1>3. ASSUME NEW d \in Calls
      PROVE  /\ pc'[d] = "start" => todo'[d] = {}
             /\ pc'[d] \notin {"start", "done"} => Ready(d)'
             /\ Due(d)'
  <2>1. CASE d = c
    BY <1>1, <1>2, <2>1 DEF Ready, Due
  <2>2. CASE d # c
    <3>1. /\ pc'[d] = pc[d] /\ from'[d] = from[d] /\ to'[d] = to[d] /\ todo'[d] = todo[d]
      BY <1>1, <1>2, <2>2
    <3> QED
      BY <3>1 DEF PathInv, Ready, Due
  <2> QED
    BY <2>1, <2>2
<1> QED
  BY <1>1, <1>2, <1>3 DEF PathInv

\* A step that leaves what a call has resolved alone.
LEMMA StepOn ==
  ASSUME PathInv, NEW c \in Calls, IsTree(fs'), request' = request, UNCHANGED <<from, to>>,
         NEW s \in States \ {"start"}, NEW T,
         pc[c] \notin {"start", "done"} \/ s = "done",
         pc' = [pc EXCEPT ![c] = s], todo' = [todo EXCEPT ![c] = T],
         T \subseteq Within(from[c], to[c])
  PROVE  PathInv'
<1>1. from' = [from EXCEPT ![c] = from[c]] /\ to' = [to EXCEPT ![c] = to[c]]
  BY DEF PathInv
<1>2. s \notin {"start", "done"} => from[c] \in NE /\ to[c] \in NE
  BY DEF PathInv, Ready
<1> QED
  BY <1>1, <1>2, StepOfOne

\* A step that leaves what is due alone too.
LEMMA StepBare ==
  ASSUME PathInv, NEW c \in Calls, IsTree(fs'), request' = request, UNCHANGED <<from, to, todo>>,
         NEW s \in States \ {"start"},
         pc[c] \notin {"start", "done"} \/ s = "done", pc' = [pc EXCEPT ![c] = s]
  PROVE  PathInv'
<1>1. todo' = [todo EXCEPT ![c] = todo[c]] /\ todo[c] \subseteq Within(from[c], to[c])
  BY DEF PathInv, Due
<1> QED
  BY <1>1, StepOn

\* A step that resolves the paths of a call.
LEMMA StepResolves ==
  ASSUME PathInv, NEW c \in Calls, pc[c] = "start", Resolved(c), IsTree(fs'),
         request' = request, UNCHANGED todo, NEW s \in States \ {"start"},
         pc' = [pc EXCEPT ![c] = s]
  PROVE  PathInv'
<1>1. todo' = [todo EXCEPT ![c] = {}]
  BY DEF PathInv
<1>2. Source(c) \in NE /\ Target(c) \in NE /\ {} \subseteq Within(Source(c), Target(c))
  BY BothResolved
<1> QED
  BY <1>1, <1>2, StepOfOne DEF Resolved
\* Each tool keeps it.  A call whose path leads nowhere ends.
LEMMA MissingKeeps == ASSUME PathInv, NEW c \in Calls, Missing(c), request' = request PROVE PathInv'
<1>1. pc' = [pc EXCEPT ![c] = "done"] /\ UNCHANGED <<fs, from, to, todo>> /\ IsTree(fs)
  BY DEF Missing, Throw, Return, PathInv
<1> QED
  BY <1>1, StepBare DEF States

\* fs_stat only looks.
LEMMA StatKeeps == ASSUME PathInv, NEW c \in Calls, Stat(c), request' = request PROVE PathInv'
<1>1. /\ pc[c] = "start" /\ Resolved(c) /\ pc' = [pc EXCEPT ![c] = "done"]
      /\ UNCHANGED <<fs, todo>> /\ IsTree(fs)
  BY DEF Stat, Starts, Return, PathInv
<1> QED
  BY <1>1, StepResolves DEF States

\* fs_chmod and fs_mkdir resolve their path.
LEMMA BeginKeeps == ASSUME PathInv, NEW c \in Calls, Begin(c), request' = request PROVE PathInv'
<1>1. PICK t \in {"chmod", "mkdir"} : Starts(c, t) /\ Goto(c, t)
  BY DEF Begin
<1>2. /\ pc[c] = "start" /\ Resolved(c) /\ pc' = [pc EXCEPT ![c] = t]
      /\ UNCHANGED <<fs, todo>> /\ IsTree(fs)
  BY <1>1 DEF Begin, Starts, Goto, PathInv
<1>3. t \in States \ {"start"}
  BY DEF States
<1> QED
  BY <1>2, <1>3, StepResolves

\* fs_chmod changes the mode of what is there.
LEMMA ChmodKeeps == ASSUME PathInv, NEW c \in Calls, Chmod(c), request' = request PROVE PathInv'
<1>1. /\ pc' = [pc EXCEPT ![c] = "done"] /\ UNCHANGED <<from, to, todo>> /\ IsTree(fs)
  BY DEF Chmod, Return, Keep, PathInv
<1>2. IsTree(fs')
  <2>1. PICK x, m : /\ x = Real(fs, from[c])
                    /\ m = permissions_to_octal(octal_to_permissions(request[c].octal))
    OBVIOUS
  <2>2. m \in 0..511
    BY <2>1, OctalIs
  <2>3. Exists(fs, from[c]) => x \in Paths /\ fs[x] # Absent
    <3>1. Exists(fs, from[c]) => At(fs, x) # Absent
      BY <2>1 DEF Exists, Status
    <3> QED
      BY <3>1 DEF At
  <2>4. CASE fs' = fs
    BY <1>1, <2>4
  <2>5. CASE Exists(fs, from[c]) /\ fs' = [fs EXCEPT ![x].mode = m]
    <3>1. PICK n : n = Node(fs[x].kind, fs[x].data, m)
      OBVIOUS
    <3>2. /\ IsNode(fs[x]) /\ (x # <<>> => IsDir(fs, Front(x))) /\ fs = [p \in Paths |-> fs[p]]
          /\ x \in Paths /\ fs[x] # Absent
      BY <1>1, <2>3, <2>5 DEF IsTree
    <3>3. fs[x] = Node(fs[x].kind, fs[x].data, fs[x].mode)
      BY <3>2 DEF IsNode
    <3>4. [fs[x] EXCEPT !.mode = m] = n
      BY <3>1, <3>3 DEF Node
    <3>5. fs' = [fs EXCEPT ![x] = n]
      BY <2>5, <3>2, <3>4
    <3>6. n.kind = fs[x].kind /\ n.data = fs[x].data /\ n.mode = m
      BY <3>1 DEF Node
    <3>7. n.kind \in {"dir", "file", "link"}
      BY <3>2, <3>6 DEF IsNode
    <3>8. IsNode(n) /\ n # Absent
      <4>1. n = Node(n.kind, n.data, n.mode)
        BY <3>1, <3>6
      <4>2. n.kind = "link" => n.data \in Seq(Names) \ {<<>>}
        BY <3>2, <3>6 DEF IsNode
      <4> QED
        BY <2>2, <3>6, <3>7, <4>1, <4>2 DEF IsNode, Absent, Node
    <3>9. IsTree([fs EXCEPT ![x] = n])
      BY <1>1, <3>2, <3>6, <3>8, NodeSet
    <3> QED
      BY <3>5, <3>9
  <2> QED
    BY <2>1, <2>4, <2>5 DEF Chmod
<1> QED
  BY <1>1, <1>2, StepBare DEF States

\* fs_mkdir makes directories.
LEMMA MkdirKeeps == ASSUME PathInv, NEW c \in Calls, Mkdir(c), request' = request PROVE PathInv'
<1>1. /\ pc[c] = "mkdir" /\ pc' = [pc EXCEPT ![c] = "done"]
      /\ UNCHANGED <<from, to, todo>> /\ IsTree(fs)
  BY DEF Mkdir, Return, Keep, PathInv
<1>2. IsTree(fs')
  <2>1. from[c] \in Seq(Names)
    BY <1>1 DEF PathInv, Ready, NE
  <2>2. fs' = fs \/ (Creatable(from[c]) /\ fs' = Created(from[c]))
    BY DEF Mkdir
  <2> QED
    BY <1>1, <2>1, <2>2, TreeMade
<1> QED
  BY <1>1, <1>2, StepBare DEF States

\* fs_copy and fs_move resolve both paths.
LEMMA LookKeeps == ASSUME PathInv, NEW c \in Calls, Look(c), request' = request PROVE PathInv'
<1>1. pc[c] = "start" /\ IsTree(fs)
  BY DEF Look, Starts, PathInv
<1>2. CASE Accepted(c)
  <2>1. Resolved(c) /\ pc' = [pc EXCEPT ![c] = "parents"] /\ UNCHANGED <<fs, todo>>
    BY <1>2 DEF Look, Goto
  <2> QED
    BY <1>1, <2>1, StepResolves DEF States
<1>3. CASE ~Accepted(c)
  <2>1. pc' = [pc EXCEPT ![c] = "done"] /\ UNCHANGED <<fs, from, to, todo>>
    BY <1>3 DEF Look, Throw, Return
  <2> QED
    BY <1>1, <2>1, StepBare DEF States
<1> QED
  BY <1>2, <1>3

\* What is to be copied is the source, to the destination.
LEMMA DueAtFirst ==
  ASSUME PathInv, NEW c \in Calls, pc[c] \notin {"start", "done"}
  PROVE  {<<from[c], to[c]>>} \subseteq Within(from[c], to[c]) /\ {} \subseteq Within(from[c], to[c])
<1>1. from[c] \in NE /\ to[c] \in NE
  BY DEF PathInv, Ready
<1>2. StartsWith(from[c], from[c]) /\ StartsWith(to[c], to[c])
  BY <1>1, StartsForms DEF NE
<1> QED
  BY <1>1, <1>2 DEF Within

\* The directories above the destination are made.
LEMMA CreateParentsKeeps ==
  ASSUME PathInv, NEW c \in Calls, CreateParents(c), request' = request PROVE PathInv'
<1>1. pc[c] = "parents" /\ pc[c] \notin {"start", "done"} /\ IsTree(fs)
  BY DEF CreateParents, PathInv
<1>2. PICK p : p = Front(to[c])
  OBVIOUS
<1>3. p \in Seq(Names)
  BY <1>1, <1>2, FrontIs DEF PathInv, Ready, NE
<1>4. CASE request[c].parents /\ ~Creatable(p)
  <2>1. pc' = [pc EXCEPT ![c] = "done"] /\ UNCHANGED <<fs, from, to, todo>>
    BY <1>2, <1>4 DEF CreateParents, Throw, Return
  <2> QED
    BY <1>1, <2>1, StepBare DEF States
<1>5. CASE ~(request[c].parents /\ ~Creatable(p))
  <2>1. PICK s \in {"copy", "clear", "rename"} : pc' = [pc EXCEPT ![c] = s]
    BY <1>2, <1>5 DEF CreateParents, Goto
  <2>2. PICK T \in {{<<from[c], to[c]>>}, {}} : todo' = [todo EXCEPT ![c] = T]
    BY <1>2, <1>5 DEF CreateParents
  <2>3. UNCHANGED <<from, to>>
    BY <1>2, <1>5 DEF CreateParents, Keep
  <2>4. fs' = IF request[c].parents THEN Created(p) ELSE fs
    BY <1>2, <1>5 DEF CreateParents
  <2>5. IsTree(fs')
    <3>1. CASE request[c].parents
      BY <1>1, <1>3, <1>5, <2>4, <3>1, TreeMade
    <3>2. CASE ~request[c].parents
      BY <1>1, <2>4, <3>2
    <3> QED
      BY <3>1, <3>2
  <2>6. T \subseteq Within(from[c], to[c]) /\ s \in States \ {"start"}
    BY <1>1, <2>1, <2>2, DueAtFirst DEF States
  <2> QED
    BY <1>1, <2>1, <2>2, <2>3, <2>5, <2>6, StepOn
<1> QED
  BY <1>4, <1>5

\* A removal takes away what has nothing in it.
LEMMA RemovalTyped ==
  ASSUME PathInv, NEW c \in Calls, NEW p \in NE, NEW next \in BOOLEAN, RemoveAll(c, p, next)
  PROVE  IsTree(fs') /\ (next \/ UNCHANGED pc \/ pc' = [pc EXCEPT ![c] = "done"])
<1>1. IsTree(fs)
  BY DEF PathInv
<1>2. CASE ~Exists(fs, p) /\ next /\ UNCHANGED fs
  BY <1>1, <1>2
<1>3. CASE MayFail /\ Return(c, "error") /\ UNCHANGED fs
  BY <1>1, <1>3 DEF Return
<1>4. ASSUME NEW q \in Below(fs, Spot(p)), Inside(fs, q) = {}, fs' = [fs EXCEPT ![q] = Absent],
             IF q = Spot(p) THEN next ELSE UNCHANGED <<pc, result>>
      PROVE  IsTree(fs') /\ (next \/ UNCHANGED pc)
  <2>1. Spot(p) \in Seq(Names) /\ Spot(p) # <<>>
    BY <1>1, SpotTyped DEF NE
  <2>2. q \in Paths /\ StartsWith(q, Spot(p))
    BY DEF Below
  <2>3. q # <<>>
    BY <2>1, <2>2, StartsForms
  <2>4. IsTree([fs EXCEPT ![q] = Absent])
    BY <1>1, <1>4, <2>2, <2>3, NodeTaken
  <2> QED
    BY <1>4, <2>4
<1> QED
  BY <1>2, <1>3, <1>4 DEF RemoveAll

\* fs_move takes the destination away first.
LEMMA ClearKeeps == ASSUME PathInv, NEW c \in Calls, Clear(c), request' = request PROVE PathInv'
<1>1. /\ pc[c] = "clear" /\ pc[c] \notin {"start", "done"} /\ to[c] \in NE
      /\ UNCHANGED <<from, to, todo>> /\ RemoveAll(c, to[c], Goto(c, "rename"))
  BY DEF Clear, PathInv, Ready, Keep
<1>2. Goto(c, "rename") \in BOOLEAN
  BY DEF Goto
<1>3. IsTree(fs') /\ (Goto(c, "rename") \/ UNCHANGED pc \/ pc' = [pc EXCEPT ![c] = "done"])
  BY <1>1, <1>2, RemovalTyped
<1>4. PICK s \in {"rename", "clear", "done"} : pc' = [pc EXCEPT ![c] = s]
  <2>1. UNCHANGED pc => pc' = [pc EXCEPT ![c] = "clear"]
    BY <1>1 DEF PathInv
  <2> QED
    BY <1>3, <2>1 DEF Goto
<1> QED
  BY <1>1, <1>3, <1>4, StepBare DEF States

\* fs_move renames, or goes on as a copy.
LEMMA RenameKeeps == ASSUME PathInv, NEW c \in Calls, Rename(c), request' = request PROVE PathInv'
<1>1. /\ pc[c] = "rename" /\ pc[c] \notin {"start", "done"} /\ from[c] \in NE /\ to[c] \in NE
      /\ UNCHANGED <<from, to>> /\ IsTree(fs)
  BY DEF Rename, PathInv, Ready, Keep
<1>2. PICK p, q : p = Spot(from[c]) /\ q = Spot(to[c])
  OBVIOUS
<1>3. p \in Seq(Names) \ {<<>>} /\ q \in Seq(Names) \ {<<>>}
  BY <1>1, <1>2, SpotTyped DEF NE
<1>4. CASE Renameable(p, q) /\ fs' = Renamed(p, q) /\ Return(c, "ok") /\ UNCHANGED todo
  <2>1. IsTree(fs')
    BY <1>1, <1>3, <1>4, TreeMoved
  <2> QED
    BY <1>1, <1>4, <2>1, StepBare DEF Return, States
<1>5. CASE Return(c, "error") /\ UNCHANGED <<fs, todo>>
  BY <1>1, <1>5, StepBare DEF Return, States
<1>6. CASE Goto(c, "copy") /\ UNCHANGED fs /\ todo' = [todo EXCEPT ![c] = {<<from[c], to[c]>>}]
  BY <1>1, <1>6, StepOn, DueAtFirst DEF Goto, States
<1> QED
  BY <1>2, <1>4, <1>5, <1>6 DEF Rename

\* An entry is copied, and those in it are due.
LEMMA CopyEntryKeeps ==
  ASSUME PathInv, NEW c \in Calls, CopyEntry(c), request' = request PROVE PathInv'
<1>1. /\ pc[c] = "copy" /\ pc[c] \notin {"start", "done"} /\ UNCHANGED <<from, to>> /\ IsTree(fs)
      /\ todo[c] \subseteq Within(from[c], to[c])
  BY DEF CopyEntry, PathInv, Keep, Due
<1>2. CASE Return(c, "error") /\ UNCHANGED <<fs, todo>>
  BY <1>1, <1>2, StepBare DEF Return, States
<1>3. ASSUME NEW e \in todo[c], CanCopy(c, e), fs' = Copied(c, e), UNCHANGED pc,
             todo' = [todo EXCEPT ![c] = (@ \ {e}) \cup Entries(c, e)]
      PROVE  PathInv'
  <2>1. e \in NE \X NE
    BY <1>1 DEF Within
  <2>2. IsTree(fs')
    BY <1>3, <2>1, TreeCopied
  <2>3. PICK T : T = (todo[c] \ {e}) \cup Entries(c, e)
    OBVIOUS
  <2>4. T \subseteq Within(from[c], to[c])
    BY <1>1, <2>3, EntriesBelow
  <2>5. todo' = [todo EXCEPT ![c] = T] /\ pc' = [pc EXCEPT ![c] = "copy"]
    BY <1>1, <1>3, <2>3 DEF PathInv
  <2> QED
    BY <1>1, <2>2, <2>4, <2>5, StepOn DEF States
<1> QED
  BY <1>2, <1>3 DEF CopyEntry

\* A copy ends when nothing is due.
LEMMA EndCopyKeeps == ASSUME PathInv, NEW c \in Calls, EndCopy(c), request' = request PROVE PathInv'
<1>1. pc[c] = "copy" /\ UNCHANGED <<fs, from, to, todo>> /\ IsTree(fs)
  BY DEF EndCopy, PathInv, Keep
<1>2. PICK s \in {"done", "remove"} : pc' = [pc EXCEPT ![c] = s]
  BY DEF EndCopy, Return, Goto
<1> QED
  BY <1>1, <1>2, StepBare DEF States

\* fs_remove resolves its path.
LEMMA StartRemoveKeeps ==
  ASSUME PathInv, NEW c \in Calls, StartRemove(c), request' = request PROVE PathInv'
<1>1. /\ pc[c] = "start" /\ Resolved(c) /\ pc' = [pc EXCEPT ![c] = "remove"]
      /\ UNCHANGED <<fs, todo>> /\ IsTree(fs)
  BY DEF StartRemove, Starts, Goto, PathInv
<1> QED
  BY <1>1, StepResolves DEF States

\* fs_remove and the end of a move take the path away.
LEMMA RemovePathKeeps ==
  ASSUME PathInv, NEW c \in Calls, RemovePath(c), request' = request PROVE PathInv'
<1>1. /\ pc[c] = "remove" /\ pc[c] \notin {"start", "done"} /\ from[c] \in NE
      /\ UNCHANGED <<from, to, todo>> /\ IsTree(fs)
  BY DEF RemovePath, PathInv, Ready, Keep
<1>2. PICK p : p = Spot(from[c])
  OBVIOUS
<1>3. p \in Seq(Names) /\ p # <<>>
  BY <1>1, <1>2, SpotTyped DEF NE
<1>4. IsTree(fs') /\ (UNCHANGED pc \/ pc' = [pc EXCEPT ![c] = "done"])
  <2>1. CASE RemoveAll(c, from[c], Return(c, "ok"))
    <3>1. Return(c, "ok") \in BOOLEAN
      BY DEF Return
    <3> QED
      BY <1>1, <2>1, <3>1, RemovalTyped DEF Return
  <2>2. CASE ~RemoveAll(c, from[c], Return(c, "ok"))
    <3>1. pc' = [pc EXCEPT ![c] = "done"]
      BY <2>2 DEF RemovePath, Return
    <3>2. \/ fs' = fs
          \/ Lstat(from[c]) # Absent /\ Inside(fs, p) = {} /\ fs' = [fs EXCEPT ![p] = Absent]
      BY <1>2, <2>2 DEF RemovePath
    <3>3. Lstat(from[c]) # Absent => p \in Paths
      BY <1>2 DEF Lstat, At
    <3>4. IsTree(fs')
      BY <1>1, <1>3, <3>2, <3>3, NodeTaken
    <3> QED
      BY <3>1, <3>4
  <2> QED
    BY <2>1, <2>2
<1>5. PICK s \in {"remove", "done"} : pc' = [pc EXCEPT ![c] = s]
  <2>1. UNCHANGED pc => pc' = [pc EXCEPT ![c] = "remove"]
    BY <1>1 DEF PathInv
  <2> QED
    BY <1>4, <2>1
<1> QED
  BY <1>1, <1>4, <1>5, StepBare DEF States

\* Every step keeps it.
LEMMA PathNext == PathInv /\ [Next]_vars => PathInv'
<1>1. ASSUME PathInv, NEW c \in Calls, Call(c) PROVE PathInv'
  <2>1. Tool(c) /\ request' = request
    BY <1>1 DEF Call
  <2> QED
    BY <1>1, <2>1, MissingKeeps, StatKeeps, BeginKeeps, ChmodKeeps, MkdirKeeps, LookKeeps,
       CreateParentsKeeps, ClearKeeps, RenameKeeps, CopyEntryKeeps, EndCopyKeeps,
       StartRemoveKeeps, RemovePathKeeps DEF Tool
<1>2. ASSUME PathInv, UNCHANGED vars PROVE PathInv'
  BY <1>2 DEF vars, PathInv, Ready, Due
<1> QED
  BY <1>1, <1>2 DEF Next

\* It holds at the start.
LEMMA PathInit == Init => PathInv
<1> SUFFICES ASSUME Init PROVE PathInv
  OBVIOUS
<1>1. IsTree(fs) /\ request \in Asked
  BY PathAssumption DEF Init
<1>2. pc \in [Calls -> States]
  BY DEF Init, States
<1>3. /\ from = [c \in Calls |-> from[c]] /\ to = [c \in Calls |-> to[c]]
      /\ todo = [c \in Calls |-> todo[c]]
  BY DEF Init
<1>4. \A c \in Calls : pc[c] = "start" /\ todo[c] = {}
  BY DEF Init
<1> QED
  BY <1>1, <1>2, <1>3, <1>4 DEF PathInv, Due

\* Whatever the tools do, in whatever order, the tree stays a tree: what is anywhere
\* is in a directory, links name paths, and what a copy has yet to make lies below
\* its destination.
THEOREM PathTypes == Spec => []TypeOK
<1>1. PathInv => TypeOK
  BY DEF PathInv, TypeOK, Due, Within
<1> QED
  BY <1>1, PathInit, PathNext, PTL DEF Spec
-----------------------------------------------------------------------------
\* The beginnings and ends of a path behind another.
LEMMA CutJoin ==
  ASSUME NEW u \in Seq(Names), NEW v \in Seq(Names), NEW i \in 0..Len(u)
  PROVE  SubSeq(u \o v, 1, i) = SubSeq(u, 1, i)
<1>1. Len(u) \in Nat
  BY LenProperties
<1>2. CASE i = 0
  BY <1>2
<1>3. CASE i # 0
  <2>1. 1 \in 1..Len(u) /\ i \in 1..Len(u)
    BY <1>1, <1>3
  <2> QED
    BY <2>1, SubSeqOfConcat1
<1> QED
  BY <1>2, <1>3

\* Longer beginnings have the first path in them.
LEMMA CutBeyond ==
  ASSUME NEW u \in Seq(Names), NEW v \in Seq(Names), NEW j \in 0..Len(v)
  PROVE  SubSeq(u \o v, 1, Len(u) + j) = u \o SubSeq(v, 1, j)
<1>1. PICK m \in Nat : m = Len(u)
  BY LenProperties
<1>2. PICK s, x, a, b : /\ s = u \o v /\ x = SubSeq(v, 1, j)
                        /\ a = SubSeq(s, 1, m + j) /\ b = u \o x
  OBVIOUS
<1>3. /\ s \in Seq(Names) /\ Len(s) = m + Len(v) /\ Len(v) \in Nat
      /\ \A k \in 1..m : s[k] = u[k]
      /\ \A k \in 1..Len(v) : s[m + k] = v[k]
  <2>1. /\ s \in Seq(Names) /\ Len(s) = Len(u) + Len(v)
        /\ \A k \in 1..Len(u) : s[k] = u[k]
        /\ \A k \in 1..Len(v) : s[Len(u) + k] = v[k]
    BY <1>2, JoinIs
  <2> QED
    BY <1>1, <2>1, LenProperties
<1>4. /\ x \in Seq(Names) /\ Len(x) = j /\ \A k \in 1..j : x[k] = v[k]
  BY <1>2, CutIs
<1>5. /\ b \in Seq(Names) /\ Len(b) = m + j
      /\ \A k \in 1..m : b[k] = u[k]
      /\ \A k \in 1..j : b[m + k] = x[k]
  <2>1. /\ b \in Seq(Names) /\ Len(b) = Len(u) + Len(x)
        /\ \A k \in 1..Len(u) : b[k] = u[k]
        /\ \A k \in 1..Len(x) : b[Len(u) + k] = x[k]
    BY <1>2, <1>4, JoinIs
  <2> QED
    BY <1>1, <1>4, <2>1
<1>6. /\ a \in Seq(Names) /\ Len(a) = m + j /\ \A k \in 1..m + j : a[k] = s[k]
  <2>1. m + j \in 0..Len(s)
    BY <1>3
  <2> QED
    BY <1>2, <1>3, <2>1, CutIs
<1>7. ASSUME NEW k \in 1..m + j PROVE a[k] = b[k]
  <2>1. CASE k \in 1..m
    BY <1>3, <1>5, <1>6, <2>1
  <2>2. CASE k \notin 1..m
    <3>1. PICK l \in 1..j : k = m + l
      <4>1. k - m \in 1..j /\ k = m + (k - m)
        BY <2>2
      <4> QED
        BY <4>1
    <3>2. l \in 1..Len(v)
      OBVIOUS
    <3>3. a[k] = s[m + l] /\ s[m + l] = v[l]
      BY <1>3, <1>6, <3>1, <3>2
    <3>4. b[k] = x[l] /\ x[l] = v[l]
      BY <1>4, <1>5, <3>1
    <3> QED
      BY <3>3, <3>4
  <2> QED
    BY <2>1, <2>2
<1>8. a = b
  BY <1>5, <1>6, <1>7, SeqEqual
<1> QED
  BY <1>1, <1>2, <1>8

\* The end of two paths, from within the first.
LEMMA RestJoin ==
  ASSUME NEW u \in Seq(Names), NEW v \in Seq(Names), NEW i \in 0..Len(u)
  PROVE  SubSeq(u \o v, i + 1, Len(u \o v)) = SubSeq(u, i + 1, Len(u)) \o v
<1>1. PICK m \in Nat, n \in Nat : m = Len(u) /\ n = Len(v)
  BY LenProperties
<1>2. PICK s, x, a, b : /\ s = u \o v /\ x = SubSeq(u, i + 1, Len(u))
                        /\ a = SubSeq(s, i + 1, Len(s)) /\ b = x \o v
  OBVIOUS
<1>3. /\ s \in Seq(Names) /\ Len(s) = m + n
      /\ \A k \in 1..m : s[k] = u[k]
      /\ \A k \in 1..n : s[m + k] = v[k]
  <2>1. /\ s \in Seq(Names) /\ Len(s) = Len(u) + Len(v)
        /\ \A k \in 1..Len(u) : s[k] = u[k]
        /\ \A k \in 1..Len(v) : s[Len(u) + k] = v[k]
    BY <1>2, JoinIs
  <2> QED
    BY <1>1, <2>1
<1>4. x \in Seq(Names) /\ Len(x) = m - i /\ \A k \in 1..m - i : x[k] = u[i + k]
  BY <1>1, <1>2, RestIs
<1>5. /\ b \in Seq(Names) /\ Len(b) = m - i + n
      /\ \A k \in 1..m - i : b[k] = x[k]
      /\ \A k \in 1..n : b[m - i + k] = v[k]
  <2>1. x \in Seq(Names) /\ b = x \o v
    BY <1>2, <1>4
  <2>2. /\ b \in Seq(Names) /\ Len(b) = Len(x) + Len(v)
        /\ \A k \in 1..Len(x) : b[k] = x[k]
        /\ \A k \in 1..Len(v) : b[Len(x) + k] = v[k]
    BY <2>1, JoinIs
  <2> QED
    BY <1>1, <1>4, <2>2
<1>6. a \in Seq(Names) /\ Len(a) = m + n - i /\ \A k \in 1..m + n - i : a[k] = s[i + k]
  <2>1. i \in 0..Len(s)
    BY <1>1, <1>3
  <2>2. /\ a \in Seq(Names) /\ Len(a) = Len(s) - i /\ \A k \in 1..Len(s) - i : a[k] = s[i + k]
    BY <1>2, <1>3, <2>1, RestIs, SMTT(30)
  <2> QED
    BY <1>3, <2>2
<1>7. ASSUME NEW k \in 1..m + n - i PROVE a[k] = b[k]
  <2>1. CASE k \in 1..m - i
    <3>1. i + k \in 1..m
      BY <1>1, <2>1
    <3> QED
      BY <1>3, <1>4, <1>5, <1>6, <2>1, <3>1
  <2>2. CASE k \notin 1..m - i
    <3>1. PICK l \in 1..n : k = m - i + l /\ i + k = m + l
      <4>1. k - (m - i) \in 1..n /\ k = m - i + (k - (m - i)) /\ i + k = m + (k - (m - i))
        BY <1>1, <2>2
      <4> QED
        BY <4>1
    <3> QED
      BY <1>3, <1>5, <1>6, <3>1
  <2> QED
    BY <2>1, <2>2
<1>8. a = b
  <2>1. PICK l : l = m + n - i
    OBVIOUS
  <2>2. Len(a) = l /\ Len(b) = l
    BY <1>1, <1>5, <1>6, <2>1
  <2>3. \A k \in 1..l : a[k] = b[k]
    BY <1>7, <2>1
  <2> QED
    BY <1>5, <1>6, <2>2, <2>3, SeqEqual
<1> QED
  BY <1>2, <1>8

\* A path in two.
LEMMA Split ==
  ASSUME NEW p \in Seq(Names), NEW i \in 0..Len(p)
  PROVE  /\ p = SubSeq(p, 1, i) \o SubSeq(p, i + 1, Len(p))
         /\ i < Len(p) => /\ SubSeq(p, 1, i + 1) = SubSeq(p, 1, i) \o <<p[i + 1]>>
                          /\ SubSeq(p, i + 1, Len(p)) = <<p[i + 1]>> \o SubSeq(p, i + 2, Len(p))
                          /\ p[i + 1] \in Names
<1>1. PICK n \in Nat : n = Len(p)
  BY LenProperties
<1>2. p = SubSeq(p, 1, i) \o SubSeq(p, i + 1, n)
  <2>1. 1 \in 1..Len(p) + 1 /\ i \in 1 - 1..Len(p) /\ n \in i..Len(p)
    BY <1>1
  <2>2. SubSeq(p, 1, i) \o SubSeq(p, i + 1, n) = SubSeq(p, 1, n)
    BY <2>1, ConcatAdjacentSubSeq
  <2> QED
    BY <1>1, <2>2, SubSeqFull
<1>3. ASSUME i < n
      PROVE  /\ SubSeq(p, 1, i + 1) = SubSeq(p, 1, i) \o <<p[i + 1]>>
             /\ SubSeq(p, i + 1, n) = <<p[i + 1]>> \o SubSeq(p, i + 2, n) /\ p[i + 1] \in Names
  <2>1. 1 \in 1..Len(p) /\ i + 1 \in 1..Len(p) /\ n \in i + 1..Len(p)
    BY <1>1, <1>3
  <2>2. SubSeq(p, 1, i + 1) = SubSeq(p, 1, i + 1 - 1) \o <<p[i + 1]>>
    BY <2>1, SubSeqRecursiveSecond
  <2>3. SubSeq(p, i + 1, n) = <<p[i + 1]>> \o SubSeq(p, i + 1 + 1, n)
    BY <2>1, SubSeqRecursiveFirst
  <2>4. i + 1 - 1 = i /\ i + 1 + 1 = i + 2
    OBVIOUS
  <2> QED
    BY <2>1, <2>2, <2>3, <2>4, ElementOfSeq
<1> QED
  BY <1>1, <1>2, <1>3
-----------------------------------------------------------------------------
\* The links in the beginning of a path are those of the path that are there.
LEMMA LinksJoin ==
  ASSUME NEW t, NEW u \in Seq(Names), NEW v \in Seq(Names)
  PROVE  /\ \A i \in 1..Len(u) : i \in Links(t, u \o v) <=> i \in Links(t, u)
         /\ Links(t, u \o v) = {} => Links(t, u) = {}
<1>1. PICK m \in Nat, n \in Nat : m = Len(u) /\ n = Len(v)
  BY LenProperties
<1>2. Len(u \o v) = m + n
  BY <1>1, ConcatProperties
<1>3. ASSUME NEW i \in 1..m PROVE i \in Links(t, u \o v) <=> i \in Links(t, u)
  <2>1. SubSeq(u \o v, 1, i) = SubSeq(u, 1, i)
    BY <1>1, CutJoin
  <2>2. i \in 1..Len(u \o v) /\ i \in 1..Len(u)
    BY <1>1, <1>2
  <2> QED
    BY <2>1, <2>2 DEF Links
<1>4. Links(t, u) \subseteq 1..m
  BY <1>1 DEF Links
<1> QED
  BY <1>1, <1>3, <1>4

\* To follow the first link of a path is to follow it in what the path begins.
LEMMA FollowJoin ==
  ASSUME NEW t, IsTree(t), NEW u \in Seq(Names), NEW v \in Seq(Names), Links(t, u) # {}
  PROVE  Links(t, u \o v) # {} /\ Follow(t, u \o v) = Follow(t, u) \o v
<1>1. PICK m \in Nat, n \in Nat : m = Len(u) /\ n = Len(v)
  BY LenProperties
<1>2. u \o v \in Seq(Names) /\ Len(u \o v) = m + n
  BY <1>1, ConcatProperties
<1>3. Links(t, u) \subseteq 1..m /\ Links(t, u \o v) \subseteq 1..m + n
  BY <1>1, <1>2 DEF Links
<1>4. PICK f : f = Min(Links(t, u))
  OBVIOUS
<1>5. f \in Links(t, u) /\ \A y \in Links(t, u) : f <= y
  <2>1. Links(t, u) \in SUBSET Nat
    BY <1>3
  <2> QED
    BY <1>4, <2>1, MinIn
<1>6. f \in 1..m /\ f \in Links(t, u \o v)
  BY <1>1, <1>3, <1>5, LinksJoin
<1>7. PICK g : g = Min(Links(t, u \o v))
  OBVIOUS
<1>8. g \in Links(t, u \o v) /\ \A y \in Links(t, u \o v) : g <= y
  <2>1. Links(t, u \o v) \in SUBSET Nat /\ Links(t, u \o v) # {}
    BY <1>3, <1>6
  <2> QED
    BY <1>7, <2>1, MinIn
<1>9. f = g
  <2>1. g <= f /\ g \in 1..m
    BY <1>3, <1>6, <1>8
  <2>2. f <= g
    BY <1>1, <1>5, <1>8, <2>1, LinksJoin
  <2> QED
    BY <1>6, <2>1, <2>2
<1>10. PICK d, x : /\ d = At(t, SubSeq(u, 1, f)).data /\ x = SubSeq(u, f + 1, Len(u))
  OBVIOUS
<1>11. SubSeq(u \o v, 1, f) = SubSeq(u, 1, f) /\ SubSeq(u \o v, f + 1, Len(u \o v)) = x \o v
  <2>1. f \in 0..Len(u)
    BY <1>1, <1>6
  <2> QED
    BY <1>10, <2>1, CutJoin, RestJoin
<1>12. Follow(t, u) = d \o x
  BY <1>4, <1>10 DEF Follow
<1>13. Follow(t, u \o v) = d \o (x \o v)
  BY <1>6, <1>7, <1>9, <1>10, <1>11 DEF Follow
<1>14. d \in Seq(Names) /\ x \in Seq(Names)
  <2>1. At(t, SubSeq(u, 1, f)).kind = "link"
    BY <1>5 DEF Links
  <2>2. f \in 0..Len(u)
    BY <1>1, <1>6
  <2> QED
    BY <1>10, <2>1, <2>2, AtIsNode, RestIs DEF IsNode
<1>15. (d \o x) \o v = d \o (x \o v)
  BY <1>14, ConcatAssociative, SMTT(30)
<1> QED
  BY <1>6, <1>12, <1>13, <1>15

\* Where a path with more names leads through no link, its beginning does, and leads
\* where the rest goes on.
LEMMA RealJoin ==
  ASSUME NEW t, IsTree(t), NEW u \in Seq(Names), NEW v \in Seq(Names), Links(t, Real(t, u \o v)) = {}
  PROVE  Links(t, Real(t, u)) = {} /\ Real(t, Real(t, u) \o v) = Real(t, u \o v)
<1> DEFINE F(p) == Follow(t, p)
<1>1. \A p : Links(t, p) = {} => F(p) = p
  BY DEF Follow
<1>2. \A p \in Seq(Names) : F(p) \in Seq(Names)
  BY FollowTyped
<1>3. \A p \in Seq(Names) : Links(t, p) # {} => F(p \o v) = F(p) \o v
  BY FollowJoin
<1>4. \A p : Real(t, p) = F(F(F(p)))
  BY DEF Real
<1>5. PICK r : r = Real(t, u \o v)
  OBVIOUS
<1>6. F(r) = r /\ r = F(F(F(u \o v)))
  BY <1>1, <1>4, <1>5
<1>7. F(u) \in Seq(Names) /\ F(F(u)) \in Seq(Names) /\ F(F(F(u))) \in Seq(Names)
  BY <1>2
<1> HIDE DEF F
<1>8. CASE Links(t, u) = {}
  BY <1>1, <1>4, <1>8
<1>9. CASE Links(t, u) # {} /\ Links(t, F(u)) = {}
  <2>1. F(u \o v) = F(u) \o v /\ Real(t, u) = F(u)
    BY <1>1, <1>3, <1>4, <1>9
  <2>2. Real(t, F(u) \o v) = F(r)
    BY <1>4, <1>6, <2>1
  <2> QED
    BY <1>5, <1>6, <1>9, <2>1, <2>2
<1>10. CASE Links(t, u) # {} /\ Links(t, F(u)) # {} /\ Links(t, F(F(u))) = {}
  <2>1. F(F(u \o v)) = F(F(u)) \o v /\ Real(t, u) = F(F(u))
    BY <1>1, <1>3, <1>4, <1>7, <1>10
  <2>2. Real(t, F(F(u)) \o v) = F(F(r))
    BY <1>4, <1>6, <2>1
  <2> QED
    BY <1>5, <1>6, <1>10, <2>1, <2>2
<1>11. CASE Links(t, u) # {} /\ Links(t, F(u)) # {} /\ Links(t, F(F(u))) # {}
  <2>1. r = F(F(F(u))) \o v /\ Real(t, u) = F(F(F(u)))
    BY <1>3, <1>4, <1>6, <1>7, <1>11
  <2>2. Real(t, r) = r
    BY <1>4, <1>6
  <2>3. Links(t, r) = {}
    BY <1>5
  <2> QED
    BY <1>5, <1>7, <2>1, <2>2, <2>3, LinksJoin
<1> QED
  BY <1>8, <1>9, <1>10, <1>11

\* A path without links leads to itself.
LEMMA RealPlain ==
  ASSUME NEW t, NEW p, Links(t, p) = {}
  PROVE  Real(t, p) = p
<1>1. Follow(t, p) = p
  BY DEF Follow
<1> QED
  BY <1>1 DEF Real

\* What is above a path with something at it is a directory.
LEMMA Above ==
  ASSUME NEW t, IsTree(t), NEW p, At(t, p) # Absent
  PROVE  p \in Seq(Names) /\ \A i \in 0..Len(p) : i < Len(p) => IsDir(t, SubSeq(p, 1, i))
<1>1. p \in Paths
  BY DEF At
<1>2. p \in Seq(Names)
  BY <1>1, PathsAre
<1>3. PICK n \in Nat : n = Len(p)
  BY <1>2, LenProperties
<1>4. PICK T : T = {i \in 0..n : i < n /\ ~IsDir(t, SubSeq(p, 1, i))}
  OBVIOUS
<1>5. T = {}
  <2>1. SUFFICES ASSUME T # {} PROVE FALSE
    OBVIOUS
  <2>2. PICK m : m = Max(T)
    OBVIOUS
  <2>3. m \in T /\ \A y \in T : m >= y
    BY <1>4, <2>1, <2>2, MaxIn
  <2>4. m \in Nat /\ m < n /\ m + 1 \in 0..n /\ ~IsDir(t, SubSeq(p, 1, m))
    BY <1>4, <2>3
  <2>5. PICK q : q = SubSeq(p, 1, m + 1)
    OBVIOUS
  <2>6. At(t, q) # Absent
    <3>1. CASE m + 1 = n
      BY <1>2, <1>3, <2>5, <3>1, SubSeqFull
    <3>2. CASE m + 1 < n
      <4>1. m + 1 \notin T
        BY <2>3, <2>4
      <4> QED
        BY <1>4, <2>4, <2>5, <3>2, <4>1 DEF IsDir, Absent, Node
    <3> QED
      BY <2>4, <3>1, <3>2
  <2>7. q \in Seq(Names) /\ Len(q) = m + 1
    BY <1>2, <1>3, <2>4, <2>5, CutIs
  <2>8. q # <<>>
    BY <2>4, <2>7, EmptySeq
  <2>9. IsDir(t, Front(q))
    BY <2>6, <2>8 DEF IsTree, At
  <2>10. Front(q) = SubSeq(p, 1, m)
    <3>1. PICK u, x : u = SubSeq(p, 1, m) /\ x = p[m + 1]
      OBVIOUS
    <3>2. m \in 0..Len(p) /\ m < Len(p)
      BY <1>3, <2>4
    <3>3. q = u \o <<x>> /\ u \in Seq(Names) /\ x \in Names
      BY <1>2, <2>5, <3>1, <3>2, Split, CutIs
    <3>4. q = Append(u, x)
      BY <3>3, AppendIsConcat
    <3>5. Front(q) = u
      BY <3>3, <3>4, LongerIs
    <3> QED
      BY <3>1, <3>5
  <2> QED
    BY <2>4, <2>9, <2>10
<1> QED
  BY <1>2, <1>3, <1>4, <1>5

\* There are no links above it, and none at it if it is none.
LEMMA AbovePlain ==
  ASSUME NEW t, IsTree(t), NEW p \in Seq(Names) \ {<<>>}, At(t, p) # Absent
  PROVE  /\ IsDir(t, Front(p)) /\ Links(t, Front(p)) = {}
         /\ At(t, p).kind # "link" => Links(t, p) = {}
<1>1. PICK n \in Nat : n = Len(p) /\ n - 1 \in Nat
  <2>1. Len(p) \in Nat \ {0}
    BY FrontIs
  <2> QED
    BY <2>1
<1>2. \A i \in 0..n : i < n => IsDir(t, SubSeq(p, 1, i))
  BY <1>1, Above
<1>3. \A i \in 1..n : i < n => i \notin Links(t, p)
  BY <1>2 DEF Links, IsDir
<1>4. IsDir(t, Front(p))
  BY DEF IsTree, At
<1>5. /\ Front(p) \in Seq(Names) /\ Last(p) \in Names /\ p = Front(p) \o <<Last(p)>>
      /\ Len(Front(p)) = n - 1 /\ <<Last(p)>> \in Seq(Names)
  BY <1>1, FrontIs, AppendIsConcat, SMTT(30)
<1>6. Links(t, Front(p)) = {}
  <2>1. Links(t, Front(p)) \subseteq 1..n - 1
    BY <1>5 DEF Links
  <2>2. \A i \in 1..n - 1 : i \in Links(t, p) <=> i \in Links(t, Front(p))
    BY <1>5, LinksJoin
  <2> QED
    BY <1>1, <1>3, <2>1, <2>2
<1>7. At(t, p).kind # "link" => Links(t, p) = {}
  <2>1. Links(t, p) \subseteq 1..n /\ SubSeq(p, 1, n) = p
    BY <1>1, SubSeqFull DEF Links
  <2>2. At(t, p).kind # "link" => n \notin Links(t, p)
    BY <2>1 DEF Links
  <2> QED
    BY <1>1, <1>3, <2>1, <2>2
<1> QED
  BY <1>4, <1>6, <1>7
-----------------------------------------------------------------------------
\* What exists: a path that leads through no link to something.
LEMMA ExistsIs ==
  ASSUME NEW t, NEW p
  PROVE  Exists(t, p) <=> Links(t, Real(t, p)) = {} /\ At(t, Real(t, p)) # Absent
BY DEF Exists, Status

\* The beginning of a path that exists does.
LEMMA ExistsPrefix ==
  ASSUME NEW t, IsTree(t), NEW u \in Seq(Names), NEW v \in Seq(Names), Exists(t, u \o v)
  PROVE  Exists(t, u)
<1>1. PICK U, r : U = Real(t, u) /\ r = Real(t, u \o v)
  OBVIOUS
<1>2. Links(t, r) = {} /\ At(t, r) # Absent
  BY <1>1, ExistsIs
<1>3. Links(t, U) = {} /\ Real(t, U \o v) = r /\ U \in Seq(Names)
  BY <1>1, <1>2, RealJoin, RealTyped
<1>4. PICK m \in Nat, n \in Nat : m = Len(U) /\ n = Len(v)
  BY <1>3, LenProperties
<1>5. U \o v \in Seq(Names) /\ Len(U \o v) = m + n
  BY <1>3, <1>4, ConcatProperties
<1>6. SubSeq(U \o v, 1, m) = U
  BY <1>3, <1>4, CutJoin, SubSeqFull
<1>7. PICK w : w \in Seq(Names) /\ At(t, w) # Absent
               /\ m \in 0..Len(w) /\ Len(w) \in Nat /\ SubSeq(w, 1, m) = U
  <2>1. CASE Links(t, U \o v) = {}
    <3>1. r = U \o v
      BY <1>3, <2>1, RealPlain
    <3>2. m \in 0..Len(U \o v) /\ Len(U \o v) \in Nat
      BY <1>5
    <3> QED
      BY <1>2, <1>5, <1>6, <3>1, <3>2
  <2>2. CASE Links(t, U \o v) # {}
    <3>1. PICK i : i \in Links(t, U \o v)
      BY <2>2
    <3>2. i \in 1..m + n /\ At(t, SubSeq(U \o v, 1, i)).kind = "link"
      BY <1>5, <3>1 DEF Links
    <3>3. i \notin 1..m
      BY <1>3, <1>4, <3>1, LinksJoin
    <3>4. i \in 0..Len(U \o v) /\ m \in 0..i /\ i \in Nat /\ m <= i
      BY <1>5, <3>2, <3>3
    <3>5. PICK w : w = SubSeq(U \o v, 1, i)
      OBVIOUS
    <3>6. w \in Seq(Names) /\ Len(w) = i /\ \A j \in 1..i : w[j] = (U \o v)[j]
      BY <1>5, <3>4, <3>5, CutIs
    <3>7. SubSeq(w, 1, m) = U
      <4>1. PICK x, y, z : /\ z = U \o v /\ x = SubSeq(w, 1, m) /\ y = SubSeq(z, 1, m)
        OBVIOUS
      <4>2. m \in 0..Len(w) /\ m \in 0..Len(z) /\ z \in Seq(Names) /\ \A j \in 1..i : w[j] = z[j]
        BY <1>5, <3>4, <3>6, <4>1
      <4>3. /\ x \in Seq(Names) /\ Len(x) = m /\ \A j \in 1..m : x[j] = w[j]
            /\ y \in Seq(Names) /\ Len(y) = m /\ \A j \in 1..m : y[j] = z[j]
        BY <3>6, <4>1, <4>2, CutIs
      <4>4. \A j \in 1..m : x[j] = y[j]
        <5>1. m <= i /\ i \in Nat
          BY <3>4
        <5>2. \A j \in 1..m : j \in 1..i
          BY <5>1
        <5> QED
          BY <4>2, <4>3, <5>2
      <4>5. x = y
        BY <4>3, <4>4, SeqEqual
      <4> QED
        BY <1>6, <4>1, <4>5
    <3>8. At(t, w) # Absent
      BY <3>2, <3>5 DEF Absent, Node
    <3> QED
      BY <3>4, <3>6, <3>7, <3>8
  <2> QED
    BY <2>1, <2>2
<1>8. At(t, U) # Absent
  <2>1. CASE m < Len(w)
    <3>1. IsDir(t, U)
      BY <1>7, <2>1, Above
    <3> QED
      BY <3>1 DEF IsDir, Absent, Node
  <2>2. CASE m = Len(w)
    BY <1>7, <2>2, SubSeqFull
  <2> QED
    BY <1>7, <2>1, <2>2
<1> QED
  BY <1>1, <1>3, <1>8, ExistsIs

\* A resolved path is one that exists and has no link in it, and behind it names
\* the first of which is not there.
Settled(r, s) ==
    /\ r \in Seq(Names) /\ s \in Seq(Names) /\ Links(fs, r) = {} /\ At(fs, r) # Absent
    /\ s # <<>> => ~Exists(fs, r \o <<s[1]>>)

\* That is what resolve_path returns.
LEMMA ResolvedForm ==
  ASSUME IsTree(fs), NEW p \in Seq(Names), ~Tangled(fs, p)
  PROVE  \E r, s : Settled(r, s) /\ resolve_path(p) = r \o s
<1>1. PICK l \in Nat : l = Len(p)
  BY LenProperties
<1>2. PICK T : T = {n \in 0..l : \A i \in 0..n : Exists(fs, SubSeq(p, 1, i))}
  OBVIOUS
<1>3. PICK k : k = Max(T)
  OBVIOUS
<1>4. k \in T /\ (\A y \in T : k >= y) /\ k \in 0..l
  <2>1. \A i \in 0..0 : Exists(fs, SubSeq(p, 1, i))
    <3>1. SubSeq(p, 1, 0) = <<>> /\ \A i \in 0..0 : i = 0
      OBVIOUS
    <3> QED
      BY <3>1, RootExists
  <2>2. 0 \in T
    BY <1>1, <1>2, <2>1
  <2> QED
    BY <1>1, <1>2, <1>3, <2>2, MaxIn
<1>5. PICK u, s, r : u = SubSeq(p, 1, k) /\ s = SubSeq(p, k + 1, l) /\ r = Real(fs, u)
  OBVIOUS
<1>6. u \in Seq(Names) /\ s \in Seq(Names) /\ Len(s) = l - k
  BY <1>1, <1>4, <1>5, CutIs, RestIs
<1>7. Exists(fs, u)
  BY <1>2, <1>4, <1>5
<1>8. r \in Seq(Names) /\ Links(fs, r) = {} /\ At(fs, r) # Absent
  BY <1>5, <1>6, <1>7, ExistsIs, RealTyped
<1>9. ASSUME s # <<>>, Exists(fs, r \o <<s[1]>>) PROVE FALSE
  <2>1. k < l
    BY <1>1, <1>4, <1>6, <1>9, EmptySeq
  <2>2. s[1] = p[k + 1]
    <3>1. \A j \in 1..Len(p) - k : SubSeq(p, k + 1, Len(p))[j] = p[k + j]
      BY <1>1, <1>4, RestIs
    <3>2. 1 \in 1..Len(p) - k
      BY <1>1, <1>4, <2>1
    <3> QED
      BY <1>1, <1>5, <3>1, <3>2
  <2>3. SubSeq(p, 1, k + 1) = u \o <<s[1]>> /\ s[1] \in Names
    BY <1>1, <1>4, <1>5, <2>1, <2>2, Split
  <2>4. k + 1 \in 1..Len(p)
    BY <1>1, <1>4, <2>1
  <2>5. Links(fs, Real(fs, u \o <<s[1]>>)) = {}
    BY <2>3, <2>4 DEF Tangled
  <2>6. Real(fs, r \o <<s[1]>>) = Real(fs, u \o <<s[1]>>)
    <3>1. PICK e : e = <<s[1]>>
      OBVIOUS
    <3>2. e \in Seq(Names) /\ Links(fs, Real(fs, u \o e)) = {}
      BY <2>3, <2>5, <3>1
    <3>3. Real(fs, Real(fs, u) \o e) = Real(fs, u \o e)
      BY <1>6, <3>2, RealJoin
    <3> QED
      BY <1>5, <3>1, <3>3
  <2>7. Exists(fs, SubSeq(p, 1, k + 1))
    BY <1>9, <2>3, <2>6, ExistsIs
  <2>8. \A i \in 0..k + 1 : Exists(fs, SubSeq(p, 1, i))
    <3>1. \A i \in 0..k + 1 : i \in 0..k \/ i = k + 1
      BY <1>4
    <3>2. \A i \in 0..k : Exists(fs, SubSeq(p, 1, i))
      BY <1>2, <1>4
    <3> QED
      BY <2>7, <3>1, <3>2
  <2>9. k + 1 \in T
    BY <1>2, <1>4, <2>1, <2>8
  <2> QED
    BY <1>4, <2>9
<1>10. resolve_path(p) = r \o s
  BY <1>1, <1>2, <1>3, <1>5 DEF resolve_path
<1> QED
  BY <1>6, <1>8, <1>9, <1>10 DEF Settled

\* To resolve it again makes no difference.
LEMMA ResolvedStays ==
  ASSUME IsTree(fs), NEW r, NEW s, Settled(r, s)
  PROVE  resolve_path(r \o s) = r \o s
<1>1. /\ r \in Seq(Names) /\ s \in Seq(Names) /\ Links(fs, r) = {} /\ At(fs, r) # Absent
      /\ s # <<>> => ~Exists(fs, r \o <<s[1]>>)
  BY DEF Settled
<1>2. PICK m \in Nat, n \in Nat : m = Len(r) /\ n = Len(s)
  BY <1>1, LenProperties
<1>3. PICK p : p = r \o s
  OBVIOUS
<1>4. p \in Seq(Names) /\ Len(p) = m + n
  BY <1>1, <1>2, <1>3, ConcatProperties
<1>5. PICK T : T = {y \in 0..m + n : \A i \in 0..y : Exists(fs, SubSeq(p, 1, i))}
  OBVIOUS
<1>6. Exists(fs, r) /\ Real(fs, r) = r
  BY <1>1, RealPlain, ExistsIs
<1>7. m \in T
  <2>1. ASSUME NEW i \in 0..m PROVE Exists(fs, SubSeq(p, 1, i))
    <3>1. PICK u, v : u = SubSeq(r, 1, i) /\ v = SubSeq(r, i + 1, m)
      OBVIOUS
    <3>2. r = u \o v /\ u \in Seq(Names) /\ v \in Seq(Names)
      BY <1>1, <1>2, <3>1, Split, CutIs, RestIs
    <3>3. Exists(fs, u)
      BY <1>6, <3>2, ExistsPrefix
    <3>4. SubSeq(p, 1, i) = u
      BY <1>1, <1>2, <1>3, <3>1, CutJoin
    <3> QED
      BY <3>3, <3>4
  <2> QED
    BY <1>5, <2>1
<1>8. ASSUME NEW y \in T PROVE y <= m
  <2>1. y \in 0..m + n /\ \A i \in 0..y : Exists(fs, SubSeq(p, 1, i))
    BY <1>5
  <2>2. SUFFICES ASSUME y > m PROVE FALSE
    BY <2>1
  <2>3. m + 1 \in 0..y /\ n >= 1
    BY <2>1, <2>2
  <2>4. Exists(fs, SubSeq(p, 1, m + 1))
    BY <2>1, <2>3
  <2>5. s # <<>> /\ 0 < Len(s) /\ 0 \in 0..Len(s) /\ 1 \in 0..Len(s)
    <3>1. Len(s) # 0
      BY <1>2, <2>3
    <3>2. s # <<>>
      BY <1>1, <3>1, EmptySeq
    <3> QED
      BY <1>2, <2>3, <3>2
  <2>6. SubSeq(p, 1, m + 1) = r \o SubSeq(s, 1, 1)
    BY <1>1, <1>2, <1>3, <2>5, CutBeyond
  <2>7. SubSeq(s, 1, 1) = <<s[1]>>
    <3>1. SubSeq(s, 1, 0 + 1) = SubSeq(s, 1, 0) \o <<s[0 + 1]>> /\ s[0 + 1] \in Names
      BY <1>1, <2>5, Split
    <3>2. SubSeq(s, 1, 0) = <<>> /\ 0 + 1 = 1
      OBVIOUS
    <3>3. <<s[1]>> \in Seq(Names)
      BY <3>1
    <3> QED
      BY <3>1, <3>2, <3>3, ConcatEmptySeq
  <2> QED
    BY <1>1, <2>4, <2>5, <2>6, <2>7
<1>9. PICK k : k = Max(T)
  OBVIOUS
<1>10. k = m
  <2>1. T \in SUBSET (0..m + n) /\ T # {} /\ m + n \in Nat
    BY <1>5, <1>7
  <2>2. k \in T /\ k >= m
    BY <1>7, <1>9, <2>1, MaxIn
  <2>3. k <= m /\ k \in Int
    BY <1>8, <2>1, <2>2
  <2> QED
    BY <2>2, <2>3
<1>11. SubSeq(p, 1, m) = r
  BY <1>1, <1>2, <1>3, CutJoin, SubSeqFull
<1>12. SubSeq(p, m + 1, Len(p)) = s
  <2>1. SubSeq(r, m + 1, Len(r)) = <<>>
    BY <1>2, SubSeqEmpty
  <2>2. SubSeq(p, m + 1, Len(p)) = SubSeq(r, m + 1, Len(r)) \o s
    BY <1>1, <1>2, <1>3, RestJoin
  <2> QED
    BY <1>1, <2>1, <2>2, ConcatEmptySeq
<1>13. resolve_path(p) = Real(fs, SubSeq(p, 1, m)) \o SubSeq(p, m + 1, Len(p))
  BY <1>4, <1>5, <1>9, <1>10 DEF resolve_path
<1> QED
  BY <1>3, <1>6, <1>11, <1>12, <1>13
\* What is settled to be gone does not exist.
LEMMA SettledGone ==
  ASSUME IsTree(fs), NEW r, NEW s, Settled(r, s), s # <<>>
  PROVE  ~Exists(fs, r \o s)
<1>1. /\ r \in Seq(Names) /\ s \in Seq(Names) /\ ~Exists(fs, r \o <<s[1]>>)
  BY DEF Settled
<1>2. PICK q : q = r \o s
  OBVIOUS
<1>3. SUFFICES ASSUME Exists(fs, q) PROVE FALSE
  BY <1>2
<1>4. PICK n \in Nat : n = Len(s) /\ 0 < n /\ 0 \in 0..Len(s)
  <2>1. Len(s) \in Nat \ {0}
    BY <1>1, FrontIs
  <2> QED
    BY <2>1
<1>5. PICK e, v : e = <<s[1]>> /\ v = SubSeq(s, 2, n)
  OBVIOUS
<1>6. s = e \o v /\ e \in Seq(Names)
  <2>1. /\ s = SubSeq(s, 1, 0) \o SubSeq(s, 0 + 1, n)
        /\ SubSeq(s, 0 + 1, n) = <<s[0 + 1]>> \o SubSeq(s, 0 + 2, n) /\ s[0 + 1] \in Names
    BY <1>1, <1>4, Split
  <2>2. SubSeq(s, 0 + 1, n) = s
    BY <1>1, <1>4, SubSeqFull
  <2>3. 0 + 1 = 1 /\ 0 + 2 = 2
    OBVIOUS
  <2> QED
    BY <1>5, <2>1, <2>2, <2>3
<1>7. v \in Seq(Names)
  <2>1. 1 \in 0..Len(s)
    BY <1>4
  <2>2. SubSeq(s, 1 + 1, Len(s)) \in Seq(Names) /\ 1 + 1 = 2
    BY <1>1, <2>1, RestIs
  <2> QED
    BY <1>4, <1>5, <2>2
<1>8. PICK w : w = r \o e
  OBVIOUS
<1>9. q = w \o v /\ w \in Seq(Names)
  <2>1. (r \o e) \o v = r \o (e \o v)
    <3>1. r \in Seq(Names) /\ e \in Seq(Names) /\ v \in Seq(Names)
      BY <1>1, <1>6, <1>7
    <3> QED
      BY <3>1, ConcatAssociative
  <2>2. r \o e \in Seq(Names)
    BY <1>1, <1>6, ConcatProperties
  <2> QED
    BY <1>2, <1>6, <1>8, <2>1, <2>2
<1>10. Exists(fs, w)
  BY <1>3, <1>7, <1>9, ExistsPrefix
<1> QED
  BY <1>1, <1>5, <1>8, <1>10

\* What a resolved path is: if it exists, nothing above or at it is a link, and if its
\* directory exists, nothing above or at that is; and its directory is resolved already.
LEMMA ResolvedTo ==
  ASSUME IsTree(fs), NEW p \in NE, ~Tangled(fs, p), NEW q, q = resolve_path(p)
  PROVE  /\ Exists(fs, q) => /\ At(fs, q) # Absent /\ IsDir(fs, Front(q))
                             /\ Links(fs, q) = {} /\ Links(fs, Front(q)) = {}
         /\ Exists(fs, Front(q)) => Links(fs, Front(q)) = {}
         /\ resolve_path(Front(q)) = Front(q)
<1>1. PICK r, s : Settled(r, s) /\ q = r \o s
  BY ResolvedForm DEF NE
<1>2. /\ r \in Seq(Names) /\ s \in Seq(Names) /\ Links(fs, r) = {} /\ At(fs, r) # Absent
      /\ s # <<>> => ~Exists(fs, r \o <<s[1]>>)
  BY <1>1 DEF Settled
<1>3. q \in Seq(Names) \ {<<>>}
  BY ResolvedTyped DEF NE
<1>4. CASE s = <<>>
  <2>1. q = r
    BY <1>1, <1>2, <1>4, ConcatEmptySeq
  <2>2. IsDir(fs, Front(q)) /\ Links(fs, Front(q)) = {}
    BY <1>2, <1>3, <2>1, AbovePlain
  <2>3. PICK f, e : f = Front(q) /\ e = <<>>
    OBVIOUS
  <2>4. f \in Seq(Names) /\ e \in Seq(Names) /\ f \o e = f
    BY <1>3, <2>3, FrontIs, ConcatEmptySeq, EmptySeq
  <2>5. Settled(f, e)
    BY <2>2, <2>3, <2>4 DEF Settled, IsDir, Absent, Node
  <2>6. resolve_path(f) = f
    BY <2>4, <2>5, ResolvedStays
  <2> QED
    BY <1>2, <2>1, <2>2, <2>3, <2>6
<1>5. CASE s # <<>>
  <2>1. PICK f : f = Front(s)
    OBVIOUS
  <2>2. f \in Seq(Names) /\ Front(q) = r \o f
    BY <1>1, <1>2, <1>5, <2>1, FrontIs, JoinFront
  <2>3. f # <<>> => f[1] = s[1]
    <3>1. PICK n \in Nat : n = Len(s) - 1
      <4>1. Len(s) \in Nat \ {0}
        BY <1>2, <1>5, FrontIs
      <4> QED
        BY <4>1
    <3>2. Len(f) = n /\ \A j \in 1..n : f[j] = s[j]
      BY <1>2, <1>5, <2>1, <3>1, FrontIs
    <3>3. f # <<>> => 1 \in 1..n
      BY <2>2, <3>1, <3>2, EmptySeq
    <3> QED
      BY <3>2, <3>3
  <2>4. Settled(r, f)
    BY <1>2, <1>5, <2>2, <2>3 DEF Settled
  <2>5. resolve_path(Front(q)) = Front(q)
    BY <2>2, <2>4, ResolvedStays
  <2>6. ~Exists(fs, q)
    BY <1>1, <1>5, SettledGone
  <2>7. Exists(fs, Front(q)) => Links(fs, Front(q)) = {}
    <3>1. CASE f = <<>>
      <4>1. Front(q) = r
        BY <1>2, <2>2, <3>1, ConcatEmptySeq
      <4> QED
        BY <1>2, <4>1
    <3>2. CASE f # <<>>
      BY <2>2, <2>4, <3>2, SettledGone
    <3> QED
      BY <3>1, <3>2
  <2> QED
    BY <2>5, <2>6, <2>7
<1> QED
  BY <1>4, <1>5

\* An entry without a link above it is where its path says.
LEMMA SpotPlain ==
  ASSUME NEW p \in NE, Links(fs, Front(p)) = {}
  PROVE  Spot(p) = p
BY RealPlain, FrontIs DEF Spot, NE

\* There is no link above a directory, nor is it one.
LEMMA DirPlain ==
  ASSUME NEW t, IsTree(t), NEW p, IsDir(t, p)
  PROVE  Links(t, p) = {} /\ p \in Seq(Names)
<1>1. At(t, p).kind = "dir" /\ At(t, p) # Absent /\ p \in Seq(Names)
  BY Above DEF IsDir, Absent, Node
<1>2. CASE p = <<>>
  BY <1>1, <1>2 DEF Links
<1>3. CASE p # <<>>
  BY <1>1, <1>3, AbovePlain
<1> QED
  BY <1>1, <1>2, <1>3

\* Where links only go away a path without links stays one.
LEMMA LinksFewer ==
  ASSUME NEW t, NEW u, \A p : At(u, p).kind = "link" => At(t, p).kind = "link", NEW p,
         Links(t, p) = {}
  PROVE  Links(u, p) = {}
BY DEF Links

\* Directories that are made are no links.
LEMMA CreatedLinks ==
  ASSUME NEW q
  PROVE  /\ \A p : At(Created(q), p).kind = "link" => At(fs, p).kind = "link"
         /\ \A p \in Paths : Created(q)[p] = Absent => fs[p] = Absent
BY DEF Created, At, NewDir, Absent, Node

\* What is taken away is no link.
LEMMA TakenLinks ==
  ASSUME IsTree(fs), NEW q \in Paths
  PROVE  \A p : At([fs EXCEPT ![q] = Absent], p).kind = "link" => At(fs, p).kind = "link"
<1>1. PICK u : u = [fs EXCEPT ![q] = Absent]
  OBVIOUS
<1>2. \A p \in Paths : u[p] = IF p = q THEN Absent ELSE fs[p]
  BY <1>1 DEF IsTree
<1>3. \A p : At(u, p).kind = "link" => At(fs, p).kind = "link"
  BY <1>2 DEF At, Absent, Node
<1> QED
  BY <1>1, <1>3

\* Where directories can be made there are no links.
LEMMA CreatablePlain ==
  ASSUME NEW p, Creatable(p), resolve_path(p) = p
  PROVE  Links(fs, p) = {}
<1>1. \A i \in 1..Len(p) : SubSeq(p, 1, i) \in Paths /\ fs[SubSeq(p, 1, i)].kind \in {"dir", "absent"}
  BY DEF Creatable
<1> QED
  BY <1>1 DEF Links, At
-----------------------------------------------------------------------------
(***************************************************************************)
(* A call that is alone finds what it has resolved where it was.           *)
(***************************************************************************)
\* Which tools come to which places.
ToolInv == \A c \in Calls :
    /\ pc[c] = "remove" => request[c].tool \in {"move", "remove"}
    /\ pc[c] = "clear" => Is(c, "move") /\ request[c].overwrite
    /\ pc[c] = "rename" => Is(c, "move")
    /\ pc[c] \in {"parents", "copy"} => request[c].tool \in {"copy", "move"}
    /\ pc[c] \in {"chmod", "mkdir"} => Is(c, pc[c])

\* There is no link above the source of a move or a removal, nor above the destination
\* of a move until that is cleared, if it exists.  In a copy between file systems the
\* directory of the source is there, unless the first entry has yet to be looked at.
Way(c) ==
    /\ request[c].tool \in {"move", "remove"} => Links(fs, Front(from[c])) = {}
    /\ Is(c, "move") /\ pc[c] = "copy" =>
          IsDir(fs, Front(from[c])) \/ todo[c] = {<<from[c], to[c]>>}
    /\ pc[c] \in {"parents", "clear"} => Links(fs, Front(to[c])) = {} \/ ~Exists(fs, to[c])
    /\ pc[c] = "parents" => resolve_path(Front(to[c])) = Front(to[c])
WayInv == \A c \in Calls : quiet[c] /\ pc[c] \notin {"start", "done"} => Way(c)

\* Only the call that steps goes on.
LEMMA PcStep ==
  ASSUME PathInv, NEW c \in Calls, Tool(c)
  PROVE  \A d \in Calls \ {c} : pc'[d] = pc[d]
<1>1. \A s : Return(c, s) => \A d \in Calls \ {c} : pc'[d] = pc[d]
  BY DEF Return, PathInv
<1>2. \A s : Goto(c, s) => \A d \in Calls \ {c} : pc'[d] = pc[d]
  BY DEF Goto, PathInv
<1>3. Throw(c) => \A d \in Calls \ {c} : pc'[d] = pc[d]
  BY <1>1 DEF Throw
<1>4. CASE Missing(c)
  BY <1>3, <1>4 DEF Missing
<1>5. CASE Stat(c) \/ Begin(c)
  BY <1>1, <1>2, <1>5 DEF Stat, Begin
<1>6. CASE Chmod(c)
  BY <1>1, <1>6 DEF Chmod
<1>7. CASE Mkdir(c)
  <2>1. \E s : Return(c, s)
    BY <1>7 DEF Mkdir
  <2> QED
    BY <1>1, <2>1
<1>8. CASE Look(c)
  BY <1>2, <1>3, <1>8 DEF Look
<1>9. CASE CreateParents(c)
  <2>1. Throw(c) \/ \E s : Goto(c, s)
    BY <1>9 DEF CreateParents
  <2> QED
    BY <1>2, <1>3, <2>1
<1>10. CASE Clear(c)
  <2>1. Goto(c, "rename") \/ UNCHANGED pc \/ \E s : Return(c, s)
    BY <1>10 DEF Clear, RemoveAll
  <2> QED
    BY <1>1, <1>2, <2>1
<1>11. CASE Rename(c)
  BY <1>1, <1>2, <1>11 DEF Rename
<1>12. CASE CopyEntry(c)
  BY <1>1, <1>12 DEF CopyEntry
<1>13. CASE EndCopy(c)
  BY <1>1, <1>2, <1>13 DEF EndCopy
<1>14. CASE StartRemove(c)
  BY <1>2, <1>14 DEF StartRemove
<1>15. CASE RemovePath(c)
  <2>1. UNCHANGED pc \/ \E s : Return(c, s)
    BY <1>15 DEF RemovePath, RemoveAll
  <2> QED
    BY <1>1, <2>1
<1> QED
  BY <1>4, <1>5, <1>6, <1>7, <1>8, <1>9, <1>10, <1>11, <1>12, <1>13, <1>14, <1>15 DEF Tool

\* A call comes to a place only with the tool that goes there.
LEMMA ToolNext ==
  ASSUME PathInv, ToolInv, [Next]_vars
  PROVE  ToolInv'
<1>1. CASE UNCHANGED vars
  BY <1>1 DEF ToolInv, vars, Is
<1>2. ASSUME NEW c \in Calls, Call(c) PROVE ToolInv'
  <2>1. Tool(c) /\ request' = request
    BY <1>2 DEF Call
  <2>2. \A d \in Calls \ {c} : pc'[d] = pc[d]
    BY <2>1, PcStep
  <2>3. \A s : Return(c, s) => pc'[c] = "done"
    BY DEF Return, PathInv
  <2>4. \A s : Goto(c, s) => pc'[c] = s
    BY DEF Goto, PathInv
  <2>5. \/ pc'[c] \in {"done", pc[c]}
        \/ pc'[c] = "remove" /\ request[c].tool \in {"move", "remove"}
        \/ pc'[c] = "clear" /\ Is(c, "move") /\ request[c].overwrite
        \/ pc'[c] = "rename" /\ Is(c, "move")
        \/ pc'[c] \in {"parents", "copy"} /\ request[c].tool \in {"copy", "move"}
        \/ pc'[c] \in {"chmod", "mkdir"} /\ request[c].tool = pc'[c]
    <3>10. CASE Begin(c)
      BY <2>4, <3>10 DEF Begin, Starts, Is
    <3>1. CASE Missing(c) \/ Stat(c) \/ Chmod(c) \/ Mkdir(c)
      <4>1. \E s : Return(c, s)
        BY <3>1 DEF Missing, Throw, Stat, Chmod, Mkdir
      <4> QED
        BY <2>3, <4>1
    <3>2. CASE Look(c)
      <4>1. request[c].tool \in {"copy", "move"} /\ (Goto(c, "parents") \/ Return(c, "error"))
        BY <3>2 DEF Look, Throw, Starts, Is
      <4> QED
        BY <2>3, <2>4, <4>1
    <3>3. CASE CreateParents(c)
      <4>1. request[c].tool \in {"copy", "move"}
        BY <3>3 DEF CreateParents, ToolInv
      <4>2. CASE Is(c, "copy")
        <5>1. Goto(c, "copy") \/ Return(c, "error")
          BY <3>3, <4>2 DEF CreateParents, Throw
        <5> QED
          BY <2>3, <2>4, <4>1, <5>1
      <4>3. CASE ~Is(c, "copy")
        <5>1. Is(c, "move")
          BY <4>1, <4>3 DEF Is
        <5>2. \/ Goto(c, "clear") /\ request[c].overwrite
              \/ Goto(c, "rename") \/ Return(c, "error")
          BY <3>3, <4>3 DEF CreateParents, Throw
        <5> QED
          BY <2>3, <2>4, <5>1, <5>2
      <4> QED
        BY <4>2, <4>3
    <3>4. CASE Clear(c)
      <4>1. Is(c, "move")
        BY <3>4 DEF Clear, ToolInv
      <4>2. Goto(c, "rename") \/ UNCHANGED pc \/ \E s : Return(c, s)
        BY <3>4 DEF Clear, RemoveAll
      <4> QED
        BY <2>3, <2>4, <4>1, <4>2
    <3>5. CASE Rename(c)
      <4>1. Is(c, "move")
        BY <3>5 DEF Rename, ToolInv
      <4>2. Goto(c, "copy") \/ \E s : Return(c, s)
        BY <3>5 DEF Rename
      <4> QED
        BY <2>3, <2>4, <4>1, <4>2 DEF Is
    <3>6. CASE CopyEntry(c)
      <4>1. UNCHANGED pc \/ \E s : Return(c, s)
        BY <3>6 DEF CopyEntry
      <4> QED
        BY <2>3, <4>1
    <3>7. CASE EndCopy(c)
      <4>1. request[c].tool \in {"copy", "move"}
        BY <3>7 DEF EndCopy, ToolInv
      <4>2. Return(c, "ok") \/ (Goto(c, "remove") /\ ~Is(c, "copy"))
        BY <3>7 DEF EndCopy
      <4> QED
        BY <2>3, <2>4, <4>1, <4>2 DEF Is
    <3>8. CASE StartRemove(c)
      <4>1. Goto(c, "remove") /\ Is(c, "remove")
        BY <3>8 DEF StartRemove, Starts
      <4> QED
        BY <2>4, <4>1 DEF Is
    <3>9. CASE RemovePath(c)
      <4>1. UNCHANGED pc \/ \E s : Return(c, s)
        BY <3>9 DEF RemovePath, RemoveAll
      <4> QED
        BY <2>3, <4>1
    <3> QED
      BY <2>1, <3>1, <3>2, <3>3, <3>4, <3>5, <3>6, <3>7, <3>8, <3>9, <3>10 DEF Tool
  <2>6. ASSUME NEW d \in Calls
        PROVE  /\ pc'[d] = "remove" => request[d].tool \in {"move", "remove"}
               /\ pc'[d] = "clear" => Is(d, "move") /\ request[d].overwrite
               /\ pc'[d] = "rename" => Is(d, "move")
               /\ pc'[d] \in {"parents", "copy"} => request[d].tool \in {"copy", "move"}
               /\ pc'[d] \in {"chmod", "mkdir"} => request[d].tool = pc'[d]
    <3>1. CASE d = c
      BY <2>5, <3>1 DEF ToolInv, Is
    <3>2. CASE d # c
      BY <2>2, <3>2 DEF ToolInv, Is
    <3> QED
      BY <3>1, <3>2
  <2> QED
    BY <2>1, <2>6 DEF ToolInv, Is
<1> QED
  BY <1>1, <1>2 DEF Next
\* Who runs alone and finds no link above its source finds none after its step.
\* At the start the source exists, and a path that exists has no link in it.
LEMMA LookWay ==
  ASSUME PathInv, NEW c \in Calls, Look(c), request' = request, pc'[c] \notin {"start", "done"}
  PROVE  Way(c)'
<1>1. \A s : Return(c, s) => pc'[c] = "done"
  BY DEF Return, PathInv
<1>2. /\ IsTree(fs) /\ Found(c) /\ ~Is(c, "mkdir") /\ request[c].tool \in {"copy", "move"}
  BY DEF Look, Starts, Is, PathInv
<1>3. Accepted(c)
  BY <1>1 DEF Look, Throw
<1>4. Resolved(c) /\ Goto(c, "parents") /\ fs' = fs
  BY <1>3 DEF Look
<1>5. pc'[c] = "parents" /\ from'[c] = Source(c) /\ to'[c] = Target(c)
  BY <1>4 DEF Goto, Resolved, PathInv
<1>6. /\ ~Tangled(fs, normal(request[c].from)) /\ Exists(fs, Source(c))
      /\ ~Tangled(fs, normal(request[c].to))
      /\ normal(request[c].from) \in NE /\ normal(request[c].to) \in NE
  BY <1>2, PathAssumption DEF Found, PathInv, NE
<1>7. PICK p, q : p = Source(c) /\ q = Target(c)
  OBVIOUS
<1>8. Links(fs, Front(p)) = {}
  BY <1>2, <1>6, <1>7, ResolvedTo DEF Source
<1>9. /\ Links(fs, Front(q)) = {} \/ ~Exists(fs, q)
      /\ resolve_path(Front(q)) = Front(q)
  BY <1>2, <1>6, <1>7, ResolvedTo DEF Target
<1>10. Links(fs', Front(p)) = {}
  BY <1>4, <1>8
<1>11. Links(fs', Front(q)) = {} \/ ~Exists(fs', q)
  BY <1>4, <1>9
<1>12. \A x : resolve_path(x)' = resolve_path(x')
  BY <1>4 DEF resolve_path
<1> QED
  BY <1>4, <1>5, <1>7, <1>9, <1>10, <1>11 DEF Way, resolve_path
\* A removal resolves its path the same way.
LEMMA StartRemoveWay ==
  ASSUME PathInv, NEW c \in Calls, StartRemove(c), request' = request
  PROVE  Way(c)'
<1>1. /\ IsTree(fs) /\ Found(c) /\ Is(c, "remove") /\ fs' = fs
      /\ Resolved(c) /\ Goto(c, "remove")
  BY DEF StartRemove, Starts, PathInv
<1>2. pc'[c] = "remove" /\ from'[c] = Source(c)
  BY <1>1 DEF Goto, Resolved, PathInv
<1>3. /\ ~Tangled(fs, normal(request[c].from)) /\ Exists(fs, Source(c))
      /\ normal(request[c].from) \in NE
  BY <1>1, PathAssumption DEF Found, Is, PathInv, NE
<1>4. PICK p : p = Source(c)
  OBVIOUS
<1>5. Links(fs, Front(p)) = {}
  BY <1>1, <1>3, <1>4, ResolvedTo DEF Source
<1>6. Links(fs', Front(p)) = {}
  BY <1>1, <1>5
<1> QED
  BY <1>1, <1>2, <1>4, <1>6 DEF Way, Is

\* Directories made above the destination are no links, and can be made only where
\* there are none.
LEMMA CreateParentsWay ==
  ASSUME PathInv, NEW c \in Calls, CreateParents(c), request' = request, Way(c),
         pc'[c] \notin {"start", "done"}
  PROVE  Way(c)'
<1>1. \A s : Return(c, s) => pc'[c] = "done"
  BY DEF Return, PathInv
<1>2. PICK p : p = Front(to[c])
  OBVIOUS
<1>3. ~(request[c].parents /\ ~Creatable(p))
  BY <1>1, <1>2 DEF CreateParents, Throw
<1>4. /\ fs' = IF request[c].parents THEN Created(p) ELSE fs
      /\ Goto(c, IF Is(c, "copy") THEN "copy" ELSE IF request[c].overwrite THEN "clear" ELSE "rename")
      /\ UNCHANGED <<from, to>> /\ pc[c] = "parents"
  BY <1>2, <1>3 DEF CreateParents, Keep
<1>5. /\ pc'[c] \in {"copy", "clear", "rename"}
      /\ pc'[c] = "copy" => Is(c, "copy")
  BY <1>4 DEF Goto, PathInv
<1>6. \A r : At(fs', r).kind = "link" => At(fs, r).kind = "link"
  BY <1>4, CreatedLinks
<1>7. \A r : Links(fs, r) = {} => Links(fs', r) = {}
  BY <1>6, LinksFewer
<1>8. /\ request[c].tool \in {"move", "remove"} => Links(fs, Front(from[c])) = {}
      /\ Links(fs, p) = {} \/ ~Exists(fs, to[c])
      /\ resolve_path(p) = p
  BY <1>2, <1>4 DEF Way
<1>9. Links(fs', p) = {} \/ ~Exists(fs', to[c])
  <2>1. CASE request[c].parents
    <3>1. Links(fs, p) = {}
      BY <1>3, <1>8, <2>1, CreatablePlain
    <3> QED
      BY <1>7, <3>1
  <2>2. CASE ~request[c].parents
    BY <1>4, <1>8, <2>2
  <2> QED
    BY <2>1, <2>2
<1>10. request[c].tool \in {"move", "remove"} => Links(fs', Front(from[c])) = {}
  BY <1>7, <1>8
<1> QED
  BY <1>2, <1>4, <1>5, <1>9, <1>10 DEF Way, Is

\* What is cleared lies where the path says, so no link appears.
LEMMA ClearWay ==
  ASSUME PathInv, ToolInv, NEW c \in Calls, Clear(c), request' = request, Way(c),
         pc'[c] \notin {"start", "done"}
  PROVE  Way(c)'
<1>1. /\ pc[c] = "clear" /\ Is(c, "move") /\ UNCHANGED <<from, to>> /\ IsTree(fs)
      /\ RemoveAll(c, to[c], Goto(c, "rename"))
  BY DEF Clear, ToolInv, PathInv, Keep
<1>2. /\ Links(fs, Front(from[c])) = {}
      /\ Links(fs, Front(to[c])) = {} \/ ~Exists(fs, to[c])
  BY <1>1 DEF Way, Is
<1>3. ~Return(c, "error")
  BY DEF Return, PathInv
<1>4. Goto(c, "rename") => pc'[c] = "rename"
  BY DEF Goto, PathInv
<1>5. CASE ~Exists(fs, to[c]) /\ Goto(c, "rename") /\ UNCHANGED fs
  <2>1. Links(fs', Front(from[c])) = {}
    BY <1>2, <1>5
  <2> QED
    BY <1>1, <1>4, <1>5, <2>1 DEF Way, Is
<1>6. ASSUME NEW q \in Below(fs, Spot(to[c])), Exists(fs, to[c]), fs' = [fs EXCEPT ![q] = Absent],
             IF q = Spot(to[c]) THEN Goto(c, "rename") ELSE UNCHANGED <<pc, result>>
      PROVE  Way(c)'
  <2>1. q \in Paths
    BY DEF Below
  <2>2. \A r : At(fs', r).kind = "link" => At(fs, r).kind = "link"
    BY <1>1, <1>6, <2>1, TakenLinks
  <2>3. \A r : Links(fs, r) = {} => Links(fs', r) = {}
    BY <2>2, LinksFewer
  <2>4. Links(fs', Front(from[c])) = {} /\ Links(fs', Front(to[c])) = {}
    BY <1>2, <1>6, <2>3
  <2>5. pc'[c] \in {"clear", "rename"}
    BY <1>1, <1>4, <1>6
  <2> QED
    BY <1>1, <2>4, <2>5 DEF Way, Is
<1> QED
  BY <1>1, <1>3, <1>5, <1>6 DEF RemoveAll

\* A rename that goes on as a copy has changed nothing.
LEMMA RenameWay ==
  ASSUME PathInv, ToolInv, NEW c \in Calls, Rename(c), request' = request, Way(c),
         pc'[c] \notin {"start", "done"}
  PROVE  Way(c)'
<1>1. pc[c] = "rename" /\ Is(c, "move") /\ UNCHANGED <<from, to>>
  BY DEF Rename, ToolInv, Keep
<1>2. \A s : ~Return(c, s)
  BY DEF Return, PathInv
<1>3. Goto(c, "copy") /\ UNCHANGED fs /\ todo' = [todo EXCEPT ![c] = {<<from[c], to[c]>>}]
  BY <1>2 DEF Rename
<1>4. pc'[c] = "copy" /\ todo'[c] = {<<from[c], to[c]>>}
  BY <1>3 DEF Goto, PathInv
<1>5. Links(fs, Front(from[c])) = {}
  BY <1>1 DEF Way, Is
<1>6. Links(fs', Front(from[c])) = {}
  BY <1>3, <1>5
<1> QED
  BY <1>1, <1>4, <1>6 DEF Way, Is

\* The first entry that is copied is the source, which is in a directory; directories
\* are kept.
LEMMA CopyEntryWay ==
  ASSUME PathInv, ToolInv, NEW c \in Calls, CopyEntry(c), request' = request, Way(c),
         pc'[c] \notin {"start", "done"}
  PROVE  Way(c)'
<1>1. /\ pc[c] = "copy" /\ request[c].tool \in {"copy", "move"} /\ UNCHANGED <<from, to>>
      /\ IsTree(fs) /\ from[c] \in NE /\ to[c] \in NE
  BY DEF CopyEntry, ToolInv, Keep, PathInv, Ready
<1>2. ~Return(c, "error")
  BY DEF Return, PathInv
<1>3. PICK e \in todo[c] : CanCopy(c, e) /\ fs' = Copied(c, e) /\ UNCHANGED <<pc, result>>
  BY <1>2 DEF CopyEntry
<1>4. e \in NE \X NE
  BY DEF PathInv, Due, Within
<1>5. CASE Is(c, "copy")
  BY <1>1, <1>3, <1>5 DEF Way, Is
<1>6. CASE Is(c, "move")
  <2>1. Links(fs, Front(from[c])) = {}
    BY <1>6 DEF Way, Is
  <2>2. IsDir(fs, Front(from[c]))
    <3>1. CASE todo[c] = {<<from[c], to[c]>>}
      <4>1. e[1] = from[c]
        BY <1>3, <3>1
      <4>2. Lstat(e[1]) # Absent
        BY <1>3 DEF CanCopy, Absent, Node
      <4>3. Spot(from[c]) = from[c]
        BY <1>1, <2>1, SpotPlain
      <4>4. At(fs, from[c]) # Absent
        BY <4>1, <4>2, <4>3 DEF Lstat
      <4> QED
        BY <1>1, <4>4, AbovePlain DEF NE
    <3>2. CASE IsDir(fs, Front(from[c]))
      BY <3>2
    <3> QED
      BY <1>1, <1>6, <3>1, <3>2 DEF Way
  <2>3. PICK u : u = Copied(c, e)
    OBVIOUS
  <2>4. IsTree(u) /\ IsDir(u, Front(from[c]))
    BY <1>3, <1>4, <2>2, <2>3, TreeCopied
  <2>5. Links(u, Front(from[c])) = {}
    BY <2>4, DirPlain
  <2>6. Links(fs', Front(from[c])) = {} /\ IsDir(fs', Front(from[c]))
    BY <1>3, <2>3, <2>4, <2>5
  <2> QED
    BY <1>1, <1>3, <2>6 DEF Way, Is
<1> QED
  BY <1>1, <1>5, <1>6 DEF Is

\* A move between file systems goes on to remove its source.
LEMMA EndCopyWay ==
  ASSUME PathInv, ToolInv, NEW c \in Calls, EndCopy(c), request' = request, Way(c),
         pc'[c] \notin {"start", "done"}
  PROVE  Way(c)'
<1>1. /\ pc[c] = "copy" /\ request[c].tool \in {"copy", "move"} /\ UNCHANGED <<fs, from, to, todo>>
  BY DEF EndCopy, ToolInv, Keep
<1>2. ~Return(c, "ok")
  BY DEF Return, PathInv
<1>3. Goto(c, "remove")
  BY <1>2 DEF EndCopy
<1>4. pc'[c] = "remove"
  BY <1>3 DEF Goto, PathInv
<1>5. request[c].tool \in {"move", "remove"} => Links(fs', Front(from[c])) = {}
  BY <1>1 DEF Way
<1> QED
  BY <1>1, <1>4, <1>5 DEF Way

\* What is removed is taken away, and no link appears.
LEMMA RemovePathWay ==
  ASSUME PathInv, ToolInv, NEW c \in Calls, RemovePath(c), request' = request, Way(c),
         pc'[c] \notin {"start", "done"}
  PROVE  Way(c)'
<1>1. /\ pc[c] = "remove" /\ request[c].tool \in {"move", "remove"} /\ UNCHANGED <<from, to, todo>>
      /\ IsTree(fs) /\ Links(fs, Front(from[c])) = {}
  BY DEF RemovePath, ToolInv, PathInv, Keep, Way
<1>2. \A s : ~Return(c, s)
  BY DEF Return, PathInv
<1>3. RemoveAll(c, from[c], Return(c, "ok"))
  BY <1>2 DEF RemovePath
<1>4. PICK q \in Below(fs, Spot(from[c])) :
         fs' = [fs EXCEPT ![q] = Absent] /\ UNCHANGED <<pc, result>>
  BY <1>2, <1>3 DEF RemoveAll
<1>5. q \in Paths
  BY DEF Below
<1>6. \A r : At(fs', r).kind = "link" => At(fs, r).kind = "link"
  BY <1>1, <1>4, <1>5, TakenLinks
<1>7. Links(fs', Front(from[c])) = {}
  BY <1>1, <1>6, LinksFewer
<1> QED
  BY <1>1, <1>4, <1>7 DEF Way

\* So each call keeps to it, as long as it is alone.
LEMMA WayNext ==
  ASSUME PathInv, ToolInv, WayInv, [Next]_vars
  PROVE  WayInv'
<1>1. CASE UNCHANGED vars
  BY <1>1 DEF WayInv, Way, vars, resolve_path, Is
<1>2. ASSUME NEW c \in Calls, Call(c) PROVE WayInv'
  <2>1. Tool(c) /\ request' = request
    BY <1>2 DEF Call
  <2>2. \A d \in Calls \ {c} : pc'[d] = pc[d]
    BY <2>1, PcStep
  <2>3. \A d \in Calls : quiet'[d] <=> quiet[d] /\ (c = d \/ pc[d] \in {"start", "done"})
    BY <1>2 DEF Call
  <2>4. ASSUME NEW d \in Calls \ {c} PROVE ~(quiet'[d] /\ pc'[d] \notin {"start", "done"})
    BY <2>2, <2>3
  <2>5. ASSUME quiet'[c], pc'[c] \notin {"start", "done"} PROVE Way(c)'
    <3>1. quiet[c]
      BY <2>3, <2>5
    <3>2. pc[c] \notin {"start", "done"} => Way(c)
      BY <3>1 DEF WayInv
    <3>12. CASE Begin(c)
      <4>1. PICK t \in {"chmod", "mkdir"} : Is(c, t) /\ Goto(c, t)
        BY <3>12 DEF Begin, Starts
      <4>2. pc'[c] = t /\ request[c].tool = t
        BY <4>1 DEF Goto, PathInv, Is
      <4> QED
        BY <2>1, <4>2 DEF Way, Is
    <3>3. ~Missing(c) /\ ~Stat(c) /\ ~Chmod(c) /\ ~Mkdir(c)
      <4>1. \A s : ~Return(c, s)
        BY <2>5 DEF Return, PathInv
      <4> QED
        BY <4>1 DEF Missing, Throw, Stat, Chmod, Mkdir
    <3>4. CASE Look(c)
      BY <2>1, <2>5, <3>4, LookWay
    <3>5. CASE StartRemove(c)
      BY <2>1, <3>5, StartRemoveWay
    <3>6. CASE CreateParents(c)
      BY <2>1, <2>5, <3>2, <3>6, CreateParentsWay DEF CreateParents
    <3>7. CASE Clear(c)
      BY <2>1, <2>5, <3>2, <3>7, ClearWay DEF Clear
    <3>8. CASE Rename(c)
      BY <2>1, <2>5, <3>2, <3>8, RenameWay DEF Rename
    <3>9. CASE CopyEntry(c)
      BY <2>1, <2>5, <3>2, <3>9, CopyEntryWay DEF CopyEntry
    <3>10. CASE EndCopy(c)
      BY <2>1, <2>5, <3>2, <3>10, EndCopyWay DEF EndCopy
    <3>11. CASE RemovePath(c)
      BY <2>1, <2>5, <3>2, <3>11, RemovePathWay DEF RemovePath
    <3> QED
      BY <2>1, <3>3, <3>4, <3>5, <3>6, <3>7, <3>8, <3>9, <3>10, <3>11, <3>12 DEF Tool
  <2> QED
    BY <2>4, <2>5 DEF WayInv
<1> QED
  BY <1>1, <1>2 DEF Next

\* At the start no call is under way.
LEMMA WayInit == Init => ToolInv /\ WayInv
BY DEF Init, ToolInv, WayInv
-----------------------------------------------------------------------------
\* Where something is below a path there is a directory, with an entry towards it.
LEMMA SomethingInside ==
  ASSUME NEW t, IsTree(t), NEW q \in Seq(Names), NEW r, At(t, r) # Absent,
         StartsWith(r, q), r # q
  PROVE  IsDir(t, q) /\ \E n \in Inside(t, q) : StartsWith(r, Append(q, n))
<1>1. r \in Seq(Names) /\ \A i \in 0..Len(r) : i < Len(r) => IsDir(t, SubSeq(r, 1, i))
  BY Above
<1>2. PICK m, n \in Nat : m = Len(q) /\ n = Len(r)
  BY <1>1, LenProperties
<1>3. m <= n /\ \A j \in 1..m : r[j] = q[j]
  BY <1>1, <1>2, StartsIs
<1>4. m < n
  <2>1. m = n => \A j \in 1..Len(r) : r[j] = q[j]
    BY <1>2, <1>3
  <2>2. m = n => r = q
    BY <1>1, <1>2, <2>1, SeqEqual
  <2> QED
    BY <1>3, <2>2
<1>5. SubSeq(r, 1, m) = q
  <2>1. PICK u : u = SubSeq(r, 1, m)
    OBVIOUS
  <2>2. m \in 0..Len(r)
    BY <1>2, <1>4
  <2>3. u \in Seq(Names) /\ Len(u) = m /\ \A j \in 1..m : u[j] = r[j]
    BY <1>1, <2>1, <2>2, CutIs
  <2>4. \A j \in 1..Len(u) : u[j] = q[j]
    BY <1>3, <2>3
  <2>5. u = q
    BY <1>2, <2>3, <2>4, SeqEqual
  <2> QED
    BY <2>1, <2>5
<1>6. IsDir(t, q)
  <2>1. m \in 0..Len(r) /\ m < Len(r)
    BY <1>2, <1>4
  <2> QED
    BY <1>1, <1>5, <2>1
<1>7. At(t, SubSeq(r, 1, m + 1)) # Absent
  <2>1. CASE m + 1 = n
    BY <1>1, <1>2, <2>1, SubSeqFull
  <2>2. CASE m + 1 < n
    <3>1. IsDir(t, SubSeq(r, 1, m + 1))
      BY <1>1, <1>2, <2>2
    <3> QED
      BY <3>1 DEF IsDir, Absent, Node
  <2> QED
    BY <1>4, <2>1, <2>2
<1>8. PICK x \in Names : SubSeq(r, 1, m + 1) = Append(q, x)
  <2>1. PICK x : x = r[m + 1]
    OBVIOUS
  <2>2. m \in 0..Len(r) /\ m < Len(r)
    BY <1>2, <1>4
  <2>3. SubSeq(r, 1, m + 1) = SubSeq(r, 1, m) \o <<r[m + 1]>> /\ r[m + 1] \in Names
    BY <1>1, <2>2, Split
  <2>4. SubSeq(r, 1, m + 1) = q \o <<x>> /\ x \in Names
    BY <1>5, <2>1, <2>3
  <2>5. q \o <<x>> = Append(q, x)
    BY <2>4, AppendIsConcat
  <2> QED
    BY <2>4, <2>5
<1>9. x \in Inside(t, q)
  BY <1>7, <1>8 DEF Inside
<1>10. StartsWith(r, Append(q, x))
  <2>1. PICK l \in Nat : l = m + 1 /\ l <= n /\ l \in 0..Len(r)
    BY <1>2, <1>4
  <2>2. PICK u : u = SubSeq(r, 1, l)
    OBVIOUS
  <2>3. u \in Seq(Names) /\ Len(u) = l /\ \A j \in 1..l : u[j] = r[j]
    BY <1>1, <2>1, <2>2, CutIs
  <2>4. StartsWith(r, u)
    BY <1>1, <1>2, <2>1, <2>3, StartsIs
  <2> QED
    BY <1>8, <2>1, <2>2, <2>4
<1> QED
  BY <1>6, <1>9, <1>10

\* A rename leaves something wherever something was, but for what it moves.
LEMMA RenameLoses ==
  ASSUME IsTree(fs), NEW p \in NE, NEW q \in NE, Renameable(p, q),
         NEW r \in Paths, fs[r] # Absent, Renamed(p, q)[r] = Absent
  PROVE  StartsWith(r, p)
<1>1. SUFFICES ASSUME ~StartsWith(r, p) PROVE FALSE
  OBVIOUS
<1>2. Renamed(p, q)[r] = IF StartsWith(r, q) THEN At(fs, p \o Suffix(r, q)) ELSE fs[r]
  BY <1>1 DEF Renamed
<1>3. StartsWith(r, q) /\ At(fs, p \o Suffix(r, q)) = Absent
  BY <1>2
<1>4. p \in Seq(Names) /\ q \in Seq(Names) /\ r \in Seq(Names)
  BY PathsAre DEF NE
<1>5. At(fs, p) # Absent
  BY DEF Renameable
<1>6. CASE r = q
  <2>1. Suffix(r, q) = <<>>
    BY <1>3, <1>4, <1>6, SuffixIs
  <2>2. p \o <<>> = p
    BY <1>4, ConcatEmptySeq
  <2> QED
    BY <1>3, <1>5, <2>1, <2>2
<1>7. CASE r # q
  <2>1. At(fs, r) # Absent
    BY DEF At
  <2>2. IsDir(fs, q) /\ Inside(fs, q) # {}
    BY <1>3, <1>4, <1>7, <2>1, SomethingInside
  <2>3. At(fs, q) # Absent
    BY <2>2 DEF IsDir, Absent, Node
  <2> QED
    BY <2>2, <2>3 DEF Renameable
<1> QED
  BY <1>6, <1>7

\* A removal that is not over takes away one entry at or below the path, which exists.
LEMMA RemovalLoses ==
  ASSUME PathInv, NEW c \in Calls, NEW p \in NE, NEW next \in BOOLEAN, RemoveAll(c, p, next),
         NEW r \in Paths, fs[r] # Absent, fs'[r] = Absent
  PROVE  Exists(fs, p) /\ StartsWith(r, Spot(p))
<1>1. IsTree(fs) /\ fs' # fs
  BY DEF PathInv
<1>2. PICK q \in Below(fs, Spot(p)) : Exists(fs, p) /\ fs' = [fs EXCEPT ![q] = Absent]
  BY <1>1 DEF RemoveAll
<1>3. r = q
  BY <1>1, <1>2 DEF IsTree
<1> QED
  BY <1>2, <1>3 DEF Below

\* What a call takes away lies at or below the path it works on.
Taken(c, r) ==
    \/ pc[c] = "clear" /\ request[c].overwrite /\ StartsWith(r, Leads(c, to[c]))
    \/ pc[c] \in {"rename", "remove"} /\ StartsWith(r, Leads(c, from[c]))

\* To clear the destination takes away what lies there.
LEMMA ClearTakes ==
  ASSUME PathInv, ToolInv, WayInv, NEW c \in Calls, Clear(c),
         NEW r \in Paths, fs[r] # Absent, fs'[r] = Absent
  PROVE  Taken(c, r)
<1>1. /\ pc[c] = "clear" /\ to[c] \in NE /\ RemoveAll(c, to[c], Goto(c, "rename"))
      /\ Is(c, "move") /\ request[c].overwrite
  BY DEF Clear, PathInv, Ready, ToolInv
<1>2. Goto(c, "rename") \in BOOLEAN
  BY DEF Goto
<1>3. Exists(fs, to[c]) /\ StartsWith(r, Spot(to[c]))
  BY <1>1, <1>2, RemovalLoses
<1>4. quiet[c] => Spot(to[c]) = to[c]
  <2>1. quiet[c] => Links(fs, Front(to[c])) = {}
    BY <1>1, <1>3 DEF WayInv, Way
  <2> QED
    BY <1>1, <2>1, SpotPlain
<1> QED
  BY <1>1, <1>3, <1>4 DEF Taken, Leads

\* While its directory has no link in it, the source is where its path says.
LEMMA SourceLeads ==
  ASSUME PathInv, WayInv, NEW c \in Calls, pc[c] \notin {"start", "done"},
         request[c].tool \in {"move", "remove"}
  PROVE  Leads(c, from[c]) = Spot(from[c])
<1>1. from[c] \in NE
  BY DEF PathInv, Ready
<1>2. quiet[c] => Links(fs, Front(from[c])) = {}
  BY DEF WayInv, Way
<1>3. quiet[c] => Spot(from[c]) = from[c]
  BY <1>1, <1>2, SpotPlain
<1> QED
  BY <1>3 DEF Leads

\* A rename takes away the source.
LEMMA RenameTakes ==
  ASSUME PathInv, ToolInv, WayInv, NEW c \in Calls, Rename(c),
         NEW r \in Paths, fs[r] # Absent, fs'[r] = Absent
  PROVE  Taken(c, r)
<1>1. /\ pc[c] = "rename" /\ from[c] \in NE /\ to[c] \in NE /\ Is(c, "move") /\ IsTree(fs)
  BY DEF Rename, PathInv, Ready, ToolInv
<1>2. PICK p, q : p = Spot(from[c]) /\ q = Spot(to[c])
  OBVIOUS
<1>3. p \in NE /\ q \in NE
  BY <1>1, <1>2, SpotTyped DEF NE
<1>4. Renameable(p, q) /\ fs' = Renamed(p, q)
  BY <1>2 DEF Rename
<1>5. StartsWith(r, p)
  BY <1>1, <1>3, <1>4, RenameLoses
<1>6. Leads(c, from[c]) = p
  BY <1>1, <1>2, SourceLeads DEF Is
<1> QED
  BY <1>1, <1>5, <1>6 DEF Taken

\* So does the removal of a path.
LEMMA RemovePathTakes ==
  ASSUME PathInv, ToolInv, WayInv, NEW c \in Calls, RemovePath(c),
         NEW r \in Paths, fs[r] # Absent, fs'[r] = Absent
  PROVE  Taken(c, r)
<1>1. /\ pc[c] = "remove" /\ from[c] \in NE /\ request[c].tool \in {"move", "remove"} /\ IsTree(fs)
  BY DEF RemovePath, PathInv, Ready, ToolInv
<1>2. PICK p : p = Spot(from[c])
  OBVIOUS
<1>3. StartsWith(r, p)
  <2>1. CASE RemoveAll(c, from[c], Return(c, "ok"))
    <3>1. Return(c, "ok") \in BOOLEAN
      BY DEF Return
    <3> QED
      BY <1>1, <1>2, <2>1, <3>1, RemovalLoses
  <2>2. CASE ~RemoveAll(c, from[c], Return(c, "ok"))
    <3>1. fs' = fs \/ fs' = [fs EXCEPT ![p] = Absent]
      BY <1>2, <2>2 DEF RemovePath
    <3>2. r = p
      BY <1>1, <3>1 DEF IsTree
    <3>3. r \in Seq(Names)
      BY PathsAre
    <3> QED
      BY <3>2, <3>3, StartsForms
  <2> QED
    BY <2>1, <2>2
<1>4. Leads(c, from[c]) = p
  BY <1>1, <1>2, SourceLeads
<1> QED
  BY <1>1, <1>3, <1>4 DEF Taken, Is

\* The other tools take nothing away.
LEMMA OthersTake ==
  ASSUME PathInv, NEW c \in Calls, Tool(c), ~Clear(c), ~Rename(c), ~RemovePath(c),
         NEW r \in Paths, fs[r] # Absent
  PROVE  fs'[r] # Absent
<1>1. IsTree(fs)
  BY DEF PathInv
<1>2. CASE Missing(c) \/ Stat(c) \/ Begin(c) \/ Look(c) \/ EndCopy(c) \/ StartRemove(c)
  <2>1. fs' = fs
    BY <1>2 DEF Missing, Stat, Begin, Look, EndCopy, StartRemove, Throw
  <2> QED
    BY <2>1
<1>3. CASE Chmod(c)
  <2>1. PICK x, n : fs' = fs \/ fs' = [fs EXCEPT ![x].mode = n]
    BY <1>3 DEF Chmod
  <2>2. fs' = [fs EXCEPT ![x].mode = n] => fs'[r].kind = fs[r].kind
    <3>1. fs[r] = Node(fs[r].kind, fs[r].data, fs[r].mode)
      BY <1>1 DEF IsTree, IsNode
    <3> QED
      BY <1>1, <3>1 DEF IsTree, Node
  <2>3. fs[r].kind # "absent" /\ Absent.kind = "absent"
    BY <1>1, AtIsNode DEF At, Absent, Node
  <2> QED
    BY <2>1, <2>2, <2>3
<1>4. CASE Mkdir(c) \/ CreateParents(c)
  <2>1. PICK q : fs' = fs \/ fs' = Created(q)
    BY <1>4 DEF Mkdir, CreateParents, Throw
  <2> QED
    BY <2>1, CreatedLinks
<1>5. CASE CopyEntry(c)
  <2>1. fs' = fs \/ \E e \in todo[c] : CanCopy(c, e) /\ fs' = Copied(c, e)
    BY <1>5 DEF CopyEntry
  <2>2. \A e \in todo[c] : e \in NE \X NE
    BY DEF PathInv, Due, Within
  <2> QED
    BY <2>1, <2>2, TreeCopied
<1> QED
  BY <1>2, <1>3, <1>4, <1>5 DEF Tool

\* A step of a removal takes away nothing but what lies at or below the path that its
\* call works on: it does not go through links in what it removes, and a call that is
\* alone removes at the very path it has resolved (support.cpp, remove_existing_path;
\* fs_move.cpp and fs_remove.cpp).
THEOREM RemovalsBelow == Spec => RemovalStaysBelow
<1>1. ASSUME PathInv, ToolInv, WayInv, NEW p \in Paths, fs[p] # Absent, fs'[p] = Absent,
             NEW c \in Calls, Call(c)
      PROVE  Taken(c, p)
  <2>1. Tool(c)
    BY <1>1 DEF Call
  <2> QED
    BY <1>1, <2>1, ClearTakes, RenameTakes, RemovePathTakes, OthersTake
<1>2. Spec => [](PathInv /\ ToolInv /\ WayInv)
  BY PathInit, PathNext, WayInit, ToolNext, WayNext, PTL DEF Spec
<1>3. PathInv /\ ToolInv /\ WayInv
        => [\A p \in Paths :
               fs[p] # Absent /\ fs'[p] = Absent =>
                 \A c \in Calls : Call(c) =>
                    \/ pc[c] = "clear" /\ request[c].overwrite /\ StartsWith(p, Leads(c, to[c]))
                    \/ pc[c] \in {"rename", "remove"} /\ StartsWith(p, Leads(c, from[c]))]_vars
  BY <1>1 DEF Taken
<1> QED
  BY <1>2, <1>3, PTL DEF Spec, RemovalStaysBelow
-----------------------------------------------------------------------------
(***************************************************************************)
(* Paths below a path, and what a single change to a tree does to them.    *)
(***************************************************************************)
\* Of two paths that a path starts with, one starts with the other.
LEMMA Comparable ==
  ASSUME NEW x \in Seq(Names), NEW p \in Seq(Names), NEW q \in Seq(Names),
         StartsWith(x, p), StartsWith(x, q)
  PROVE  StartsWith(p, q) \/ StartsWith(q, p)
<1>1. PICK m, n \in Nat : m = Len(p) /\ n = Len(q)
  BY LenProperties
<1>2. (\A j \in 1..m : x[j] = p[j]) /\ \A j \in 1..n : x[j] = q[j]
  BY <1>1, StartsIs
<1>3. CASE n <= m
  <2>1. \A j \in 1..n : p[j] = q[j]
    BY <1>2, <1>3
  <2> QED
    BY <1>1, <1>3, <2>1, StartsIs
<1>4. CASE m <= n
  <2>1. \A j \in 1..m : q[j] = p[j]
    BY <1>2, <1>4
  <2> QED
    BY <1>1, <1>4, <2>1, StartsIs
<1> QED
  BY <1>1, <1>3, <1>4

\* A path with names behind it starts with it, and what starts with it is it with
\* names behind it.
LEMMA StartsJoin ==
  ASSUME NEW p \in Seq(Names)
  PROVE  /\ \A s \in Seq(Names) : p \o s \in Seq(Names) /\ StartsWith(p \o s, p)
         /\ \A x \in Seq(Names) : StartsWith(x, p) => \E s \in Seq(Names) : x = p \o s
         /\ \A s, v \in Seq(Names) : /\ p \o s = p \o v => s = v
                                     /\ StartsWith(p \o s, p \o v) <=> StartsWith(s, v)
<1>1. PICK m \in Nat : m = Len(p)
  BY LenProperties
<1>2. ASSUME NEW s \in Seq(Names) PROVE p \o s \in Seq(Names) /\ StartsWith(p \o s, p)
  <2>1. PICK x : x = p \o s
    OBVIOUS
  <2>2. x \in Seq(Names) /\ Len(x) = Len(p) + Len(s) /\ \A j \in 1..Len(p) : x[j] = p[j]
    BY <2>1, JoinIs
  <2>3. Len(p) <= Len(x)
    BY <1>1, <2>2, LenProperties
  <2> QED
    BY <2>1, <2>2, <2>3, StartsIs
<1>3. ASSUME NEW x \in Seq(Names), StartsWith(x, p) PROVE \E s \in Seq(Names) : x = p \o s
  <2>1. PICK n \in Nat : n = Len(x)
    BY LenProperties
  <2>2. m <= n /\ \A j \in 1..m : x[j] = p[j]
    BY <1>1, <1>3, <2>1, StartsIs
  <2>3. PICK s : s = SubSeq(x, m + 1, n)
    OBVIOUS
  <2>4. m \in 0..Len(x)
    BY <2>1, <2>2
  <2>5. s \in Seq(Names) /\ Len(s) = n - m /\ \A j \in 1..n - m : s[j] = x[m + j]
    BY <2>1, <2>3, <2>4, RestIs
  <2>6. PICK y : y = p \o s
    OBVIOUS
  <2>7. y \in Seq(Names) /\ Len(y) = m + (n - m)
        /\ (\A j \in 1..m : y[j] = p[j]) /\ \A j \in 1..n - m : y[m + j] = s[j]
    BY <1>1, <2>5, <2>6, JoinIs, SMTT(30)
  <2>8. ASSUME NEW j \in 1..n PROVE y[j] = x[j]
    <3>1. CASE j <= m
      BY <2>2, <2>7, <3>1
    <3>2. CASE j > m
      <4>1. PICK i \in 1..n - m : j = m + i
        <5>1. j - m \in 1..n - m /\ j = m + (j - m)
          BY <3>2
        <5> QED
          BY <5>1
      <4> QED
        BY <2>5, <2>7, <4>1
    <3> QED
      BY <3>1, <3>2
  <2>9. y = x
    BY <2>1, <2>7, <2>8, SeqEqual
  <2> QED
    BY <2>5, <2>6, <2>9
<1>4. ASSUME NEW s \in Seq(Names), NEW v \in Seq(Names)
      PROVE  /\ p \o s = p \o v => s = v
             /\ StartsWith(p \o s, p \o v) <=> StartsWith(s, v)
  <2>1. PICK k, l \in Nat : k = Len(s) /\ l = Len(v)
    BY LenProperties
  <2>2. PICK x, y : x = p \o s /\ y = p \o v
    OBVIOUS
  <2>3. /\ x \in Seq(Names) /\ Len(x) = m + k
        /\ (\A j \in 1..m : x[j] = p[j]) /\ \A j \in 1..k : x[m + j] = s[j]
    BY <1>1, <2>1, <2>2, JoinIs
  <2>4. /\ y \in Seq(Names) /\ Len(y) = m + l
        /\ (\A j \in 1..m : y[j] = p[j]) /\ \A j \in 1..l : y[m + j] = v[j]
    BY <1>1, <2>1, <2>2, JoinIs
  <2>5. x = y => s = v
    <3>1. x = y => k = l /\ \A j \in 1..Len(s) : s[j] = v[j]
      BY <2>1, <2>3, <2>4
    <3> QED
      BY <2>1, <3>1, SeqEqual
  <2>6. StartsWith(x, y) <=> m + l <= m + k /\ \A j \in 1..m + l : x[j] = y[j]
    <3>1. StartsWith(x, y) <=> Len(y) <= Len(x) /\ \A j \in 1..Len(y) : x[j] = y[j]
      <4>1. x \in Seq(Names) /\ y \in Seq(Names)
        BY <2>3, <2>4
      <4> QED
        BY <4>1, StartsIs
    <3>2. Len(x) = m + k /\ Len(y) = m + l
      BY <2>3, <2>4
    <3> QED
      BY <3>1, <3>2
  <2>7. StartsWith(s, v) <=> l <= k /\ \A j \in 1..l : s[j] = v[j]
    BY <2>1, StartsIs
  <2>8. ASSUME l <= k
        PROVE  (\A j \in 1..m + l : x[j] = y[j]) <=> \A j \in 1..l : s[j] = v[j]
    <3>1. ASSUME \A j \in 1..m + l : x[j] = y[j], NEW i \in 1..l PROVE s[i] = v[i]
      <4>1. m + i \in 1..m + l /\ i \in 1..k
        BY <2>8
      <4>2. x[m + i] = y[m + i] /\ x[m + i] = s[i] /\ y[m + i] = v[i]
        BY <2>3, <2>4, <3>1, <4>1
      <4> QED
        BY <4>2
    <3>2. ASSUME \A j \in 1..l : s[j] = v[j], NEW j \in 1..m + l PROVE x[j] = y[j]
      <4>1. CASE j <= m
        BY <2>3, <2>4, <4>1
      <4>2. CASE j > m
        <5>1. PICK i \in 1..l : j = m + i
          <6>1. j - m \in 1..l /\ j = m + (j - m)
            BY <4>2
          <6> QED
            BY <6>1
        <5>2. i \in 1..k
          BY <2>8
        <5> QED
          BY <2>3, <2>4, <3>2, <5>1, <5>2
      <4> QED
        BY <4>1, <4>2
    <3> QED
      BY <3>1, <3>2
  <2>9. StartsWith(x, y) <=> StartsWith(s, v)
    BY <2>6, <2>7, <2>8
  <2> QED
    BY <2>2, <2>5, <2>9
<1> QED
  BY <1>2, <1>3, <1>4

\* A name behind a path with names behind it.
LEMMA JoinLonger ==
  ASSUME NEW p \in Seq(Names), NEW s \in Seq(Names), NEW n \in Names
  PROVE  /\ Append(s, n) \in NE /\ Append(p \o s, n) = p \o Append(s, n)
         /\ StartsWith(Append(s, n), s)
<1>1. PICK e : e = <<n>>
  OBVIOUS
<1>2. e \in Seq(Names) /\ p \o s \in Seq(Names)
  BY <1>1, JoinIs
<1>3. Append(s, n) = s \o e /\ Append(p \o s, n) = (p \o s) \o e
  BY <1>1, <1>2, AppendIsConcat
<1>4. (p \o s) \o e = p \o (s \o e)
  BY <1>2, ConcatAssociative
<1> QED
  BY <1>3, <1>4, LongerIs DEF NE

\* A path starts with its directory, which does not start with it.
LEMMA FrontStarts ==
  ASSUME NEW q \in NE
  PROVE  Front(q) \in Seq(Names) /\ StartsWith(q, Front(q)) /\ ~StartsWith(Front(q), q)
<1>1. /\ q \in Seq(Names) /\ q # <<>> /\ Front(q) \in Seq(Names) /\ Last(q) \in Names
      /\ q = Append(Front(q), Last(q)) /\ Len(q) \in Nat \ {0} /\ Len(Front(q)) = Len(q) - 1
  BY FrontIs DEF NE
<1>2. PICK f, x : f = Front(q) /\ x = Last(q)
  OBVIOUS
<1>3. StartsWith(Append(f, x), f)
  BY <1>1, <1>2, LongerIs
<1>4. StartsWith(q, Front(q))
  BY <1>1, <1>2, <1>3
<1>5. ~StartsWith(Front(q), q)
  <2>1. StartsWith(Front(q), q) => Len(q) <= Len(Front(q))
    BY <1>1, StartsIs
  <2>2. ~(Len(q) <= Len(Front(q)))
    BY <1>1
  <2> QED
    BY <2>1, <2>2
<1>6. Front(q) \in Seq(Names)
  BY <1>1
<1> QED
  BY <1>4, <1>5, <1>6

\* Where nothing is there is nothing below.
LEMMA NothingBelow ==
  ASSUME NEW t, IsTree(t), NEW q \in Seq(Names), ~IsDir(t, q), NEW x \in Seq(Names),
         StartsWith(x, q), x # q
  PROVE  At(t, x) = Absent
BY SomethingInside

\* Where the same links are, the same is followed.
LEMMA SameLinks ==
  ASSUME NEW t, NEW u,
         \A x : At(u, x) = At(t, x) \/ (At(t, x).kind # "link" /\ At(u, x).kind # "link")
  PROVE  \A p : Links(u, p) = Links(t, p) /\ Real(u, p) = Real(t, p)
<1>1. ASSUME NEW p PROVE Links(u, p) = Links(t, p)
  BY DEF Links
<1>2. ASSUME NEW p PROVE Follow(u, p) = Follow(t, p)
  <2>1. CASE Links(t, p) = {}
    BY <1>1, <2>1 DEF Follow
  <2>2. CASE Links(t, p) # {}
    <3>1. PICK i : i = Min(Links(t, p))
      OBVIOUS
    <3>2. i \in Links(t, p)
      <4>1. Links(t, p) \subseteq 1..Len(p)
        BY DEF Links
      <4> QED
        BY <2>2, <3>1, <4>1, MinIn
    <3>3. At(t, SubSeq(p, 1, i)).kind = "link"
      BY <3>2 DEF Links
    <3>4. At(u, SubSeq(p, 1, i)) = At(t, SubSeq(p, 1, i))
      BY <3>3
    <3> QED
      BY <1>1, <2>2, <3>1, <3>4 DEF Follow
  <2> QED
    BY <2>1, <2>2
<1>3. ASSUME NEW p PROVE Real(u, p) = Real(t, p)
  BY <1>2 DEF Real
<1> QED
  BY <1>1, <1>3
\* A path without a link but at its end, if there, has none if there is none.
LEMMA PlainLonger ==
  ASSUME NEW t, NEW p \in NE, Links(t, Front(p)) = {}, At(t, p).kind # "link"
  PROVE  Links(t, p) = {}
<1>1. PICK f, e : f = Front(p) /\ e = <<Last(p)>>
  OBVIOUS
<1>2. PICK n \in Nat : n = Len(p) /\ n - 1 \in Nat /\ Len(f) = n - 1
  <2>1. Len(p) \in Nat \ {0} /\ Len(Front(p)) = Len(p) - 1
    BY FrontIs DEF NE
  <2> QED
    BY <1>1, <2>1
<1>3. p = f \o e /\ f \in Seq(Names) /\ e \in Seq(Names) /\ p \in Seq(Names)
  <2>1. p \in Seq(Names) /\ p # <<>>
    BY DEF NE
  <2>2. Front(p) \in Seq(Names) /\ Last(p) \in Names /\ p = Append(Front(p), Last(p))
    BY <2>1, FrontIs
  <2>3. Append(Front(p), Last(p)) = Front(p) \o <<Last(p)>>
    BY <2>2, AppendIsConcat
  <2>4. <<Last(p)>> \in Seq(Names)
    BY <2>2
  <2> QED
    BY <1>1, <2>1, <2>2, <2>3, <2>4
<1>4. \A i \in 1..n - 1 : i \notin Links(t, p)
  <2>1. \A i \in 1..Len(f) : i \in Links(t, f \o e) <=> i \in Links(t, f)
    BY <1>3, LinksJoin
  <2> QED
    BY <1>1, <1>2, <1>3, <2>1
<1>5. n \notin Links(t, p)
  <2>1. SubSeq(p, 1, n) = p
    BY <1>2, <1>3, SubSeqFull
  <2> QED
    BY <2>1 DEF Links
<1>6. Links(t, p) \subseteq 1..n
  BY <1>2 DEF Links
<1> QED
  BY <1>2, <1>4, <1>5, <1>6

\* Where the directory of a path does not exist, nothing can be put there, nor where
\* the path leads.
LEMMA CannotReach ==
  ASSUME IsTree(fs), NEW q \in NE, ~Exists(fs, Front(q))
  PROVE  /\ Status(fs, q) = Absent /\ ~Room(q)
         /\ ~Free(Real(fs, q)) /\ At(fs, Real(fs, q)).kind # "file"
<1>1. PICK f, e, x : f = Front(q) /\ e = <<Last(q)>> /\ x = Real(fs, q)
  OBVIOUS
<1>2. q \in Seq(Names) /\ q # <<>> /\ f \in Seq(Names) /\ e \in Seq(Names) /\ Last(q) \in Names
  BY <1>1, FrontIs DEF NE
<1>3. q = f \o e
  <2>1. q = Append(Front(q), Last(q))
    BY <1>2, FrontIs
  <2>2. Append(f, Last(q)) = f \o <<Last(q)>>
    BY <1>2, AppendIsConcat
  <2> QED
    BY <1>1, <2>1, <2>2
<1>4. ~Exists(fs, q)
  BY <1>1, <1>2, <1>3, ExistsPrefix
<1>5. x \in Seq(Names) /\ x # <<>> /\ Real(fs, f) \in Seq(Names)
  BY <1>1, <1>2, RealTyped
<1>6. PICK g, y : g = Real(fs, f) /\ y = g \o e
  OBVIOUS
<1>7. ~IsDir(fs, g)
  <2>1. ASSUME IsDir(fs, g) PROVE Exists(fs, f)
    <3>1. Links(fs, g) = {} /\ At(fs, g) # Absent
      BY <2>1, DirPlain DEF IsDir, Absent, Node
    <3> QED
      BY <1>6, <3>1, ExistsIs
  <2> QED
    BY <1>1, <2>1
<1>8. ~Room(q)
  <2>1. Front(Spot(q)) = g
    BY <1>1, <1>2, <1>6, SpotTyped
  <2> QED
    BY <1>7, <2>1 DEF Room, Free
<1>9. At(fs, x).kind # "file"
  <2>1. ASSUME At(fs, x).kind = "file" PROVE FALSE
    <3>1. At(fs, x) # Absent
      BY <2>1 DEF Absent, Node
    <3>2. Links(fs, x) = {}
      BY <1>5, <2>1, <3>1, AbovePlain
    <3> QED
      BY <1>1, <1>4, <3>1, <3>2, ExistsIs
  <2> QED
    BY <2>1
<1>10. ~Free(x)
  <2>1. SUFFICES ASSUME Free(x) PROVE FALSE
    OBVIOUS
  <2>2. x \in Paths /\ IsDir(fs, Front(x)) /\ At(fs, x) = Absent
    BY <2>1 DEF Free, At
  <2>3. Links(fs, x) = {}
    <3>1. Links(fs, Front(x)) = {}
      BY <2>2, DirPlain
    <3>2. At(fs, x).kind # "link"
      BY <2>2 DEF Absent, Node
    <3> QED
      BY <1>5, <3>1, <3>2, PlainLonger DEF NE
  <2>4. Links(fs, g) = {} /\ Real(fs, y) = x
    <3>1. x = Real(fs, f \o e)
      BY <1>1, <1>3
    <3>2. Links(fs, Real(fs, f \o e)) = {}
      BY <2>3, <3>1
    <3>3. Links(fs, Real(fs, f)) = {} /\ Real(fs, Real(fs, f) \o e) = Real(fs, f \o e)
      BY <1>2, <3>2, RealJoin
    <3> QED
      BY <1>6, <3>1, <3>3
  <2>5. y = Append(g, Last(q)) /\ g \in Seq(Names)
    <3>1. g \in Seq(Names)
      BY <1>5, <1>6
    <3>2. Append(g, Last(q)) = g \o <<Last(q)>>
      BY <1>2, <3>1, AppendIsConcat
    <3> QED
      BY <1>1, <1>6, <3>1, <3>2
  <2>6. y \in NE /\ Front(y) = g /\ StartsWith(y, g)
    BY <1>2, <2>5, LongerIs DEF NE
  <2>7. y # g
    <3>1. Len(g) \in Nat /\ Len(Append(g, Last(q))) = Len(g) + 1
      BY <1>2, <2>5, LongerIs, LenProperties
    <3> QED
      BY <2>5, <3>1
  <2>8. At(fs, y) = Absent
    BY <1>7, <2>5, <2>6, <2>7, NothingBelow DEF NE
  <2>9. Links(fs, y) = {}
    BY <2>4, <2>6, <2>8, PlainLonger DEF Absent, Node
  <2>10. x = y
    BY <2>4, <2>9, RealPlain
  <2> QED
    BY <1>7, <2>2, <2>6, <2>10
<1> QED
  BY <1>1, <1>4, <1>8, <1>9, <1>10 DEF Exists

\* The entry x goes to y, where nothing is, and no link is above either; U is the tree
\* then, N what of it is to follow.
Plain(c, x, y, U, N) ==
    /\ CanCopy(c, <<x, y>>) /\ U = Copied(c, <<x, y>>) /\ N = Entries(c, <<x, y>>)
    /\ Links(fs, Front(x)) = {} /\ Links(fs, Front(y)) = {} /\ At(fs, y) = Absent
    /\ IsDir(fs, x) => Deep(c)

\* An entry that lies where its path says and goes where nothing is, with no link above
\* it, is put at the very place.
LEMMA CopyPlain ==
  ASSUME PathInv, NEW c \in Calls, NEW x \in NE, NEW y \in NE, NEW U, NEW N, Plain(c, x, y, U, N)
  PROVE  /\ Free(y) /\ At(fs, x) # Absent /\ U = [fs EXCEPT ![y] = At(fs, x)]
         /\ \A d : d \in N <=> /\ IsDir(fs, x)
                               /\ \E m \in Inside(U, x) : d = <<Append(x, m), Append(y, m)>>
<1> PICK e, n : e = <<x, y>> /\ n = At(fs, x)
  OBVIOUS
<1> USE DEF Plain
<1>1. e = <<x, y>> /\ x = e[1] /\ y = e[2] /\ n = At(fs, x)
  OBVIOUS
<1>2. x \in NE /\ y \in NE /\ IsTree(fs)
  BY <1>1 DEF PathInv
<1>3. Spot(x) = x /\ Spot(y) = y /\ Lstat(x) = n
  BY <1>1, <1>2, SpotPlain DEF Lstat
<1>4. Links(fs, y) = {} /\ Real(fs, y) = y /\ Status(fs, y) = Absent
  <2>1. Links(fs, y) = {}
    BY <1>1, <1>2, PlainLonger DEF Absent, Node
  <2>2. Real(fs, y) = y
    BY <2>1, RealPlain
  <2> QED
    BY <1>1, <2>1, <2>2 DEF Status
<1>5. Goal(e) = y
  BY <1>1, <1>4 DEF Goal, Absent, Node
<1>6. Status(fs, y).kind # "dir" /\ At(fs, y).kind # "file"
  BY <1>1, <1>4 DEF Absent, Node
<1>7. Free(y) /\ n # Absent
  <2>1. CASE n.kind = "dir"
    <3>1. Room(y)
      BY <1>1, <1>3, <1>6, <2>1 DEF CanCopy
    <3> QED
      BY <1>3, <2>1, <3>1 DEF Room, Absent, Node
  <2>2. CASE n.kind = "file"
    <3>1. Room(y) \/ At(fs, y).kind = "file" \/ Free(y)
      BY <1>1, <1>3, <1>4, <1>5, <2>2 DEF CanCopy
    <3> QED
      BY <1>3, <1>6, <2>2, <3>1 DEF Room, Absent, Node
  <2>3. CASE n.kind \notin {"dir", "file"}
    <3>1. n.kind = "link" /\ Room(y)
      BY <1>1, <1>3, <2>3 DEF CanCopy
    <3> QED
      BY <1>3, <3>1 DEF Room, Absent, Node
  <2> QED
    BY <2>1, <2>2, <2>3
<1>8. Room(Goal(e))
  BY <1>3, <1>5, <1>7 DEF Room
<1>9. n.kind = "dir" => Deep(c)
  BY <1>1 DEF IsDir
<1>10. Copied(c, e) = [fs EXCEPT ![y] = n]
  BY <1>1, <1>3, <1>5, <1>6, <1>8, <1>9 DEF Copied
<1>11. N = IF IsDir(fs, x) THEN {<<Append(x, m), Append(y, m)>> : m \in Inside(U, x)} ELSE {}
  BY <1>1, <1>3, <1>9 DEF Entries, IsDir
<1>12. \A d : d \in N <=> /\ IsDir(fs, x)
                          /\ \E m \in Inside(U, x) : d = <<Append(x, m), Append(y, m)>>
  BY <1>11
<1> QED
  BY <1>1, <1>7, <1>10, <1>12
-----------------------------------------------------------------------------
(***************************************************************************)
(* What a call that copies or moves has made of the tree, while it is      *)
(* alone: r is its request, w the tree when it began and t the tree now, p *)
(* and q are its paths, l is where it is and T what it has yet to copy.    *)
(***************************************************************************)
\* All is as it was, but for what a move clears and what it removes.
Kept(r, w, p, q, t, l) == \A x \in Paths :
    \/ w[x] = Absent \/ t[x] = w[x]
    \/ r.tool = "move" /\ r.overwrite /\ StartsWith(x, q)
    \/ l = "remove" /\ StartsWith(x, p)

\* Nothing comes to be in the source either, if the destination is outside it.
Held(w, p, q, t, l) ==
    ~StartsWith(q, p) /\ l # "remove" =>
        \A s \in Seq(Names) : At(t, p \o s) = At(w, p \o s)

\* Where nothing was at the destination, nothing else has changed but what is above it.
Apart(w, p, q, t, l) ==
    At(w, q) = Absent => \A x \in Paths :
        \/ StartsWith(x, q) \/ StartsWith(q, x)
        \/ l = "remove" /\ StartsWith(x, p)
        \/ t[x] = w[x]

\* Until the first entry is copied the destination is not there, but if it has yet to
\* be cleared or if files may be copied over it.
First(p, q, l, T) == l = "copy" /\ T = {<<p, q>>}
Unmade(r, w, p, q, t, l, T) ==
    l \in {"parents", "clear", "rename"} \/ First(p, q, l, T) =>
        /\ Exists(t, Front(q)) => Links(t, Front(q)) = {}
        /\ At(w, q) = Absent => At(t, q) = Absent
        /\ l # "clear" /\ (~r.overwrite \/ l = "rename" \/ (l = "copy" /\ r.tool = "move"))
             => ~Exists(t, q)

\* A file that has been copied through a link is where that leads.
Through(w, p, q, t) ==
    /\ At(w, q) # Absent
    /\ At(t, q).kind = "link" /\ At(w, p).kind = "file" /\ At(t, p).kind \in {"file", "absent"}
    /\ At(t, Real(t, q)) = At(w, p) /\ ~StartsWith(Real(t, q), p)

\* What is due is not there yet, and what of the source is not there yet is due.  If
\* the destination is inside the source there is always an entry due that will meet
\* its own copy: such a copy does not end.
Owed(p, s, T) == \E e \in T : StartsWith(p \o s, e[1])
Entry(p, q, t, e) ==
    /\ \E u \in NE : e = <<p \o u, q \o u>>
    /\ IsDir(t, Front(e[1])) /\ IsDir(t, Front(e[2])) /\ At(t, e[2]) = Absent
Chased(p, q, T) == StartsWith(q, p) => \E e \in T : StartsWith(e[2], e[1])
Whole(w, p, q, t, T) ==
    ~StartsWith(q, p) =>
        \A s \in Seq(Names) : \/ At(t, q \o s) = At(w, p \o s)
                              \/ At(t, q \o s) = Absent /\ Owed(p, s, T)
Landing(w, p, q, t, l, T) ==
    /\ l = "copy" =>
          \/ First(p, q, l, T)
          \/ T = {} /\ ~StartsWith(q, p) /\ Through(w, p, q, t)
          \/ (\A e \in T : Entry(p, q, t, e)) /\ Chased(p, q, T) /\ Whole(w, p, q, t, T)
    /\ l = "remove" =>
          /\ ~StartsWith(q, p)
          /\ \A s \in Seq(Names) : At(t, p \o s) \in {Absent, At(w, p \o s)}
          /\ Through(w, p, q, t) \/ \A s \in Seq(Names) : At(t, q \o s) = At(w, p \o s)

Made(r, w, p, q, t, l, T) ==
    /\ Kept(r, w, p, q, t, l) /\ Held(w, p, q, t, l) /\ Apart(w, p, q, t, l)
    /\ Unmade(r, w, p, q, t, l, T) /\ Landing(w, p, q, t, l, T)

\* What holds of the request once it has been looked at, and which calls it is about: the
\* source is not inside the destination, and nothing is copied over what was there.
Sound(r, w, p, q) ==
    /\ IsTree(w)
    /\ r.tool \in {"copy", "move"} =>
          /\ At(w, p).kind \in {"file", "dir"}
          /\ r.tool = "move" \/ r.recursive \/ ~IsDir(w, p)
          /\ r.overwrite \/ ~StartsWith(p, q)
Scope(r, w, p, q) ==
    /\ r.tool \in {"copy", "move"} /\ ~StartsWith(p, q)
    /\ r.tool = "move" \/ ~r.overwrite \/ At(w, q) = Absent

W(c) == before[c][1]
MadeBy(c) == Made(request[c], W(c), from[c], to[c], fs, pc[c], todo[c])
Copies(c) ==
    /\ Sound(request[c], W(c), from[c], to[c])
    /\ Scope(request[c], W(c), from[c], to[c]) => MadeBy(c)
CopyInv ==
    /\ before = [c \in Calls |-> before[c]] /\ result = [c \in Calls |-> result[c]]
    /\ \A c \in Calls : quiet[c] /\ pc[c] \notin {"start", "done"} => Copies(c)

\* What is gone, with no link above it, does not exist.
LEMMA GoneNot ==
  ASSUME NEW t, NEW q \in NE, Links(t, Front(q)) = {}, At(t, q) = Absent
  PROVE  ~Exists(t, q)
<1>1. Links(t, q) = {}
  BY PlainLonger DEF Absent, Node
<1> QED
  BY <1>1, RealPlain, ExistsIs

\* The directory of what exists does.
LEMMA ExistsFront ==
  ASSUME NEW t, IsTree(t), NEW q \in NE, Exists(t, q)
  PROVE  Exists(t, Front(q))
<1>1. PICK f, e : f = Front(q) /\ e = <<Last(q)>>
  OBVIOUS
<1>2. q \in Seq(Names) /\ q # <<>> /\ f \in Seq(Names) /\ e \in Seq(Names) /\ Last(q) \in Names
  BY <1>1, FrontIs DEF NE
<1>3. q = f \o e
  <2>1. q = Append(Front(q), Last(q))
    BY <1>2, FrontIs
  <2>2. Append(f, Last(q)) = f \o <<Last(q)>>
    BY <1>2, AppendIsConcat
  <2> QED
    BY <1>1, <2>1, <2>2
<1> QED
  BY <1>1, <1>2, <1>3, ExistsPrefix

\* Nothing is disturbed by what is added above or below the destination or, where a link
\* was at that, outside the source, by what a move clears there, and by what it removes.
LEMMA Undisturbed ==
  ASSUME NEW r, NEW w, NEW p \in NE, NEW q \in NE, NEW t, NEW u, NEW l, NEW k,
         l = "remove" => k = "remove", ~StartsWith(p, q),
         Kept(r, w, p, q, t, l), Held(w, p, q, t, l), Apart(w, p, q, t, l),
         \A x \in Paths : \/ u[x] = t[x]
                          \/ t[x] = Absent /\ (StartsWith(x, q) \/ StartsWith(q, x))
                          \/ t[x] = Absent /\ ~StartsWith(x, p) /\ At(w, q) # Absent
                          \/ r.tool = "move" /\ r.overwrite /\ StartsWith(x, q)
                          \/ k = "remove" /\ StartsWith(x, p)
  PROVE  Kept(r, w, p, q, u, k) /\ Held(w, p, q, u, k) /\ Apart(w, p, q, u, k)
<1>1. p \in Seq(Names) /\ q \in Seq(Names) /\ \A x \in Paths : x \in Seq(Names)
  BY PathsAre DEF NE
<1>2. Kept(r, w, p, q, u, k)
  BY DEF Kept
<1>3. ASSUME ~StartsWith(q, p), k # "remove", NEW s \in Seq(Names)
      PROVE  At(u, p \o s) = At(w, p \o s)
  <2>1. PICK x : x = p \o s
    OBVIOUS
  <2>2. x \in Seq(Names) /\ StartsWith(x, p)
    BY <1>1, <2>1, StartsJoin
  <2>3. At(t, x) = At(w, x)
    BY <1>3, <2>1 DEF Held
  <2>4. ~StartsWith(x, q)
    BY <1>1, <1>3, <2>2, Comparable
  <2>5. ~StartsWith(q, x)
    BY <1>1, <1>3, <2>2, StartsForms
  <2>6. x \in Paths => u[x] = t[x]
    BY <1>3, <2>2, <2>4, <2>5
  <2>7. At(u, x) = At(t, x)
    BY <2>6 DEF At
  <2> QED
    BY <2>1, <2>3, <2>7
<1>4. Held(w, p, q, u, k)
  BY <1>3 DEF Held
<1>5. Apart(w, p, q, u, k)
  BY DEF Apart
<1> QED
  BY <1>2, <1>4, <1>5

\* Each tool keeps it.  It holds when both paths have been looked at.
LEMMA MadeAtFirst ==
  ASSUME NEW r, NEW w, NEW p, NEW q, NEW T,
         Exists(w, Front(q)) => Links(w, Front(q)) = {}, ~r.overwrite => ~Exists(w, q)
  PROVE  Made(r, w, p, q, w, "parents", T)
BY DEF Made, Kept, Held, Apart, Unmade, Landing, First

\* Directories are made above the destination.
LEMMA CreateParentsMade ==
  ASSUME PathInv, PathInv', NEW c \in Calls, CreateParents(c), Way(c),
         Scope(request[c], W(c), from[c], to[c]), MadeBy(c), pc'[c] \notin {"start", "done"}
  PROVE  Made(request[c], W(c), from[c], to[c], fs', pc'[c], todo'[c])
<1>1. PICK r, w, p, q : r = request[c] /\ w = W(c) /\ p = from[c] /\ q = to[c]
  OBVIOUS
<1>2. PICK u, k, T : u = fs' /\ k = pc'[c] /\ T = todo'[c]
  OBVIOUS
<1>3. /\ pc[c] = "parents" /\ p \in NE /\ q \in NE /\ IsTree(fs) /\ IsTree(u)
      /\ r.tool \in {"copy", "move"} /\ ~StartsWith(p, q)
  BY <1>1, <1>2 DEF CreateParents, PathInv, Ready, Scope
<1>4. /\ Kept(r, w, p, q, fs, "parents") /\ Held(w, p, q, fs, "parents")
      /\ Apart(w, p, q, fs, "parents") /\ Unmade(r, w, p, q, fs, "parents", todo[c])
  BY <1>1, <1>3 DEF MadeBy, Made
<1>5. PICK f : f = Front(q)
  OBVIOUS
<1>6. f \in Seq(Names) /\ StartsWith(q, f) /\ ~StartsWith(f, q) /\ q \in Seq(Names)
  BY <1>3, <1>5, FrontStarts DEF NE
<1>7. ~(r.parents /\ ~Creatable(f))
  BY <1>1, <1>2, <1>5 DEF CreateParents, Throw, Return, PathInv
<1>8. /\ u = IF r.parents THEN Created(f) ELSE fs
      /\ r.tool = "copy" => k = "copy" /\ T = {<<p, q>>}
      /\ r.tool = "move" => k = IF r.overwrite THEN "clear" ELSE "rename"
  BY <1>1, <1>2, <1>5, <1>7 DEF CreateParents, Goto, Is, PathInv
<1>9. resolve_path(f) = f
  BY <1>1, <1>3, <1>5 DEF Way
<1>10. \A x \in Paths : \/ u[x] = fs[x]
                        \/ r.parents /\ fs[x] = Absent /\ StartsWith(f, x)
  BY <1>8, <1>9 DEF Created
<1>11. \A x \in Paths : StartsWith(f, x) => StartsWith(q, x)
  BY <1>6, StartsForms, PathsAre
<1>12. Kept(r, w, p, q, u, k) /\ Held(w, p, q, u, k) /\ Apart(w, p, q, u, k)
  BY <1>3, <1>4, <1>10, <1>11, Undisturbed
<1>13. /\ Exists(fs, f) => Links(fs, f) = {}
       /\ At(w, q) = Absent => At(fs, q) = Absent
       /\ ~r.overwrite => ~Exists(fs, q)
  BY <1>4, <1>5 DEF Unmade
<1>14. /\ Exists(u, f) => Links(u, f) = {}
       /\ At(w, q) = Absent => At(u, q) = Absent
       /\ ~r.overwrite => ~Exists(u, q)
  <2>1. CASE ~r.parents
    BY <1>8, <1>13, <2>1
  <2>2. CASE r.parents
    <3>1. Links(fs, f) = {}
      BY <1>7, <1>9, <2>2, CreatablePlain
    <3>2. Links(u, f) = {}
      BY <1>8, <2>2, <3>1, CreatedLinks, LinksFewer
    <3>3. At(u, q) = At(fs, q)
      BY <1>6, <1>10 DEF At
    <3>4. CASE At(fs, q) = Absent
      BY <1>3, <1>5, <3>2, <3>3, <3>4, GoneNot
    <3>5. CASE At(fs, q) # Absent
      <4>1. ASSUME NEW x \in Paths, StartsWith(f, x) PROVE fs[x] # Absent
        <5>1. x \in Seq(Names) /\ StartsWith(q, x) /\ q # x
          BY <1>6, <1>11, <4>1, PathsAre
        <5>2. IsDir(fs, x)
          BY <1>3, <3>5, <5>1, SomethingInside
        <5> QED
          BY <5>2 DEF IsDir, At, Absent, Node
      <4>2. \A x \in Paths : u[x] = fs[x]
        BY <1>10, <4>1
      <4>3. u = fs
        BY <1>3, <4>2 DEF IsTree
      <4> QED
        BY <1>13, <4>3
    <3> QED
      BY <3>4, <3>5
  <2> QED
    BY <2>1, <2>2
<1>15. Unmade(r, w, p, q, u, k, T)
  BY <1>3, <1>5, <1>8, <1>14 DEF Unmade
<1>16. Landing(w, p, q, u, k, T)
  BY <1>3, <1>8 DEF Landing, First
<1> QED
  BY <1>1, <1>2, <1>12, <1>15, <1>16 DEF Made

\* The destination is taken away, below a path that leads through no link.
LEMMA ClearMade ==
  ASSUME PathInv, PathInv', ToolInv, NEW c \in Calls, Clear(c),
         Scope(request[c], W(c), from[c], to[c]), MadeBy(c), pc'[c] \notin {"start", "done"}
  PROVE  Made(request[c], W(c), from[c], to[c], fs', pc'[c], todo'[c])
<1>1. PICK r, w, p, q : r = request[c] /\ w = W(c) /\ p = from[c] /\ q = to[c]
  OBVIOUS
<1>2. PICK u, k, T : u = fs' /\ k = pc'[c] /\ T = todo'[c]
  OBVIOUS
<1>3. /\ pc[c] = "clear" /\ p \in NE /\ q \in NE /\ IsTree(fs) /\ IsTree(u)
      /\ r.tool = "move" /\ r.overwrite /\ ~StartsWith(p, q)
      /\ RemoveAll(c, q, Goto(c, "rename"))
  BY <1>1, <1>2 DEF Clear, PathInv, Ready, Scope, ToolInv, Is
<1>4. /\ Kept(r, w, p, q, fs, "clear") /\ Held(w, p, q, fs, "clear")
      /\ Apart(w, p, q, fs, "clear") /\ Unmade(r, w, p, q, fs, "clear", todo[c])
  BY <1>1, <1>3 DEF MadeBy, Made
<1>5. /\ Exists(fs, Front(q)) => Links(fs, Front(q)) = {}
      /\ At(w, q) = Absent => At(fs, q) = Absent
  BY <1>4 DEF Unmade
<1>6. ~Return(c, "error") /\ (Goto(c, "rename") => k = "rename")
  BY <1>2 DEF Return, Goto, PathInv
<1>7. CASE ~Exists(fs, q) /\ Goto(c, "rename") /\ UNCHANGED fs
  <2>1. u = fs /\ k = "rename"
    BY <1>2, <1>6, <1>7
  <2>2. Kept(r, w, p, q, u, k) /\ Held(w, p, q, u, k) /\ Apart(w, p, q, u, k)
    BY <1>3, <1>4, <2>1, Undisturbed
  <2>3. Unmade(r, w, p, q, u, k, T) /\ Landing(w, p, q, u, k, T)
    BY <1>5, <1>7, <2>1 DEF Unmade, Landing
  <2> QED
    BY <1>1, <1>2, <2>2, <2>3 DEF Made
<1>8. ASSUME NEW y \in Below(fs, Spot(q)), Exists(fs, q), fs' = [fs EXCEPT ![y] = Absent],
             IF y = Spot(q) THEN Goto(c, "rename") ELSE UNCHANGED <<pc, result>>
      PROVE  Made(r, w, p, q, u, k, T)
  <2>1. Links(fs, Front(q)) = {}
    BY <1>3, <1>5, <1>8, ExistsFront
  <2>2. Spot(q) = q
    BY <1>3, <2>1, SpotPlain
  <2>3. y \in Paths /\ StartsWith(y, q) /\ u = [fs EXCEPT ![y] = Absent]
    BY <1>2, <1>8, <2>2 DEF Below
  <2>4. /\ \A x : At(u, x) = IF x = y THEN Absent ELSE At(fs, x)
        /\ \A x \in Paths : u[x] = IF x = y THEN Absent ELSE fs[x]
    <3>1. \A x \in Paths : u[x] = IF x = y THEN Absent ELSE fs[x]
      BY <1>3, <2>3 DEF IsTree
    <3> QED
      BY <3>1 DEF At
  <2>5. (k = "rename" /\ y = q) \/ k = "clear"
    BY <1>2, <1>3, <1>6, <1>8, <2>2
  <2>6. Kept(r, w, p, q, u, k) /\ Held(w, p, q, u, k) /\ Apart(w, p, q, u, k)
    <3>1. \A x \in Paths : u[x] = fs[x] \/ StartsWith(x, q)
      BY <2>3, <2>4
    <3> QED
      BY <1>3, <1>4, <3>1, Undisturbed
  <2>7. Links(u, Front(q)) = {}
    BY <1>3, <2>1, <2>3, TakenLinks, LinksFewer
  <2>8. y = q => ~Exists(u, q)
    <3>1. y = q => At(u, q) = Absent
      BY <2>4
    <3> QED
      BY <1>3, <2>7, <3>1, GoneNot
  <2>9. At(w, q) = Absent => At(u, q) = Absent
    BY <1>5, <2>4
  <2>10. Unmade(r, w, p, q, u, k, T) /\ Landing(w, p, q, u, k, T)
    BY <2>5, <2>7, <2>8, <2>9 DEF Unmade, Landing
  <2> QED
    BY <2>6, <2>10 DEF Made
<1> QED
  BY <1>1, <1>2, <1>3, <1>6, <1>7, <1>8 DEF RemoveAll

\* A rename that goes on as a copy has changed nothing.
LEMMA RenameMade ==
  ASSUME PathInv, ToolInv, NEW c \in Calls, Rename(c),
         Scope(request[c], W(c), from[c], to[c]), MadeBy(c), pc'[c] \notin {"start", "done"}
  PROVE  Made(request[c], W(c), from[c], to[c], fs', pc'[c], todo'[c])
<1>1. PICK r, w, p, q : r = request[c] /\ w = W(c) /\ p = from[c] /\ q = to[c]
  OBVIOUS
<1>2. PICK u, k, T : u = fs' /\ k = pc'[c] /\ T = todo'[c]
  OBVIOUS
<1>3. pc[c] = "rename" /\ p \in NE /\ q \in NE /\ ~StartsWith(p, q)
  BY <1>1 DEF Rename, PathInv, Ready, Scope
<1>4. /\ Kept(r, w, p, q, fs, "rename") /\ Held(w, p, q, fs, "rename")
      /\ Apart(w, p, q, fs, "rename") /\ Unmade(r, w, p, q, fs, "rename", todo[c])
  BY <1>1, <1>3 DEF MadeBy, Made
<1>5. \A s : ~Return(c, s)
  BY DEF Return, PathInv
<1>6. Goto(c, "copy") /\ UNCHANGED fs /\ todo' = [todo EXCEPT ![c] = {<<from[c], to[c]>>}]
  BY <1>5 DEF Rename
<1>7. u = fs /\ k = "copy" /\ T = {<<p, q>>}
  BY <1>1, <1>2, <1>6 DEF Goto, PathInv
<1>8. Kept(r, w, p, q, u, k) /\ Held(w, p, q, u, k) /\ Apart(w, p, q, u, k)
  BY <1>3, <1>4, <1>7, Undisturbed
<1>9. Unmade(r, w, p, q, u, k, T) /\ Landing(w, p, q, u, k, T)
  BY <1>4, <1>7 DEF Unmade, Landing, First
<1> QED
  BY <1>1, <1>2, <1>8, <1>9 DEF Made

\* A copy ends when nothing is due, so that all of the source is there.
LEMMA NothingDue ==
  ASSUME NEW w, NEW p, NEW q, NEW t, Landing(w, p, q, t, "copy", {})
  PROVE  /\ ~StartsWith(q, p)
         /\ Through(w, p, q, t) \/ \A s \in Seq(Names) : At(t, q \o s) = At(w, p \o s)
<1>1. ~First(p, q, "copy", {})
  BY DEF First
<1>2. CASE ~StartsWith(q, p) /\ Through(w, p, q, t)
  BY <1>2
<1>3. CASE Chased(p, q, {}) /\ Whole(w, p, q, t, {})
  <2>1. ~StartsWith(q, p)
    BY <1>3 DEF Chased
  <2>2. \A s : ~Owed(p, s, {})
    BY DEF Owed
  <2> QED
    BY <1>3, <2>1, <2>2 DEF Whole
<1> QED
  BY <1>1, <1>2, <1>3 DEF Landing

\* So the whole tree is there when the source is to be removed.
LEMMA EndCopyMade ==
  ASSUME PathInv, NEW c \in Calls, EndCopy(c),
         Scope(request[c], W(c), from[c], to[c]), MadeBy(c), pc'[c] \notin {"start", "done"}
  PROVE  Made(request[c], W(c), from[c], to[c], fs', pc'[c], todo'[c])
<1>1. PICK r, w, p, q : r = request[c] /\ w = W(c) /\ p = from[c] /\ q = to[c]
  OBVIOUS
<1>2. PICK u, k, T : u = fs' /\ k = pc'[c] /\ T = todo'[c]
  OBVIOUS
<1>3. /\ pc[c] = "copy" /\ p \in NE /\ q \in NE /\ ~StartsWith(p, q) /\ todo[c] = {} /\ u = fs
  BY <1>1, <1>2 DEF EndCopy, PathInv, Ready, Scope
<1>4. /\ Kept(r, w, p, q, fs, "copy") /\ Held(w, p, q, fs, "copy")
      /\ Apart(w, p, q, fs, "copy") /\ Landing(w, p, q, fs, "copy", {})
  BY <1>1, <1>3 DEF MadeBy, Made
<1>5. k = "remove"
  <2>1. \A s : ~Return(c, s)
    BY DEF Return, PathInv
  <2> QED
    BY <1>2, <2>1 DEF EndCopy, Goto, PathInv
<1>6. Kept(r, w, p, q, u, k) /\ Held(w, p, q, u, k) /\ Apart(w, p, q, u, k)
  BY <1>3, <1>4, <1>5, Undisturbed
<1>7. Unmade(r, w, p, q, u, k, T)
  BY <1>5 DEF Unmade, First
<1>8. Landing(w, p, q, u, k, T)
  <2>1. ~StartsWith(q, p) /\ (\/ Through(w, p, q, fs)
                             \/ \A s \in Seq(Names) : At(fs, q \o s) = At(w, p \o s))
    BY <1>4, NothingDue
  <2>2. \A s \in Seq(Names) : At(fs, p \o s) = At(w, p \o s)
    BY <1>4, <2>1 DEF Held
  <2> QED
    BY <1>3, <1>5, <2>1, <2>2 DEF Landing
<1> QED
  BY <1>1, <1>2, <1>6, <1>7, <1>8 DEF Made
\* The source of a move is taken away, which leaves what has been copied.
LEMMA RemovePathMade ==
  ASSUME PathInv, PathInv', ToolInv, NEW c \in Calls, RemovePath(c), Way(c),
         Scope(request[c], W(c), from[c], to[c]), MadeBy(c), pc'[c] \notin {"start", "done"}
  PROVE  Made(request[c], W(c), from[c], to[c], fs', pc'[c], todo'[c])
<1>1. PICK r, w, p, q : r = request[c] /\ w = W(c) /\ p = from[c] /\ q = to[c]
  OBVIOUS
<1>2. PICK u, k, T : u = fs' /\ k = pc'[c] /\ T = todo'[c]
  OBVIOUS
<1>3. /\ pc[c] = "remove" /\ p \in NE /\ q \in NE /\ IsTree(fs)
      /\ p \in Seq(Names) /\ q \in Seq(Names)
      /\ ~StartsWith(p, q) /\ Spot(p) = p /\ Is(c, "move")
  <2>1. pc[c] = "remove" /\ p \in NE /\ q \in NE /\ ~StartsWith(p, q) /\ IsTree(fs)
    BY <1>1 DEF RemovePath, PathInv, Ready, Scope
  <2>2. Is(c, "move")
    BY <1>1, <2>1 DEF ToolInv, Scope, Is
  <2>3. Spot(p) = p
    BY <1>1, <2>1, <2>2, SpotPlain DEF Way, Is
  <2> QED
    BY <2>1, <2>2, <2>3 DEF NE
<1>4. /\ Kept(r, w, p, q, fs, "remove") /\ Held(w, p, q, fs, "remove")
      /\ Apart(w, p, q, fs, "remove") /\ ~StartsWith(q, p)
      /\ \A s \in Seq(Names) : At(fs, p \o s) \in {Absent, At(w, p \o s)}
      /\ Through(w, p, q, fs) \/ \A s \in Seq(Names) : At(fs, q \o s) = At(w, p \o s)
  BY <1>1, <1>3 DEF MadeBy, Made, Landing
<1>5. \A s : ~Return(c, s)
  BY DEF Return, PathInv
<1>6. RemoveAll(c, p, Return(c, "ok"))
  BY <1>1, <1>3 DEF RemovePath
<1>7. PICK y : /\ y \in Below(fs, Spot(p)) /\ Inside(fs, y) = {} /\ y # Spot(p)
               /\ fs' = [fs EXCEPT ![y] = Absent] /\ UNCHANGED <<pc, result>>
  BY <1>5, <1>6 DEF RemoveAll
<1>8. /\ k = "remove" /\ y \in Paths /\ y \in Seq(Names) /\ StartsWith(y, p) /\ y # p
      /\ fs[y] # Absent /\ u = [fs EXCEPT ![y] = Absent]
  BY <1>2, <1>3, <1>7, PathsAre DEF Below
<1>9. \A x \in Paths : u[x] = IF x = y THEN Absent ELSE fs[x]
  BY <1>3, <1>8 DEF IsTree
<1>10. Kept(r, w, p, q, u, k) /\ Held(w, p, q, u, k) /\ Apart(w, p, q, u, k)
  <2>1. \A x \in Paths : u[x] = fs[x] \/ (k = "remove" /\ StartsWith(x, p))
    BY <1>8, <1>9
  <2> QED
    BY <1>3, <1>4, <1>8, <2>1, Undisturbed
<1>11. IsDir(fs, p)
  <2>1. At(fs, y) # Absent
    BY <1>8 DEF At
  <2> QED
    BY <1>3, <1>8, <2>1, SomethingInside
<1>12. ~Through(w, p, q, fs)
  BY <1>11 DEF Through, IsDir
<1>13. ASSUME NEW s \in Seq(Names) PROVE At(u, q \o s) = At(w, p \o s)
  <2>1. PICK x : x = q \o s
    OBVIOUS
  <2>2. x \in Seq(Names) /\ StartsWith(x, q)
    BY <1>3, <2>1, StartsJoin
  <2>3. x # y
    BY <1>3, <1>4, <1>8, <2>2, Comparable
  <2>4. At(u, x) = At(fs, x)
    BY <1>9, <2>3 DEF At
  <2>5. At(fs, q \o s) = At(w, p \o s)
    BY <1>4, <1>12
  <2> QED
    BY <2>1, <2>4, <2>5
<1>14. Unmade(r, w, p, q, u, k, T)
  BY <1>8 DEF Unmade, First
<1>15. Landing(w, p, q, u, k, T)
  <2>1. \A z : At(u, z) \in {Absent, At(fs, z)}
    BY <1>9 DEF At
  <2>2. \A s \in Seq(Names) : At(u, p \o s) \in {Absent, At(w, p \o s)}
    BY <1>4, <2>1
  <2> QED
    BY <1>4, <1>8, <1>13, <2>2 DEF Landing
<1> QED
  BY <1>1, <1>2, <1>10, <1>14, <1>15 DEF Made
\* What has been gone into is no longer the first entry.
LEMMA NotFirst ==
  ASSUME NEW p \in NE, NEW q, NEW t, NEW T, \A d \in T : Entry(p, q, t, d)
  PROVE  ~First(p, q, "copy", T)
<1>1. SUFFICES ASSUME First(p, q, "copy", T) PROVE FALSE
  OBVIOUS
<1>2. PICK v \in NE : <<p, q>> = <<p \o v, q \o v>>
  BY <1>1 DEF First, Entry
<1>3. p \in Seq(Names) /\ v \in Seq(Names) /\ v # <<>>
  BY DEF NE
<1>4. Len(v) \in Nat \ {0} /\ Len(p) \in Nat
  BY <1>3, FrontIs, LenProperties
<1>5. Len(p \o v) = Len(p) + Len(v)
  BY <1>3, ConcatProperties
<1>6. p \o v = p
  BY <1>2
<1> QED
  BY <1>4, <1>5, <1>6

\* An entry x is put at y: u is the tree then, R what else is due, N what is in x.
Puts(t, u, x, y) ==
    /\ IsTree(t) /\ IsTree(u) /\ y \in Paths
    /\ At(t, y) = Absent /\ IsDir(t, Front(y)) /\ At(t, x) # Absent
    /\ \A z \in Paths : u[z] = IF z = y THEN At(t, x) ELSE t[z]
Enters(w, p, q, t, u, v, x, y, R, N) ==
    /\ v \in Seq(Names) /\ x \in NE /\ y \in NE /\ x = p \o v /\ y = q \o v
    /\ <<x, y>> \notin R /\ \A d \in R : Entry(p, q, t, d)
    /\ \A d : d \in N <=> /\ IsDir(t, x)
                          /\ \E m \in Inside(u, x) : d = <<Append(x, m), Append(y, m)>>
    /\ StartsWith(q, p) => StartsWith(y, x) \/ \E d \in R : StartsWith(d[2], d[1])
    /\ ~StartsWith(q, p) => \A s \in Seq(Names) :
          \/ At(t, q \o s) = At(w, p \o s)
          \/ At(t, q \o s) = Absent /\ (StartsWith(p \o s, x) \/ Owed(p, s, R))

\* It leaves what was there before.
LEMMA PutBelow ==
  ASSUME NEW r, NEW w, NEW p \in NE, NEW q \in NE, ~StartsWith(p, q),
         NEW t, NEW u, NEW x, NEW y, Puts(t, u, x, y), StartsWith(y, q),
         Kept(r, w, p, q, t, "copy"), Held(w, p, q, t, "copy"), Apart(w, p, q, t, "copy")
  PROVE  Kept(r, w, p, q, u, "copy") /\ Held(w, p, q, u, "copy") /\ Apart(w, p, q, u, "copy")
<1>1. t[y] = Absent /\ \A z \in Paths : u[z] = IF z = y THEN At(t, x) ELSE t[z]
  BY DEF Puts, At
<1>2. \A z \in Paths : u[z] = t[z] \/ (t[z] = Absent /\ StartsWith(z, q))
  BY <1>1
<1> QED
  BY <1>2, Undisturbed

\* What is in it becomes due, so that what is due and what is not there yet match.
LEMMA Entered ==
  ASSUME NEW w, NEW p \in NE, NEW q \in NE, NEW t, NEW u, NEW v, NEW x, NEW y, NEW R, NEW N,
         Puts(t, u, x, y), Enters(w, p, q, t, u, v, x, y, R, N), Held(w, p, q, t, "copy")
  PROVE  /\ \A d \in R \cup N : Entry(p, q, u, d)
         /\ Chased(p, q, R \cup N) /\ Whole(w, p, q, u, R \cup N)
<1> USE DEF Puts, Enters
<1>1. /\ p \in Seq(Names) /\ q \in Seq(Names) /\ x \in Seq(Names) /\ y \in Seq(Names)
      /\ v \in Seq(Names)
  BY DEF NE
<1>2. \A z : At(u, z) = IF z = y THEN At(t, x) ELSE At(t, z)
  BY DEF At
<1>3. x # y
  OBVIOUS
<1>4. \A z : IsDir(t, z) => IsDir(u, z)
  <2>1. ~IsDir(t, y)
    BY DEF IsDir, Absent, Node
  <2> QED
    BY <1>2, <2>1 DEF IsDir
<1>5. ASSUME NEW d \in R PROVE Entry(p, q, u, d)
  <2>1. PICK a \in NE : d = <<p \o a, q \o a>>
    BY DEF Entry
  <2>2. IsDir(t, Front(d[1])) /\ IsDir(t, Front(d[2])) /\ At(t, d[2]) = Absent
    BY DEF Entry
  <2>3. d[2] # y
    <3>1. a \in Seq(Names)
      BY DEF NE
    <3>2. q \o a = q \o v => a = v
      BY <1>1, <3>1, StartsJoin
    <3>3. d = <<x, y>> \/ a # v
      BY <2>1
    <3> QED
      BY <2>1, <3>2, <3>3
  <2>4. IsDir(u, Front(d[1])) /\ IsDir(u, Front(d[2])) /\ At(u, d[2]) = Absent
    BY <1>2, <1>4, <2>2, <2>3
  <2> QED
    BY <2>1, <2>4 DEF Entry
<1>6. ASSUME IsDir(t, x), NEW m \in Names
      PROVE  Entry(p, q, u, <<Append(x, m), Append(y, m)>>)
  <2>1. PICK X, Y, a : X = Append(x, m) /\ Y = Append(y, m) /\ a = Append(v, m)
    OBVIOUS
  <2>2. a \in NE /\ X = p \o a /\ Y = q \o a
    BY <1>1, <2>1, JoinLonger
  <2>3. Front(X) = x /\ Front(Y) = y /\ Y \in Seq(Names) /\ StartsWith(Y, y) /\ Y # y
    <3>1. Len(Y) = Len(y) + 1 /\ Len(y) \in Nat
      BY <1>1, <2>1, LongerIs, LenProperties
    <3>2. Front(X) = x /\ Front(Y) = y /\ Y \in Seq(Names) /\ StartsWith(Y, y)
      BY <1>1, <2>1, LongerIs
    <3> QED
      BY <3>1, <3>2
  <2>4. ~IsDir(t, y)
    BY DEF IsDir, Absent, Node
  <2>5. At(t, Y) = Absent
    BY <1>1, <2>3, <2>4, NothingBelow
  <2>6. IsDir(u, x) /\ IsDir(u, y) /\ At(u, Y) = Absent
    BY <1>2, <1>4, <1>6, <2>3, <2>5 DEF IsDir
  <2> QED
    BY <2>1, <2>2, <2>3, <2>6 DEF Entry
<1>7. ASSUME NEW d \in R \cup N PROVE Entry(p, q, u, d)
  <2>1. CASE d \in R
    BY <1>5, <2>1
  <2>2. CASE d \in N
    <3>1. IsDir(t, x) /\ \E m \in Names : d = <<Append(x, m), Append(y, m)>>
      BY <2>2 DEF Inside
    <3>2. PICK m \in Names : d = <<Append(x, m), Append(y, m)>>
      BY <3>1
    <3>3. Entry(p, q, u, <<Append(x, m), Append(y, m)>>)
      BY <1>6, <3>1
    <3> QED
      BY <3>2, <3>3
  <2> QED
    BY <2>1, <2>2
<1>8. Chased(p, q, R \cup N)
  <2>1. SUFFICES ASSUME StartsWith(q, p), StartsWith(y, x)
                 PROVE  \E d \in N : StartsWith(d[2], d[1])
    BY DEF Chased
  <2>2. At(u, y) # Absent
    BY <1>2
  <2>3. IsDir(u, x) /\ \E m \in Inside(u, x) : StartsWith(y, Append(x, m))
    BY <1>1, <1>3, <2>1, <2>2, SomethingInside
  <2>4. PICK m \in Inside(u, x) : StartsWith(y, Append(x, m))
    BY <2>3
  <2>5. PICK X, Y : X = Append(x, m) /\ Y = Append(y, m)
    OBVIOUS
  <2>6. X \in Seq(Names) /\ Y \in Seq(Names) /\ StartsWith(Y, y)
    BY <1>1, <2>5, LongerIs DEF Inside
  <2>7. StartsWith(Y, X)
    BY <1>1, <2>4, <2>5, <2>6, StartsForms
  <2>8. IsDir(t, x)
    BY <1>2, <1>3, <2>3 DEF IsDir
  <2>9. <<X, Y>> \in N
    BY <2>5, <2>8
  <2> QED
    BY <2>7, <2>9
<1>9. ASSUME ~StartsWith(q, p), NEW s \in Seq(Names)
      PROVE  \/ At(u, q \o s) = At(w, p \o s)
             \/ At(u, q \o s) = Absent /\ Owed(p, s, R \cup N)
  <2>1. PICK a, b : a = p \o s /\ b = q \o s
    OBVIOUS
  <2>2. \/ At(t, b) = At(w, a)
        \/ At(t, b) = Absent /\ (StartsWith(a, x) \/ Owed(p, s, R))
    BY <1>9, <2>1
  <2>3. At(t, p \o s) = At(w, p \o s) /\ At(t, p \o v) = At(w, p \o v)
    BY <1>9 DEF Held
  <2>4. CASE b = y
    <3>1. s = v
      BY <1>1, <2>1, <2>4, StartsJoin
    <3> QED
      BY <1>2, <2>1, <2>3, <2>4, <3>1
  <2>5. CASE b # y /\ (At(t, b) = At(w, a) \/ Owed(p, s, R))
    <3>1. At(u, b) = At(t, b)
      BY <1>2, <2>5
    <3>2. Owed(p, s, R) => Owed(p, s, R \cup N)
      BY DEF Owed
    <3> QED
      BY <2>1, <2>2, <2>5, <3>1, <3>2
  <2>6. CASE b # y /\ At(t, b) = Absent /\ At(w, a) # Absent /\ StartsWith(a, x)
    <3>1. At(u, b) = Absent
      BY <1>2, <2>6
    <3>2. a # x
      <4>1. s = v => b = y
        BY <2>1
      <4>2. p \o s = p \o v => s = v
        BY <1>1, <1>9, StartsJoin
      <4>3. a = p \o s /\ x = p \o v
        BY <2>1
      <4> QED
        BY <2>6, <4>1, <4>2, <4>3
    <3>3. At(t, a) # Absent
      BY <2>1, <2>3, <2>6
    <3>4. IsDir(t, x) /\ \E m \in Inside(t, x) : StartsWith(a, Append(x, m))
      BY <1>1, <2>6, <3>2, <3>3, SomethingInside
    <3>5. PICK m \in Inside(t, x) : StartsWith(a, Append(x, m))
      BY <3>4
    <3>6. m \in Inside(u, x)
      BY <1>2 DEF Inside
    <3>7. PICK d : d = <<Append(x, m), Append(y, m)>>
      OBVIOUS
    <3>8. d \in N /\ d[1] = Append(x, m)
      BY <3>4, <3>6, <3>7
    <3>9. Owed(p, s, R \cup N)
      BY <2>1, <3>5, <3>8 DEF Owed
    <3> QED
      BY <2>1, <3>1, <3>9
  <2> QED
    BY <2>1, <2>2, <2>4, <2>5, <2>6
<1>10. Whole(w, p, q, u, R \cup N)
  BY <1>9 DEF Whole
<1> QED
  BY <1>7, <1>8, <1>10
\* The source is as it was until it is removed.
LEMMA SourceStays ==
  ASSUME PathInv, NEW r, NEW w, NEW p, NEW q, NEW t, NEW l, l # "remove",
         Sound(r, w, p, q), Scope(r, w, p, q), Kept(r, w, p, q, t, l)
  PROVE  At(t, p) = At(w, p) /\ At(w, p).kind \in {"file", "dir"} /\ At(t, p) # Absent
<1>1. At(w, p).kind \in {"file", "dir"} /\ ~StartsWith(p, q)
  BY DEF Sound, Scope
<1>2. p \in Paths /\ w[p] # Absent /\ At(w, p) = w[p]
  BY <1>1 DEF At, Absent, Node
<1>3. t[p] = w[p]
  BY <1>1, <1>2 DEF Kept
<1> QED
  BY <1>1, <1>2, <1>3 DEF At

\* An entry with no link above it is copied to where nothing is.
LEMMA PlainPuts ==
  ASSUME PathInv, NEW c \in Calls, NEW x \in NE, NEW y \in NE, NEW u, IsTree(u), NEW N,
         Plain(c, x, y, u, N)
  PROVE  /\ Puts(fs, u, x, y)
         /\ \A d : d \in N <=> /\ IsDir(fs, x)
                               /\ \E m \in Inside(u, x) : d = <<Append(x, m), Append(y, m)>>
<1>1. /\ Free(y) /\ At(fs, x) # Absent /\ u = [fs EXCEPT ![y] = At(fs, x)]
      /\ \A d : d \in N <=> /\ IsDir(fs, x)
                            /\ \E m \in Inside(u, x) : d = <<Append(x, m), Append(y, m)>>
  BY CopyPlain
<1>2. y \in Paths /\ IsDir(fs, Front(y)) /\ At(fs, y) = Absent /\ IsTree(fs)
  BY <1>1 DEF Free, PathInv, At
<1>3. \A z \in Paths : u[z] = IF z = y THEN At(fs, x) ELSE fs[z]
  BY <1>1, <1>2 DEF IsTree
<1> QED
  BY <1>1, <1>2, <1>3 DEF Puts

\* So one step of a copy does, with what it has made.
LEMMA CopyEnters ==
  ASSUME PathInv, PathInv', NEW c \in Calls, pc[c] = "copy", pc'[c] = "copy",
         NEW e \in todo[c], CanCopy(c, e), fs' = Copied(c, e),
         todo'[c] = (todo[c] \ {e}) \cup Entries(c, e),
         NEW r, r = request[c], NEW w, NEW p \in NE, p = from[c], NEW q \in NE, q = to[c],
         Sound(r, w, p, q), Scope(r, w, p, q),
         Kept(r, w, p, q, fs, "copy"), Held(w, p, q, fs, "copy"), Apart(w, p, q, fs, "copy"),
         NEW v \in Seq(Names), e = <<p \o v, q \o v>>,
         Links(fs, Front(e[1])) = {}, Links(fs, Front(e[2])) = {}, At(fs, e[2]) = Absent,
         NEW R, R = todo[c] \ {e}, \A d \in R : Entry(p, q, fs, d),
         StartsWith(q, p) => StartsWith(e[2], e[1]) \/ \E d \in R : StartsWith(d[2], d[1]),
         ~StartsWith(q, p) => \A s \in Seq(Names) :
            \/ At(fs, q \o s) = At(w, p \o s)
            \/ At(fs, q \o s) = Absent /\ (StartsWith(p \o s, e[1]) \/ Owed(p, s, R))
  PROVE  Made(r, w, p, q, fs', "copy", todo'[c])
<1>1. PICK x, y, N, u : x = e[1] /\ y = e[2] /\ N = Entries(c, e) /\ u = fs'
  OBVIOUS
<1>2. PICK t : t = fs
  OBVIOUS
<1>3. x = p \o v /\ y = q \o v /\ e = <<x, y>>
  BY <1>1
<1>4. p \in Seq(Names) /\ q \in Seq(Names) /\ IsTree(t) /\ IsTree(u)
  BY <1>1, <1>2 DEF NE, PathInv
<1>5. x \in NE /\ y \in NE /\ x \in Seq(Names) /\ y \in Seq(Names)
      /\ StartsWith(x, p) /\ StartsWith(y, q) /\ e \in NE \X NE
  <2>1. e \in Within(p, q)
    BY DEF PathInv, Due
  <2> QED
    BY <1>1, <2>1 DEF Within, NE
<1>6. r.tool \in {"copy", "move"} /\ ~StartsWith(p, q)
  BY DEF Scope
<1>7. IsDir(fs, x) => Deep(c)
  <2>1. SUFFICES ASSUME IsDir(t, x), ~Is(c, "move") PROVE request[c].recursive
    BY <1>2 DEF Deep
  <2>2. At(t, x) # Absent
    BY <2>1 DEF IsDir, Absent, Node
  <2>3. IsDir(t, p)
    <3>1. CASE x = p
      BY <2>1, <3>1
    <3>2. CASE x # p
      BY <1>4, <1>5, <2>2, <3>2, SomethingInside
    <3> QED
      BY <3>1, <3>2
  <2>4. At(fs, p) = At(w, p)
    BY SourceStays
  <2>5. IsDir(w, p)
    BY <1>2, <2>3, <2>4 DEF IsDir
  <2> QED
    BY <1>6, <2>1, <2>5 DEF Sound, Is
<1>8. Plain(c, x, y, u, N)
  <2>1. /\ Links(fs, Front(x)) = {} /\ Links(fs, Front(y)) = {} /\ At(fs, y) = Absent
        /\ u = Copied(c, e) /\ N = Entries(c, e) /\ CanCopy(c, e)
    BY <1>1
  <2> QED
    BY <1>3, <1>7, <2>1 DEF Plain
<1>9. /\ Puts(fs, u, x, y)
      /\ \A d : d \in N <=> /\ IsDir(fs, x)
                            /\ \E m \in Inside(u, x) : d = <<Append(x, m), Append(y, m)>>
  <2>1. x \in NE /\ y \in NE /\ IsTree(u)
    BY <1>4, <1>5
  <2>2. Puts(fs, u, x, y)
    BY <1>8, <2>1, PlainPuts
  <2>3. \A d : d \in N <=> /\ IsDir(fs, x)
                          /\ \E m \in Inside(u, x) : d = <<Append(x, m), Append(y, m)>>
    BY <1>8, <2>1, PlainPuts, SMTT(30)
  <2> QED
    BY <2>2, <2>3
<1>10. Puts(t, u, x, y)
  BY <1>2, <1>9
<1>11. \A d : d \in N <=> /\ IsDir(t, x)
                          /\ \E m \in Inside(u, x) : d = <<Append(x, m), Append(y, m)>>
  BY <1>2, <1>9
<1>12. Held(w, p, q, t, "copy") /\ Kept(r, w, p, q, t, "copy") /\ Apart(w, p, q, t, "copy")
  BY <1>2
<1>14. /\ \A d \in R \cup N : Entry(p, q, u, d)
       /\ Chased(p, q, R \cup N) /\ Whole(w, p, q, u, R \cup N)
  <2>1. <<x, y>> \notin R /\ \A d \in R : Entry(p, q, t, d)
    BY <1>1, <1>2, <1>3
  <2>2. StartsWith(q, p) => StartsWith(y, x) \/ \E d \in R : StartsWith(d[2], d[1])
    BY <1>1
  <2>3. ~StartsWith(q, p) => \A s \in Seq(Names) :
            \/ At(t, q \o s) = At(w, p \o s)
            \/ At(t, q \o s) = Absent /\ (StartsWith(p \o s, x) \/ Owed(p, s, R))
    BY <1>1, <1>2
  <2>4. Enters(w, p, q, t, u, v, x, y, R, N)
    BY <1>3, <1>5, <1>11, <2>1, <2>2, <2>3 DEF Enters
  <2> QED
    BY <1>10, <1>12, <2>4, Entered
<1>15. PICK T : T = R \cup N
  OBVIOUS
<1>16. ~First(p, q, "copy", T)
  BY <1>14, <1>15, NotFirst
<1>17. Unmade(r, w, p, q, u, "copy", T)
  BY <1>16 DEF Unmade
<1>18. Landing(w, p, q, u, "copy", T)
  BY <1>14, <1>15 DEF Landing
<1>19. Kept(r, w, p, q, u, "copy") /\ Held(w, p, q, u, "copy") /\ Apart(w, p, q, u, "copy")
  BY <1>5, <1>6, <1>10, <1>12, PutBelow
<1>20. Made(r, w, p, q, u, "copy", T)
  BY <1>17, <1>18, <1>19 DEF Made
<1> QED
  BY <1>1, <1>15, <1>20
\* The first entry can be copied only if the directory of the destination is there.
LEMMA FirstReaches ==
  ASSUME PathInv, NEW c \in Calls, NEW p \in NE, NEW q \in NE, CanCopy(c, <<p, q>>),
         At(fs, p).kind \in {"file", "dir"}
  PROVE  Links(fs, Front(p)) = {} /\ Exists(fs, Front(q))
<1>1. PICK e : e = <<p, q>> /\ e[1] = p /\ e[2] = q
  OBVIOUS
<1>2. IsTree(fs) /\ At(fs, p) # Absent /\ p \in Seq(Names) \ {<<>>}
  BY DEF PathInv, Absent, Node, NE
<1>3. Links(fs, Front(p)) = {}
  BY <1>2, AbovePlain
<1>4. Spot(p) = p /\ Lstat(p) = At(fs, p)
  BY <1>3, SpotPlain DEF Lstat
<1>5. SUFFICES ASSUME ~Exists(fs, Front(q)) PROVE FALSE
  BY <1>3
<1>6. /\ Status(fs, q) = Absent /\ ~Room(q)
      /\ ~Free(Real(fs, q)) /\ At(fs, Real(fs, q)).kind # "file"
  BY <1>2, <1>5, CannotReach
<1>7. Status(fs, q).kind # "dir"
  BY <1>6 DEF Absent, Node
<1>8. Goal(e) = q
  BY <1>1, <1>7 DEF Goal
<1> QED
  BY <1>1, <1>4, <1>6, <1>7, <1>8 DEF CanCopy

\* Over something it is copied only through a link, to where nothing is.
LEMMA FirstThrough ==
  ASSUME PathInv, NEW c \in Calls, NEW p \in NE, NEW q \in NE, CanCopy(c, <<p, q>>),
         At(fs, p).kind \in {"file", "dir"}, Links(fs, Front(p)) = {},
         Links(fs, Front(q)) = {}, At(fs, q) # Absent, ~Exists(fs, q)
  PROVE  /\ At(fs, q).kind = "link" /\ At(fs, p).kind = "file" /\ request[c].overwrite
         /\ Free(Real(fs, q))
         /\ Copied(c, <<p, q>>) = [fs EXCEPT ![Real(fs, q)] = At(fs, p)]
         /\ Entries(c, <<p, q>>) = {}
<1>1. PICK e : e = <<p, q>> /\ e[1] = p /\ e[2] = q
  OBVIOUS
<1>2. PICK X : X = Real(fs, q)
  OBVIOUS
<1>3. IsTree(fs) /\ X \in Seq(Names) \ {<<>>}
  BY <1>2, RealTyped DEF PathInv, NE
<1>4. Spot(p) = p /\ Lstat(p) = At(fs, p) /\ Spot(q) = q
  BY SpotPlain DEF Lstat
<1>5. At(fs, q).kind = "link"
  <2>1. SUFFICES ASSUME At(fs, q).kind # "link" PROVE FALSE
    OBVIOUS
  <2>2. Links(fs, q) = {}
    BY <2>1, PlainLonger
  <2> QED
    BY <2>2, RealPlain, ExistsIs
<1>6. Status(fs, q) = Absent
  BY DEF Exists
<1>7. Status(fs, q).kind # "dir"
  BY <1>6 DEF Absent, Node
<1>8. Goal(e) = q
  BY <1>1, <1>7 DEF Goal
<1>9. ~Room(q)
  BY <1>4 DEF Room, Free, At
<1>10. At(fs, p).kind = "file" /\ request[c].overwrite /\ (At(fs, X).kind = "file" \/ Free(X))
  BY <1>1, <1>2, <1>4, <1>7, <1>8, <1>9 DEF CanCopy
<1>11. At(fs, X).kind # "file"
  <2>1. SUFFICES ASSUME At(fs, X).kind = "file" PROVE FALSE
    OBVIOUS
  <2>2. At(fs, X) # Absent
    BY <2>1 DEF Absent, Node
  <2>3. Links(fs, X) = {}
    BY <1>3, <2>1, <2>2, AbovePlain
  <2> QED
    BY <1>2, <2>2, <2>3, ExistsIs
<1>12. Copied(c, e) = [fs EXCEPT ![X] = At(fs, p)] /\ Entries(c, e) = {}
  BY <1>1, <1>2, <1>4, <1>8, <1>9, <1>10 DEF Copied, Entries
<1> QED
  BY <1>1, <1>2, <1>5, <1>10, <1>11, <1>12
\* What is put outside the source, where something was at the destination, leaves it.
LEMMA PutOutside ==
  ASSUME NEW r, NEW w, NEW p \in NE, NEW q \in NE, ~StartsWith(p, q), NEW t, NEW u,
         \A z \in Paths : \/ u[z] = t[z]
                          \/ t[z] = Absent /\ ~StartsWith(z, p) /\ At(w, q) # Absent,
         Kept(r, w, p, q, t, "copy"), Held(w, p, q, t, "copy"), Apart(w, p, q, t, "copy")
  PROVE  Kept(r, w, p, q, u, "copy") /\ Held(w, p, q, u, "copy") /\ Apart(w, p, q, u, "copy")
BY Undisturbed

\* What is copied through a link leaves what was there before, and nothing is due then.
LEMMA PutThrough ==
  ASSUME NEW r, NEW w, NEW p \in NE, NEW q \in NE, ~StartsWith(p, q),
         NEW t, IsTree(t), NEW u, IsTree(u), NEW X, X = Real(t, q), X \in Paths,
         At(t, q).kind = "link", At(t, p).kind = "file", At(t, p) = At(w, p),
         At(t, X) = Absent, u = [t EXCEPT ![X] = At(t, p)], At(w, q) # Absent,
         Kept(r, w, p, q, t, "copy"), Held(w, p, q, t, "copy"), Apart(w, p, q, t, "copy")
  PROVE  Made(r, w, p, q, u, "copy", {})
<1>1. p \in Seq(Names) /\ q \in Seq(Names) /\ X \in Seq(Names)
  BY PathsAre DEF NE
<1>2. At(t, p) # Absent /\ At(t, q) # Absent /\ ~IsDir(t, p)
  BY DEF Absent, Node, IsDir
<1>3. X # p /\ X # q /\ p # q
  BY <1>2
<1>4. \A z \in Paths : u[z] = IF z = X THEN At(t, p) ELSE t[z]
  BY DEF IsTree
<1>5. \A z : At(u, z) = IF z = X THEN At(t, p) ELSE At(t, z)
  BY <1>4 DEF At
<1>6. ~StartsWith(X, p)
  <2>1. SUFFICES ASSUME StartsWith(X, p) PROVE FALSE
    OBVIOUS
  <2>2. At(u, X) # Absent
    BY <1>2, <1>5
  <2>3. IsDir(u, p)
    BY <1>1, <1>3, <2>1, <2>2, SomethingInside
  <2> QED
    BY <1>2, <1>3, <1>5, <2>3 DEF IsDir
<1>7. ~StartsWith(q, p)
  BY <1>1, <1>2, <1>3, SomethingInside
<1>8. \A z : At(u, z) = At(t, z) \/ (At(t, z).kind # "link" /\ At(u, z).kind # "link")
  <2>1. At(t, X).kind # "link" /\ At(u, X).kind # "link"
    <3>1. At(u, X) = At(t, p) /\ At(t, X) = Absent
      BY <1>5
    <3>2. Absent.kind = "absent"
      BY DEF Absent, Node
    <3> QED
      BY <3>1, <3>2
  <2> QED
    BY <1>5, <2>1
<1>9. Real(u, q) = X
  BY <1>8, SameLinks, ZenonT(30)
<1>10. Through(w, p, q, u)
  <2>1. At(u, q) = At(t, q) /\ At(u, p) = At(t, p) /\ At(u, X) = At(t, p)
    BY <1>3, <1>5
  <2>2. At(w, p).kind = "file" /\ At(u, p).kind \in {"file", "absent"} /\ At(u, q).kind = "link"
    BY <2>1
  <2> QED
    BY <1>6, <1>9, <2>1, <2>2 DEF Through
<1>11. Kept(r, w, p, q, u, "copy") /\ Held(w, p, q, u, "copy") /\ Apart(w, p, q, u, "copy")
  <2>1. t[X] = Absent
    BY DEF At
  <2>2. \A z \in Paths : \/ u[z] = t[z]
                         \/ t[z] = Absent /\ ~StartsWith(z, p) /\ At(w, q) # Absent
    BY <1>4, <1>6, <2>1
  <2> QED
    BY <2>2, PutOutside
<1>12. Unmade(r, w, p, q, u, "copy", {})
  BY DEF Unmade, First
<1>13. Landing(w, p, q, u, "copy", {})
  BY <1>7, <1>10 DEF Landing
<1> QED
  BY <1>11, <1>12, <1>13 DEF Made

\* The first entry of a copy is copied to where nothing is, or through a link.
LEMMA FirstMade ==
  ASSUME PathInv, PathInv', NEW c \in Calls, pc[c] = "copy", pc'[c] = "copy",
         NEW e \in todo[c], CanCopy(c, e), fs' = Copied(c, e),
         todo'[c] = (todo[c] \ {e}) \cup Entries(c, e),
         Sound(request[c], W(c), from[c], to[c]), Scope(request[c], W(c), from[c], to[c]),
         MadeBy(c), First(from[c], to[c], "copy", todo[c])
  PROVE  Made(request[c], W(c), from[c], to[c], fs', "copy", todo'[c])
<1>1. PICK r, w, p, q : r = request[c] /\ w = W(c) /\ p = from[c] /\ q = to[c]
  OBVIOUS
<1>2. /\ p \in NE /\ q \in NE /\ IsTree(fs) /\ IsTree(fs') /\ p \in Seq(Names) /\ q \in Seq(Names)
      /\ ~StartsWith(p, q) /\ Sound(r, w, p, q) /\ Scope(r, w, p, q)
      /\ e = <<p, q>> /\ todo[c] = {e} /\ e[1] = p /\ e[2] = q
  BY <1>1 DEF PathInv, Ready, Scope, First, NE
<1>3. /\ Kept(r, w, p, q, fs, "copy") /\ Held(w, p, q, fs, "copy")
      /\ Apart(w, p, q, fs, "copy") /\ Unmade(r, w, p, q, fs, "copy", todo[c])
      /\ First(p, q, "copy", todo[c])
  BY <1>1 DEF MadeBy, Made
<1>4. /\ Exists(fs, Front(q)) => Links(fs, Front(q)) = {}
      /\ At(w, q) = Absent => At(fs, q) = Absent
      /\ ~r.overwrite \/ r.tool = "move" => ~Exists(fs, q)
  BY <1>3 DEF Unmade
<1>5. At(fs, p) = At(w, p) /\ At(fs, p).kind \in {"file", "dir"} /\ At(fs, p) # Absent
  BY <1>2, <1>3, SourceStays
<1>6. Links(fs, Front(p)) = {} /\ Links(fs, Front(q)) = {}
  BY <1>2, <1>4, <1>5, FirstReaches
<1>7. CASE At(fs, q) = Absent
  <2>1. PICK v : v = <<>>
    OBVIOUS
  <2>2. v \in Seq(Names) /\ p \o v = p /\ q \o v = q
    BY <1>2, <2>1, ConcatEmptySeq, EmptySeq
  <2>3. PICK R : R = todo[c] \ {e}
    OBVIOUS
  <2>4. R = {}
    BY <1>2, <2>3
  <2>5. ~IsDir(fs, q)
    BY <1>7 DEF IsDir, Absent, Node
  <2>6. ASSUME NEW s \in Seq(Names)
        PROVE  At(fs, q \o s) = Absent /\ StartsWith(p \o s, p)
    <3>1. PICK a : a = q \o s
      OBVIOUS
    <3>2. a \in Seq(Names) /\ StartsWith(a, q) /\ StartsWith(p \o s, p)
      BY <1>2, <3>1, StartsJoin
    <3>3. At(fs, a) = Absent
      BY <1>2, <1>7, <2>5, <3>2, NothingBelow
    <3> QED
      BY <3>1, <3>2, <3>3
  <2>7. Made(r, w, p, q, fs', "copy", todo'[c])
    BY <1>1, <1>2, <1>3, <1>6, <1>7, <2>2, <2>3, <2>4, <2>6, CopyEnters, ZenonT(30)
  <2> QED
    BY <1>1, <2>7
<1>8. CASE At(fs, q) # Absent
  <2>1. At(w, q) # Absent /\ ~Exists(fs, q)
    BY <1>2, <1>4, <1>8 DEF Scope
  <2>2. /\ At(fs, q).kind = "link" /\ At(fs, p).kind = "file"
        /\ Free(Real(fs, q)) /\ Copied(c, e) = [fs EXCEPT ![Real(fs, q)] = At(fs, p)]
        /\ Entries(c, e) = {}
    BY <1>2, <1>5, <1>6, <1>8, <2>1, FirstThrough
  <2>3. PICK t, u, X : t = fs /\ u = fs' /\ X = Real(fs, q)
    OBVIOUS
  <2>4. /\ X = Real(t, q) /\ X \in Paths /\ At(t, X) = Absent /\ At(t, q).kind = "link"
        /\ At(t, p).kind = "file" /\ u = [t EXCEPT ![X] = At(t, p)]
    BY <2>2, <2>3 DEF Free, At
  <2>5. todo'[c] = {}
    BY <1>2, <2>2
  <2>6. /\ IsTree(t) /\ IsTree(u) /\ At(t, p) = At(w, p) /\ Kept(r, w, p, q, t, "copy")
        /\ Held(w, p, q, t, "copy") /\ Apart(w, p, q, t, "copy")
    BY <1>2, <1>3, <1>5, <2>3
  <2>7. Made(r, w, p, q, u, "copy", {})
    BY <1>2, <2>1, <2>4, <2>6, PutThrough
  <2> QED
    BY <1>1, <2>3, <2>5, <2>7
<1> QED
  BY <1>7, <1>8
\* Each further entry is copied where nothing is.
LEMMA CopyEntryMade ==
  ASSUME PathInv, PathInv', NEW c \in Calls, CopyEntry(c),
         Sound(request[c], W(c), from[c], to[c]), Scope(request[c], W(c), from[c], to[c]),
         MadeBy(c), pc'[c] \notin {"start", "done"}
  PROVE  Made(request[c], W(c), from[c], to[c], fs', pc'[c], todo'[c])
<1>1. PICK r, w, p, q : r = request[c] /\ w = W(c) /\ p = from[c] /\ q = to[c]
  OBVIOUS
<1>2. \A s : ~Return(c, s)
  BY DEF Return, PathInv
<1>3. PICK e \in todo[c] :
         /\ CanCopy(c, e) /\ fs' = Copied(c, e) /\ UNCHANGED <<pc, result>>
         /\ todo' = [todo EXCEPT ![c] = (@ \ {e}) \cup Entries(c, e)]
  BY <1>2 DEF CopyEntry
<1>4. pc[c] = "copy" /\ pc'[c] = "copy" /\ p \in NE /\ q \in NE /\ IsTree(fs)
  BY <1>1, <1>3 DEF CopyEntry, PathInv, Ready
<1>5. todo'[c] = (todo[c] \ {e}) \cup Entries(c, e)
  BY <1>3 DEF PathInv
<1>6. CASE First(p, q, "copy", todo[c])
  BY <1>1, <1>3, <1>4, <1>5, <1>6, FirstMade
<1>7. CASE (\A d \in todo[c] : Entry(p, q, fs, d)) /\ Chased(p, q, todo[c])
           /\ Whole(w, p, q, fs, todo[c])
  <2>1. PICK v \in NE : e = <<p \o v, q \o v>>
    BY <1>7 DEF Entry
  <2>2. v \in Seq(Names)
    BY DEF NE
  <2>3. IsDir(fs, Front(e[1])) /\ IsDir(fs, Front(e[2])) /\ At(fs, e[2]) = Absent
    BY <1>7 DEF Entry
  <2>4. Links(fs, Front(e[1])) = {} /\ Links(fs, Front(e[2])) = {}
    BY <1>4, <2>3, DirPlain
  <2>5. PICK R : R = todo[c] \ {e}
    OBVIOUS
  <2>6. StartsWith(q, p) => StartsWith(e[2], e[1]) \/ \E d \in R : StartsWith(d[2], d[1])
    BY <1>7, <2>5 DEF Chased
  <2>7. ASSUME NEW s, Owed(p, s, todo[c]) PROVE StartsWith(p \o s, e[1]) \/ Owed(p, s, R)
    <3>1. PICK d \in todo[c] : StartsWith(p \o s, d[1])
      BY <2>7 DEF Owed
    <3>2. d = e \/ d \in R
      BY <2>5
    <3> QED
      BY <3>1, <3>2 DEF Owed
  <2>8. ~StartsWith(q, p) => \A s \in Seq(Names) :
            \/ At(fs, q \o s) = At(w, p \o s)
            \/ At(fs, q \o s) = Absent /\ (StartsWith(p \o s, e[1]) \/ Owed(p, s, R))
    BY <1>7, <2>7 DEF Whole
  <2>9. \A d \in R : Entry(p, q, fs, d)
    BY <1>7, <2>5
  <2>10. /\ Kept(r, w, p, q, fs, "copy") /\ Held(w, p, q, fs, "copy")
         /\ Apart(w, p, q, fs, "copy") /\ Sound(r, w, p, q) /\ Scope(r, w, p, q)
    BY <1>1, <1>4 DEF MadeBy, Made
  <2>11. Made(r, w, p, q, fs', "copy", todo'[c])
    BY <1>1, <1>3, <1>4, <1>5, <2>1, <2>2, <2>3, <2>4, <2>5, <2>6, <2>8, <2>9, <2>10,
       CopyEnters, ZenonT(30)
  <2> QED
    BY <1>1, <1>4, <2>11
<1>8. todo[c] # {}
  OBVIOUS
<1>9. Landing(w, p, q, fs, "copy", todo[c])
  BY <1>1, <1>4 DEF MadeBy, Made
<1> QED
  BY <1>6, <1>7, <1>8, <1>9 DEF Landing

\* What fs_copy and fs_move look at is a file or a directory, and nothing has been made.
LEMMA LookMade ==
  ASSUME PathInv, NEW c \in Calls, Look(c), pc'[c] \notin {"start", "done"}
  PROVE  /\ Sound(request[c], fs, from'[c], to'[c])
         /\ Made(request[c], fs, from'[c], to'[c], fs', pc'[c], todo'[c])
<1>1. \A s : ~Return(c, s)
  BY DEF Return, PathInv
<1>2. /\ IsTree(fs) /\ Found(c) /\ ~Is(c, "mkdir") /\ request[c].tool \in {"copy", "move"}
  BY DEF Look, Starts, Is, PathInv
<1>3. Accepted(c) /\ Resolved(c) /\ Goto(c, "parents") /\ fs' = fs
  BY <1>1 DEF Look, Throw
<1>4. PICK r, p, q : r = request[c] /\ p = Source(c) /\ q = Target(c)
  OBVIOUS
<1>5. pc'[c] = "parents" /\ from'[c] = p /\ to'[c] = q
  BY <1>3, <1>4 DEF Goto, Resolved, PathInv
<1>6. /\ ~Tangled(fs, normal(request[c].from)) /\ Exists(fs, p)
      /\ ~Tangled(fs, normal(request[c].to))
      /\ normal(request[c].from) \in NE /\ normal(request[c].to) \in NE /\ p \in NE /\ q \in NE
  BY <1>2, <1>4, PathAssumption, BothResolved DEF Found, PathInv, NE
<1>7. Links(fs, p) = {} /\ At(fs, p) # Absent
  BY <1>2, <1>4, <1>6, ResolvedTo DEF Source
<1>8. Exists(fs, Front(q)) => Links(fs, Front(q)) = {}
  BY <1>2, <1>4, <1>6, ResolvedTo DEF Target
<1>9. p \in Seq(Names) /\ q \in Seq(Names) /\ Len(p) \in Nat \ {0} /\ SubSeq(p, 1, Len(p)) = p
  <2>1. p \in Seq(Names) /\ q \in Seq(Names) /\ p # <<>>
    BY <1>6 DEF NE
  <2> QED
    BY <2>1, FrontIs, SubSeqFull
<1>10. At(fs, p).kind \in {"file", "dir"}
  <2>1. At(fs, p).kind # "link"
    <3>1. Len(p) \in 1..Len(p)
      BY <1>9
    <3> QED
      BY <1>7, <1>9, <3>1 DEF Links
  <2>2. IsNode(At(fs, p))
    BY <1>2, AtIsNode
  <2> QED
    BY <1>7, <2>1, <2>2 DEF IsNode
<1>11. r.overwrite \/ ~StartsWith(p, q)
  <2>1. SUFFICES ASSUME ~Exists(fs, q), StartsWith(p, q) PROVE FALSE
    BY <1>3, <1>4 DEF Accepted
  <2>2. PICK s \in Seq(Names) : p = q \o s
    BY <1>9, <2>1, StartsJoin
  <2>3. Exists(fs, q \o s)
    BY <1>6, <2>2
  <2> QED
    BY <1>2, <1>9, <2>1, <2>3, ExistsPrefix
<1>12. Sound(r, fs, p, q)
  <2>1. r.tool = "move" \/ r.recursive \/ ~IsDir(fs, p)
    BY <1>2, <1>3, <1>4 DEF Accepted, Is
  <2> QED
    BY <1>2, <1>10, <1>11, <2>1 DEF Sound
<1>13. Made(r, fs, p, q, fs, "parents", todo'[c])
  <2>1. ~r.overwrite => ~Exists(fs, q)
    BY <1>3, <1>4 DEF Accepted
  <2> QED
    BY <1>8, <2>1, MadeAtFirst
<1> QED
  BY <1>3, <1>4, <1>5, <1>12, <1>13
\* Only a call that returns has a result.
LEMMA ResultStep ==
  ASSUME NEW c \in Calls, Tool(c)
  PROVE  result' = result \/ \E s : Return(c, s)
<1>1. Throw(c) => \E s : Return(c, s)
  BY DEF Throw
<1>2. CASE \/ Missing(c) \/ Stat(c) \/ Begin(c) \/ Look(c) \/ EndCopy(c) \/ StartRemove(c)
           \/ CreateParents(c)
  BY <1>1, <1>2 DEF Missing, Stat, Begin, Look, EndCopy, StartRemove, CreateParents, Goto
<1>3. CASE Chmod(c)
  BY <1>3 DEF Chmod
<1>4. CASE Mkdir(c)
  BY <1>4 DEF Mkdir
<1>5. CASE Clear(c)
  BY <1>5 DEF Clear, RemoveAll, Goto
<1>6. CASE Rename(c)
  BY <1>6 DEF Rename, Goto
<1>7. CASE CopyEntry(c)
  BY <1>7 DEF CopyEntry
<1>8. CASE RemovePath(c)
  BY <1>8 DEF RemovePath, RemoveAll
<1> QED
  BY <1>2, <1>3, <1>4, <1>5, <1>6, <1>7, <1>8 DEF Tool

\* A call goes on with the paths and the tree it began with.
LEMMA GoesOn ==
  ASSUME PathInv, CopyInv, NEW c \in Calls, Call(c), pc[c] \notin {"start", "done"},
         pc'[c] \notin {"start", "done"}
  PROVE  from'[c] = from[c] /\ to'[c] = to[c] /\ W(c)' = W(c)
<1>1. ~Missing(c) /\ ~Stat(c) /\ ~Begin(c) /\ ~Look(c) /\ ~StartRemove(c)
  BY DEF Missing, Stat, Begin, Look, StartRemove, Starts
<1>2. \A s : ~Return(c, s)
  BY DEF Return, PathInv
<1>3. UNCHANGED <<from, to>>
  BY <1>1, <1>2 DEF Call, Tool, Chmod, Mkdir, CreateParents, Throw, Clear, Rename, CopyEntry,
                    EndCopy, RemovePath, Keep
<1>4. before'[c] = before[c]
  BY DEF Call, CopyInv
<1> QED
  BY <1>3, <1>4 DEF W

\* Every step keeps what a call that is alone has made.
LEMMA CopyNext ==
  ASSUME PathInv, PathInv', ToolInv, WayInv, CopyInv, [Next]_vars
  PROVE  CopyInv'
<1>1. CASE UNCHANGED vars
  BY <1>1 DEF CopyInv, Copies, MadeBy, W, vars
<1>2. ASSUME NEW c \in Calls, Call(c) PROVE CopyInv'
  <2>1. Tool(c) /\ request' = request
    BY <1>2 DEF Call
  <2>2. \A d \in Calls \ {c} : pc'[d] = pc[d]
    BY <2>1, PcStep
  <2>3. \A d \in Calls : quiet'[d] <=> quiet[d] /\ (c = d \/ pc[d] \in {"start", "done"})
    BY <1>2 DEF Call
  <2>4. ASSUME NEW d \in Calls \ {c} PROVE ~(quiet'[d] /\ pc'[d] \notin {"start", "done"})
    BY <2>2, <2>3
  <2>5. ASSUME quiet'[c], pc'[c] \notin {"start", "done"}
        PROVE  /\ Sound(request[c], W(c)', from'[c], to'[c])
               /\ Scope(request[c], W(c)', from'[c], to'[c]) =>
                     Made(request[c], W(c)', from'[c], to'[c], fs', pc'[c], todo'[c])
    <3>1. quiet[c] /\ \A s : ~Return(c, s)
      BY <2>3, <2>5 DEF Return, PathInv
    <3>2. ~Missing(c) /\ ~Stat(c) /\ ~Chmod(c) /\ ~Mkdir(c)
      BY <3>1 DEF Missing, Throw, Stat, Chmod, Mkdir
    <3>3. CASE pc[c] = "start"
      <4>1. W(c)' = fs
        BY <1>2, <2>5, <3>3 DEF Call, CopyInv, W
      <4>2. CASE Look(c)
        BY <2>5, <4>1, <4>2, LookMade
      <4>3. CASE StartRemove(c)
        <5>1. request[c].tool = "remove" /\ IsTree(fs)
          BY <4>3 DEF StartRemove, Starts, Is, PathInv
        <5> QED
          BY <4>1, <5>1 DEF Sound, Scope
      <4>4. CASE Begin(c)
        <5>1. request[c].tool \in {"chmod", "mkdir"} /\ IsTree(fs)
          BY <4>4 DEF Begin, Starts, Is, PathInv
        <5> QED
          BY <4>1, <5>1 DEF Sound, Scope
      <4> QED
        BY <2>1, <3>2, <3>3, <4>2, <4>3, <4>4 DEF Tool, CreateParents, Clear, Rename, CopyEntry,
                                            EndCopy, RemovePath
    <3>4. CASE pc[c] # "start"
      <4>1. pc[c] \notin {"start", "done"}
        BY <2>1, <3>2, <3>4 DEF Tool, Look, Begin, StartRemove, Starts, CreateParents, Clear, Rename,
                                CopyEntry, EndCopy, RemovePath
      <4>2. Copies(c) /\ Way(c)
        BY <3>1, <4>1 DEF CopyInv, WayInv
      <4>3. from'[c] = from[c] /\ to'[c] = to[c] /\ W(c)' = W(c)
        BY <1>2, <2>5, <4>1, GoesOn
      <4>4. Sound(request[c], W(c), from[c], to[c])
        BY <4>2 DEF Copies
      <4>5. ASSUME Scope(request[c], W(c), from[c], to[c])
            PROVE  Made(request[c], W(c), from[c], to[c], fs', pc'[c], todo'[c])
        <5>1. MadeBy(c)
          BY <4>2, <4>5 DEF Copies
        <5>2. ~Look(c) /\ ~Begin(c) /\ ~StartRemove(c)
          BY <3>4 DEF Look, Begin, StartRemove, Starts
        <5>3. CASE CreateParents(c)
          BY <2>5, <4>2, <4>5, <5>1, <5>3, CreateParentsMade
        <5>4. CASE Clear(c)
          BY <2>5, <4>5, <5>1, <5>4, ClearMade
        <5>5. CASE Rename(c)
          BY <2>5, <4>5, <5>1, <5>5, RenameMade
        <5>6. CASE CopyEntry(c)
          BY <2>5, <4>4, <4>5, <5>1, <5>6, CopyEntryMade
        <5>7. CASE EndCopy(c)
          BY <2>5, <4>5, <5>1, <5>7, EndCopyMade
        <5>8. CASE RemovePath(c)
          BY <2>5, <4>2, <4>5, <5>1, <5>8, RemovePathMade
        <5> QED
          BY <2>1, <3>2, <5>2, <5>3, <5>4, <5>5, <5>6, <5>7, <5>8 DEF Tool
      <4> QED
        BY <4>3, <4>4, <4>5
    <3> QED
      BY <3>3, <3>4
  <2>6. before' = [d \in Calls |-> before'[d]]
    BY <1>2 DEF Call, CopyInv
  <2>7. result' = [d \in Calls |-> result'[d]]
    BY <2>1, ResultStep DEF CopyInv, Return
  <2>8. ASSUME quiet'[c], pc'[c] \notin {"start", "done"} PROVE Copies(c)'
    BY <2>1, <2>5, <2>8 DEF Copies, MadeBy
  <2> QED
    BY <2>4, <2>6, <2>7, <2>8 DEF CopyInv
<1> QED
  BY <1>1, <1>2 DEF Next

\* At the start no call is under way.
LEMMA CopyInit == Init => CopyInv
BY DEF Init, CopyInv
\* What is behind a path with names behind it.
LEMMA SuffixJoin ==
  ASSUME NEW q \in Seq(Names), NEW s \in Seq(Names)
  PROVE  Suffix(q \o s, q) = s
<1>1. PICK n \in Nat : n = Len(q)
  BY LenProperties
<1>2. SubSeq(q \o s, n + 1, Len(q \o s)) = SubSeq(q, n + 1, n) \o s
  BY <1>1, RestJoin
<1>3. SubSeq(q, n + 1, n) = <<>>
  BY <1>1, SubSeqEmpty
<1>4. <<>> \o s = s
  BY ConcatEmptySeq
<1> QED
  BY <1>1, <1>2, <1>3, <1>4 DEF Suffix

\* A rename puts what is below one path below the other.
LEMMA RenamedAt ==
  ASSUME IsTree(fs), NEW p \in NE, NEW q \in NE, Renameable(p, q), NEW u, u = Renamed(p, q)
  PROVE  /\ \A s \in Seq(Names) : At(u, q \o s) = At(fs, p \o s)
         /\ \A z \in Paths : ~StartsWith(z, q) =>
               u[z] = IF StartsWith(z, p) THEN Absent ELSE fs[z]
<1>1. p \in Seq(Names) /\ q \in Seq(Names)
  BY DEF NE
<1>2. ASSUME NEW s \in Seq(Names) PROVE At(u, q \o s) = At(fs, p \o s)
  <2>1. PICK a, b : a = p \o s /\ b = q \o s
    OBVIOUS
  <2>2. a \in Seq(Names) /\ StartsWith(a, p) /\ StartsWith(b, q)
    BY <1>1, <2>1, StartsJoin
  <2>3. Suffix(a, p) = s /\ Suffix(b, q) = s
    BY <1>1, <2>1, SuffixJoin
  <2>4. CASE b \in Paths
    <3>1. u[b] = At(fs, p \o Suffix(b, q))
      BY <2>2, <2>4 DEF Renamed
    <3>2. p \o Suffix(b, q) = a
      BY <2>1, <2>3
    <3> QED
      BY <2>1, <2>4, <3>1, <3>2 DEF At
  <2>5. CASE b \notin Paths
    <3>1. At(u, b) = Absent
      BY <2>5 DEF At
    <3>2. At(fs, a) = Absent
      <4>1. SUFFICES ASSUME At(fs, a) # Absent PROVE FALSE
        OBVIOUS
      <4>2. a \in Below(fs, p)
        BY <2>2, <4>1 DEF Below, At
      <4>3. q \o Suffix(a, p) \in Paths
        BY <4>2 DEF Renameable
      <4>4. q \o Suffix(a, p) = b
        BY <2>1, <2>3
      <4> QED
        BY <2>5, <4>3, <4>4
    <3> QED
      BY <2>1, <3>1, <3>2
  <2> QED
    BY <2>4, <2>5
<1>3. ASSUME NEW z \in Paths, ~StartsWith(z, q)
      PROVE  u[z] = IF StartsWith(z, p) THEN Absent ELSE fs[z]
  BY <1>3 DEF Renamed
<1> QED
  BY <1>2, <1>3

\* A move by rename of a call that is alone is one between its very paths, to where
\* nothing was or a link that leads nowhere.
LEMMA RenameAlone ==
  ASSUME PathInv, ToolInv, NEW c \in Calls, Rename(c), Way(c), MadeBy(c),
         Renameable(Spot(from[c]), Spot(to[c])), fs' = Renamed(Spot(from[c]), Spot(to[c]))
  PROVE  /\ ~StartsWith(to[c], from[c])
         /\ \A s \in Seq(Names) : At(fs', to[c] \o s) = At(fs, from[c] \o s)
         /\ \A z \in Paths : ~StartsWith(z, to[c]) =>
               fs'[z] = IF StartsWith(z, from[c]) THEN Absent ELSE fs[z]
         /\ At(fs, to[c]) = Absent \/ At(fs, to[c]).kind = "link"
<1>1. PICK w, p, q : w = W(c) /\ p = from[c] /\ q = to[c]
  OBVIOUS
<1>2. pc[c] = "rename" /\ p \in NE /\ q \in NE /\ IsTree(fs) /\ request[c].tool = "move"
  BY <1>1 DEF Rename, PathInv, Ready, ToolInv, Is
<1>3. Spot(p) = p
  BY <1>1, <1>2, SpotPlain DEF Way
<1>4. Unmade(request[c], w, p, q, fs, "rename", todo[c])
  BY <1>1, <1>2 DEF MadeBy, Made
<1>5. (Exists(fs, Front(q)) => Links(fs, Front(q)) = {}) /\ ~Exists(fs, q)
  BY <1>4 DEF Unmade
<1>6. Links(fs, Front(q)) = {}
  <2>1. PICK f : f = Front(Spot(q))
    OBVIOUS
  <2>2. IsDir(fs, f)
    BY <1>1, <2>1 DEF Renameable
  <2>3. f = Real(fs, Front(q))
    BY <1>2, <2>1, SpotTyped DEF NE
  <2>4. Links(fs, f) = {} /\ At(fs, f) # Absent
    BY <1>2, <2>2, DirPlain DEF IsDir, Absent, Node
  <2>5. Exists(fs, Front(q))
    BY <2>3, <2>4, ExistsIs
  <2> QED
    BY <1>5, <2>5
<1>7. Spot(q) = q
  BY <1>2, <1>6, SpotPlain
<1>8. At(fs, q) = Absent \/ At(fs, q).kind = "link"
  <2>1. SUFFICES ASSUME At(fs, q) # Absent, At(fs, q).kind # "link" PROVE FALSE
    OBVIOUS
  <2>2. Links(fs, q) = {}
    BY <1>2, <1>6, <2>1, PlainLonger
  <2> QED
    BY <1>5, <2>1, <2>2, RealPlain, ExistsIs
<1>9. PICK u : u = fs'
  OBVIOUS
<1>10. Renameable(p, q) /\ u = Renamed(p, q)
  BY <1>1, <1>3, <1>7, <1>9
<1>11. ~StartsWith(q, p)
  BY <1>10 DEF Renameable
<1>12. /\ \A s \in Seq(Names) : At(u, q \o s) = At(fs, p \o s)
       /\ \A z \in Paths : ~StartsWith(z, q) =>
             u[z] = IF StartsWith(z, p) THEN Absent ELSE fs[z]
  BY <1>2, <1>10, RenamedAt
<1> QED
  BY <1>1, <1>8, <1>9, <1>11, <1>12
\* All of it holds in every state.
LEMMA CopyAlways == Spec => [](PathInv /\ ToolInv /\ WayInv /\ CopyInv)
<1>1. PathInv /\ ToolInv /\ WayInv /\ CopyInv /\ [Next]_vars
        => (PathInv /\ ToolInv /\ WayInv /\ CopyInv)'
  BY PathNext, ToolNext, WayNext, CopyNext
<1>2. Init => PathInv /\ ToolInv /\ WayInv /\ CopyInv
  BY PathInit, WayInit, CopyInit
<1> QED
  BY <1>1, <1>2, PTL DEF Spec

\* Where a call that is under way and alone ends, and with which tree.
LEMMA EndsAt ==
  ASSUME PathInv, ToolInv, WayInv, CopyInv, NEW c \in Calls, Call(c), quiet[c],
         pc[c] \notin {"start", "done"}, pc'[c] = "done", request[c].tool \in {"copy", "move"}
  PROVE  /\ from'[c] = from[c] /\ to'[c] = to[c] /\ request[c].tool \in {"copy", "move"}
         /\ Copies(c) /\ Way(c)
         /\ \/ pc[c] # "remove" /\ fs' = fs /\ (result'[c] = "ok" => EndCopy(c) /\ Is(c, "copy"))
            \/ /\ pc[c] = "rename" /\ Rename(c) /\ Renameable(Spot(from[c]), Spot(to[c]))
               /\ fs' = Renamed(Spot(from[c]), Spot(to[c]))
            \/ /\ pc[c] = "remove" /\ Is(c, "move")
               /\ \/ fs' = fs /\ (result'[c] = "ok" => ~Exists(fs, from[c]))
                  \/ /\ Inside(fs, from[c]) = {} /\ from[c] \in Paths
                     /\ fs' = [fs EXCEPT ![from[c]] = Absent]
<1>1. Copies(c) /\ Way(c) /\ Tool(c) /\ request' = request
  BY DEF CopyInv, WayInv, Call
<1>2. request[c].tool \in {"copy", "move"}
  OBVIOUS
<1>3. \A s : ~Goto(c, s) \/ s = "done"
  BY DEF Goto, PathInv
<1>4. ~UNCHANGED pc
  OBVIOUS
<1>5. Return(c, "error") => result'[c] # "ok"
  BY DEF Return, CopyInv
<1>6. ~Missing(c) /\ ~Stat(c) /\ ~Begin(c) /\ ~Chmod(c) /\ ~Mkdir(c) /\ ~Look(c) /\ ~StartRemove(c)
  BY DEF Missing, Stat, Begin, Chmod, Mkdir, Look, StartRemove, Starts, ToolInv, Is
<1>7. from'[c] = from[c] /\ to'[c] = to[c]
  BY <1>1, <1>6 DEF Tool, CreateParents, Throw, Clear, Rename, CopyEntry, EndCopy, RemovePath, Keep
<1>8. CASE CreateParents(c)
  <2>1. pc[c] # "remove" /\ fs' = fs /\ Return(c, "error")
    BY <1>3, <1>8 DEF CreateParents, Throw
  <2> QED
    BY <1>1, <1>2, <1>5, <1>7, <2>1
<1>9. CASE Clear(c)
  <2>1. pc[c] # "remove" /\ fs' = fs /\ Return(c, "error")
    BY <1>3, <1>4, <1>9 DEF Clear, RemoveAll
  <2> QED
    BY <1>1, <1>2, <1>5, <1>7, <2>1
<1>10. CASE Rename(c)
  <2>1. pc[c] = "rename" /\ ~Goto(c, "copy")
    BY <1>3, <1>10 DEF Rename
  <2>2. \/ fs' = fs /\ Return(c, "error")
        \/ /\ Renameable(Spot(from[c]), Spot(to[c]))
           /\ fs' = Renamed(Spot(from[c]), Spot(to[c]))
    BY <1>10, <2>1 DEF Rename
  <2> QED
    BY <1>1, <1>2, <1>5, <1>7, <1>10, <2>1, <2>2
<1>11. CASE CopyEntry(c)
  <2>1. pc[c] # "remove" /\ fs' = fs /\ Return(c, "error")
    BY <1>4, <1>11 DEF CopyEntry
  <2> QED
    BY <1>1, <1>2, <1>5, <1>7, <2>1
<1>12. CASE EndCopy(c)
  <2>1. pc[c] # "remove" /\ fs' = fs /\ Is(c, "copy")
    BY <1>3, <1>12 DEF EndCopy
  <2> QED
    BY <1>1, <1>2, <1>7, <1>12, <2>1
<1>13. CASE RemovePath(c)
  <2>1. pc[c] = "remove" /\ Is(c, "move")
    BY <1>2, <1>13 DEF RemovePath, ToolInv, Is
  <2>2. from[c] \in NE /\ Spot(from[c]) = from[c]
    BY <1>1, <2>1, SpotPlain DEF Way, Is, PathInv, Ready
  <2>3. RemoveAll(c, from[c], Return(c, "ok"))
    BY <1>13, <2>1 DEF RemovePath
  <2>4. \/ fs' = fs /\ (result'[c] = "ok" => ~Exists(fs, from[c]))
        \/ /\ Inside(fs, from[c]) = {} /\ from[c] \in Paths
           /\ fs' = [fs EXCEPT ![from[c]] = Absent]
    BY <1>4, <1>5, <2>2, <2>3 DEF RemoveAll, Below
  <2> QED
    BY <1>1, <1>2, <1>7, <2>1, <2>4
<1> QED
  BY <1>1, <1>6, <1>8, <1>9, <1>10, <1>11, <1>12, <1>13 DEF Tool

-----------------------------------------------------------------------------
(***************************************************************************)
(* The tools on one path: fs_chmod, fs_mkdir and fs_remove.                *)
(***************************************************************************)
\* Both or neither of two paths, one of which starts with the other, lead out of the root.
LEMMA EscapesWith ==
  ASSUME NEW p \in NE, NEW q \in NE, StartsWith(p, q)
  PROVE  Escapes(p) <=> Escapes(q)
<1>1. PICK u : u = <<Up>>
  OBVIOUS
<1>2. u \in Seq(Names) /\ Len(u) = 1 /\ u[1] = Up
  BY <1>1, PathAssumption
<1>3. ASSUME NEW x \in NE PROVE Len(x) \in Nat \ {0} /\ (StartsWith(x, u) <=> x[1] = Up)
  <2>1. Len(x) \in Nat \ {0} /\ x \in Seq(Names)
    BY FrontIs DEF NE
  <2>2. StartsWith(x, u) <=> Len(u) <= Len(x) /\ \A j \in 1..Len(u) : x[j] = u[j]
    <3>1. x \in Seq(Names) /\ u \in Seq(Names)
      BY <1>2, <2>1
    <3> QED
      BY <3>1, StartsIs
  <2>3. PICK n \in Nat : n = Len(x)
    BY <2>1
  <2>4. StartsWith(x, u) <=> 1 <= n /\ \A j \in 1..1 : x[j] = u[j]
    BY <1>2, <2>2, <2>3
  <2>5. n # 0
    BY <2>1, <2>3
  <2>6. 1..1 = {1} /\ 1 <= n
    BY <2>5
  <2>7. StartsWith(x, u) <=> x[1] = Up
    BY <1>2, <2>4, <2>6
  <2> QED
    BY <2>1, <2>7
<1>4. p[1] = q[1]
  <2>1. Len(q) <= Len(p) /\ \A j \in 1..Len(q) : p[j] = q[j]
    BY StartsIs DEF NE
  <2> QED
    BY <1>3, <2>1
<1> QED
  BY <1>1, <1>3, <1>4 DEF Escapes

\* What lies at or below a path does not lead out of the root unless that does.
LEMMA BelowInside ==
  ASSUME NEW p \in NE, ~Escapes(p), NEW q \in Paths, StartsWith(q, p)
  PROVE  ~Escapes(q)
<1>1. p \in Seq(Names) /\ q \in Seq(Names) /\ p # <<>>
  BY PathsAre DEF NE
<1>2. q \in NE
  BY <1>1, StartsForms DEF NE
<1> QED
  BY <1>2, EscapesWith

\* A fs_chmod or fs_mkdir that is alone finds the tree as it was when it resolved its
\* path, and a removal has changed nothing outside the root.
Waits(c) ==
    /\ ~Escapes(from[c])
    /\ \A p \in Paths : Escapes(p) => fs[p] = W(c)[p]
    /\ pc[c] # "remove" => fs = W(c) /\ resolve_path(from[c]) = from[c]
    /\ pc[c] = "chmod" => Links(fs, from[c]) = {}
OutInv ==
    \A c \in Calls :
        quiet[c] /\ pc[c] \notin {"start", "done"} /\ request[c].tool \in {"chmod", "mkdir", "remove"}
        => Waits(c)

\* The tools on one path resolve it, and refuse one outside the root.
LEMMA BeginWaits ==
  ASSUME PathInv, CopyInv, NEW c \in Calls, Call(c), Begin(c) \/ StartRemove(c)
  PROVE  Waits(c)'
<1>1. PICK t \in {"chmod", "mkdir", "remove"} : Starts(c, t) /\ Goto(c, t) /\ Resolved(c) /\ fs' = fs
  BY DEF Begin, StartRemove
<1>2. /\ pc[c] = "start" /\ Is(c, t) /\ Found(c) /\ IsTree(fs)
      /\ pc'[c] = t /\ from'[c] = Source(c)
  BY <1>1 DEF Starts, Goto, Resolved, PathInv
<1>3. W(c)' = fs
  BY <1>2 DEF Call, CopyInv, W
<1>4. PICK p : p = normal(request[c].from)
  OBVIOUS
<1>5. p \in NE /\ ~Tangled(fs, p) /\ p \in Seq(Names)
  BY <1>2, <1>4, PathAssumption DEF Found, PathInv, NE
<1>6. PICK q : q = Source(c) /\ q = resolve_path(p)
  BY <1>4 DEF Source
<1>7. ~Escapes(q)
  BY <1>2, <1>6 DEF Found
<1>8. resolve_path(q) = q
  <2>1. PICK r, s : Settled(r, s) /\ resolve_path(p) = r \o s
    BY <1>2, <1>5, ResolvedForm
  <2>2. resolve_path(r \o s) = r \o s
    BY <1>2, <2>1, ResolvedStays
  <2> QED
    BY <1>6, <2>1, <2>2
<1>9. t = "chmod" => Links(fs, q) = {}
  <2>1. t = "chmod" => Exists(fs, q)
    BY <1>2, <1>6 DEF Found, Is
  <2> QED
    BY <1>2, <1>5, <1>6, <2>1, ResolvedTo
<1>10. \A x : resolve_path(x)' = resolve_path(x')
  BY <1>1 DEF resolve_path
<1>11. resolve_path(from[c])' = q
  BY <1>1, <1>2, <1>6, <1>8, <1>10 DEF resolve_path
<1> QED
  BY <1>1, <1>2, <1>3, <1>6, <1>7, <1>9, <1>11 DEF Waits

\* What is removed is inside the root.
LEMMA RemoveWaits ==
  ASSUME PathInv, ToolInv, WayInv, CopyInv, NEW c \in Calls, Call(c), RemovePath(c), quiet[c],
         Is(c, "remove"), Waits(c)
  PROVE  /\ from'[c] = from[c]
         /\ \A p \in Paths : Escapes(p) => fs'[p] = W(c)[p]
<1>1. /\ pc[c] = "remove" /\ from[c] \in NE /\ UNCHANGED <<from, to>> /\ IsTree(fs) /\ Way(c)
  BY DEF RemovePath, PathInv, Ready, Keep, WayInv
<1>2. Spot(from[c]) = from[c]
  BY <1>1, SpotPlain DEF Way, Is
<1>3. \/ fs' = fs
      \/ \E q \in Paths : StartsWith(q, from[c]) /\ fs' = [fs EXCEPT ![q] = Absent]
  <2>1. CASE RemoveAll(c, from[c], Return(c, "ok"))
    BY <1>2, <2>1 DEF RemoveAll, Below
  <2>2. CASE ~RemoveAll(c, from[c], Return(c, "ok"))
    <3>1. fs' = fs \/ (Lstat(from[c]) # Absent /\ fs' = [fs EXCEPT ![from[c]] = Absent])
      BY <1>2, <2>2 DEF RemovePath
    <3>2. Lstat(from[c]) # Absent => from[c] \in Paths
      BY <1>2 DEF Lstat, At
    <3>3. StartsWith(from[c], from[c])
      BY <1>1, StartsForms DEF NE
    <3> QED
      BY <3>1, <3>2, <3>3
  <2> QED
    BY <2>1, <2>2
<1>4. ASSUME NEW p \in Paths, Escapes(p) PROVE fs'[p] = fs[p]
  <2>1. ASSUME NEW q \in Paths, StartsWith(q, from[c]), fs' = [fs EXCEPT ![q] = Absent]
        PROVE  fs'[p] = fs[p]
    <3>1. p # q
      BY <1>1, <1>4, <2>1, BelowInside DEF Waits
    <3> QED
      BY <2>1, <3>1
  <2> QED
    BY <1>3, <2>1
<1> QED
  BY <1>1, <1>4 DEF Waits

\* Every step keeps it.
LEMMA OutNext ==
  ASSUME PathInv, ToolInv, WayInv, CopyInv, OutInv, [Next]_vars
  PROVE  OutInv'
<1>1. CASE UNCHANGED vars
  BY <1>1 DEF OutInv, Waits, W, vars, resolve_path
<1>2. ASSUME NEW c \in Calls, Call(c) PROVE OutInv'
  <2>1. Tool(c) /\ request' = request
    BY <1>2 DEF Call
  <2>2. \A d \in Calls \ {c} : pc'[d] = pc[d]
    BY <2>1, PcStep
  <2>3. \A d \in Calls : quiet'[d] <=> quiet[d] /\ (c = d \/ pc[d] \in {"start", "done"})
    BY <1>2 DEF Call
  <2>4. ASSUME NEW d \in Calls \ {c} PROVE ~(quiet'[d] /\ pc'[d] \notin {"start", "done"})
    BY <2>2, <2>3
  <2>5. ASSUME quiet'[c], pc'[c] \notin {"start", "done"},
               request[c].tool \in {"chmod", "mkdir", "remove"}
        PROVE  Waits(c)'
    <3>1. quiet[c] /\ \A s : ~Return(c, s)
      BY <2>3, <2>5 DEF Return, PathInv
    <3>2. CASE Begin(c) \/ StartRemove(c)
      BY <1>2, <3>2, BeginWaits
    <3>3. CASE RemovePath(c)
      <4>1. pc[c] = "remove" /\ Is(c, "remove") /\ Waits(c)
        BY <2>5, <3>1, <3>3 DEF RemovePath, ToolInv, OutInv, Is
      <4>2. from'[c] = from[c] /\ \A p \in Paths : Escapes(p) => fs'[p] = W(c)[p]
        BY <1>2, <3>1, <3>3, <4>1, RemoveWaits
      <4>3. pc' = pc
        BY <3>1, <3>3 DEF RemovePath, RemoveAll
      <4>4. W(c)' = W(c)
        BY <1>2, <4>1, <4>3 DEF Call, CopyInv, W
      <4> QED
        BY <4>1, <4>2, <4>3, <4>4 DEF Waits
    <3>4. ~Missing(c) /\ ~Stat(c) /\ ~Chmod(c) /\ ~Mkdir(c) /\ ~Look(c)
      BY <2>5, <3>1 DEF Missing, Throw, Stat, Chmod, Mkdir, Look, Starts, Is
    <3>5. ~CreateParents(c) /\ ~Clear(c) /\ ~Rename(c) /\ ~CopyEntry(c) /\ ~EndCopy(c)
      BY <2>5 DEF CreateParents, Clear, Rename, CopyEntry, EndCopy, ToolInv, Is
    <3> QED
      BY <2>1, <3>2, <3>3, <3>4, <3>5 DEF Tool
  <2> QED
    BY <2>1, <2>4, <2>5 DEF OutInv
<1> QED
  BY <1>1, <1>2 DEF Next

\* It holds always.
LEMMA OutAlways == Spec => [](PathInv /\ ToolInv /\ WayInv /\ CopyInv /\ OutInv)
<1>1. Init => OutInv
  BY DEF Init, OutInv
<1>2. PathInv /\ ToolInv /\ WayInv /\ CopyInv /\ OutInv /\ [Next]_vars => OutInv'
  BY OutNext
<1> QED
  BY <1>1, <1>2, CopyAlways, PTL DEF Spec

\* Which tool is under way where.
LEMMA SingleEnds ==
  ASSUME PathInv, ToolInv, OutInv, NEW c \in Calls, Tool(c), quiet[c],
         pc[c] \notin {"start", "done"}, request[c].tool \in {"chmod", "mkdir", "remove"}
  PROVE  (Chmod(c) \/ Mkdir(c) \/ RemovePath(c)) /\ Waits(c)
         /\ (Is(c, "remove") <=> RemovePath(c))
<1>1. Waits(c)
  BY DEF OutInv
<1>2. ~Missing(c) /\ ~Stat(c) /\ ~Begin(c) /\ ~Look(c) /\ ~StartRemove(c)
  BY DEF Missing, Stat, Begin, Look, StartRemove, Starts
<1>3. ~CreateParents(c) /\ ~Clear(c) /\ ~Rename(c) /\ ~CopyEntry(c) /\ ~EndCopy(c)
  BY DEF CreateParents, Clear, Rename, CopyEntry, EndCopy, ToolInv, Is
<1>4. /\ Chmod(c) \/ Mkdir(c) => request[c].tool \in {"chmod", "mkdir"}
      /\ RemovePath(c) => request[c].tool = "remove"
  BY DEF Chmod, Mkdir, RemovePath, ToolInv, Is
<1> QED
  BY <1>1, <1>2, <1>3, <1>4 DEF Tool, Is

\* A fs_chmod, fs_mkdir or fs_remove that runs alone changes nothing outside the root,
\* whatever links it meets on its way: resolve_path refuses what leads out, and what the
\* tool then works on is what was resolved (support.cpp:164-182).
THEOREM OutsideStays == Spec => OutsideKept
<1>1. ASSUME PathInv, ToolInv, WayInv, CopyInv, OutInv, NEW d \in Calls, Call(d),
             NEW c \in Calls, ReturnsAlone(c), request[c].tool \in {"chmod", "mkdir", "remove"},
             NEW p \in Paths, Escapes(p)
      PROVE  fs'[p] = Was(c)[p]
  <2>1. pc[c] # "done" /\ pc'[c] = "done" /\ quiet[c]
    BY <1>1 DEF ReturnsAlone
  <2>2. c = d /\ Tool(c)
    BY <1>1, <2>1, PcStep DEF Call
  <2>3. CASE pc[c] = "start"
    <3>1. Missing(c)
      <4>1. \A s : Goto(c, s) => pc'[c] = s
        BY <1>1 DEF Goto, PathInv
      <4>2. ~Begin(c) /\ ~StartRemove(c)
        BY <2>1, <4>1 DEF Begin, StartRemove
      <4> QED
        BY <1>1, <2>2, <2>3, <4>2 DEF Tool, Stat, Look, Starts, Is, Chmod, Mkdir, CreateParents,
           Clear, Rename, CopyEntry, EndCopy, RemovePath
    <3> QED
      BY <2>3, <3>1 DEF Missing, Throw, Was
  <2>4. CASE pc[c] # "start"
    <3>1. Was(c) = W(c)
      BY <2>4 DEF Was, W
    <3>2. (Chmod(c) \/ Mkdir(c) \/ RemovePath(c)) /\ Waits(c) /\ (Is(c, "remove") <=> RemovePath(c))
      BY <1>1, <2>1, <2>2, <2>4, SingleEnds
    <3>3. from[c] \in NE /\ ~Escapes(from[c]) /\ IsTree(fs)
      BY <1>1, <2>1, <2>4, <3>2 DEF PathInv, Ready, Waits
    <3>4. fs[p] = W(c)[p]
      BY <1>1, <3>2 DEF Waits
    <3>5. CASE Chmod(c)
      <4>1. Real(fs, from[c]) = from[c]
        BY <3>2, <3>5, RealPlain DEF Waits, Chmod
      <4>2. p # from[c]
        BY <1>1, <3>3
      <4>3. fs'[p] = fs[p]
        <5>1. PICK m : fs' = fs \/ fs' = [fs EXCEPT ![Real(fs, from[c])].mode = m]
          BY <3>5 DEF Chmod
        <5>2. PICK b : b = from[c] /\ Real(fs, from[c]) = b
          BY <4>1
        <5>3. fs' = fs \/ fs' = [fs EXCEPT ![b].mode = m]
          BY <5>1, <5>2
        <5>4. p # b /\ fs = [x \in Paths |-> fs[x]]
          BY <3>3, <4>2, <5>2 DEF IsTree
        <5> QED
          BY <1>1, <5>3, <5>4
      <4> QED
        BY <3>1, <3>4, <4>3
    <3>6. CASE Mkdir(c)
      <4>1. resolve_path(from[c]) = from[c]
        BY <3>2, <3>6 DEF Waits, Mkdir
      <4>2. p \in NE
        <5>1. p # <<>>
          <6>1. PICK u : u = <<Up>>
            OBVIOUS
          <6>2. u \in Seq(Names) /\ u # <<>> /\ StartsWith(p, u)
            BY <1>1, <6>1, PathAssumption DEF Escapes
          <6> QED
            BY <6>2, StartsForms
        <5> QED
          BY <5>1, PathsAre DEF NE
      <4>3. ~StartsWith(from[c], p)
        BY <1>1, <3>3, <4>2, EscapesWith
      <4>4. fs'[p] = fs[p]
        BY <3>6, <4>1, <4>3 DEF Mkdir, Created
      <4> QED
        BY <3>1, <3>4, <4>4
    <3>7. CASE RemovePath(c)
      BY <1>1, <2>1, <2>2, <3>1, <3>2, <3>7, RemoveWaits
    <3> QED
      BY <3>2, <3>5, <3>6, <3>7
  <2> QED
    BY <2>3, <2>4
<1>2. PathInv /\ ToolInv /\ WayInv /\ CopyInv /\ OutInv /\ [Next]_vars
        => [\A c \in Calls :
               ReturnsAlone(c) /\ request[c].tool \in {"chmod", "mkdir", "remove"} =>
                  \A p \in Paths : Escapes(p) => fs'[p] = Was(c)[p]]_vars
  BY <1>1 DEF Next
<1> QED
  BY <1>2, OutAlways, PTL DEF Spec, OutsideKept

\* A fs_chmod or fs_mkdir that is alone keeps every file's content.
LEMMA SingleKeeps ==
  ASSUME PathInv, ToolInv, OutInv, NEW c \in Calls, Tool(c), quiet[c],
         pc[c] \notin {"start", "done"}, request[c].tool \in {"chmod", "mkdir"},
         NEW x \in Paths, W(c)[x].kind = "file"
  PROVE  fs'[x].kind = "file" /\ fs'[x].data = W(c)[x].data
<1>1. (Chmod(c) \/ Mkdir(c)) /\ Waits(c)
  BY SingleEnds DEF Is
<1>2. fs = W(c) /\ IsTree(fs)
  BY <1>1 DEF Waits, PathInv, Chmod, Mkdir
<1>3. CASE Chmod(c)
  <2>1. PICK y, n : fs' = fs \/ fs' = [fs EXCEPT ![y].mode = n]
    BY <1>3 DEF Chmod
  <2>2. fs[x] = Node(fs[x].kind, fs[x].data, fs[x].mode)
    BY <1>2 DEF IsTree, IsNode
  <2>3. fs'[x].kind = fs[x].kind /\ fs'[x].data = fs[x].data
    BY <1>2, <2>1, <2>2 DEF IsTree, Node
  <2> QED
    BY <1>2, <2>3
<1>4. CASE Mkdir(c)
  <2>1. PICK q : fs' = fs \/ fs' = Created(q)
    BY <1>4 DEF Mkdir
  <2>2. fs[x].kind = "file" => Created(q)[x] = fs[x]
    BY DEF Created, Absent, Node
  <2> QED
    BY <1>2, <2>1, <2>2
<1> QED
  BY <1>1, <1>3, <1>4

-----------------------------------------------------------------------------
\* What was in the tree is somewhere, and when the source is removed somewhere else.
LEMMA KeptSomewhere ==
  ASSUME NEW r, NEW w, IsTree(w), NEW p \in NE, NEW q \in NE, NEW t, NEW l, NEW T, ~r.overwrite,
         ~StartsWith(p, q), Kept(r, w, p, q, t, l), Landing(w, p, q, t, l, T),
         NEW x \in Paths, w[x] # Absent
  PROVE  \E z \in Paths : t[z] = w[x] /\ (l = "remove" => ~StartsWith(z, p))
<1>1. p \in Seq(Names) /\ q \in Seq(Names) /\ x \in Seq(Names) /\ At(w, x) = w[x]
  BY PathsAre DEF NE, At
<1>2. CASE l # "remove" \/ ~StartsWith(x, p)
  BY <1>2 DEF Kept
<1>3. CASE l = "remove" /\ StartsWith(x, p)
  <2>1. ~StartsWith(q, p)
    BY <1>3 DEF Landing
  <2>2. CASE Through(w, p, q, t)
    <3>1. At(w, p).kind = "file" /\ At(t, Real(t, q)) = At(w, p) /\ ~StartsWith(Real(t, q), p)
      BY <2>2 DEF Through
    <3>2. x = p
      BY <1>1, <1>3, <3>1, SomethingInside DEF IsDir
    <3>3. At(t, Real(t, q)) = w[x]
      BY <1>1, <3>1, <3>2
    <3> QED
      BY <3>1, <3>3 DEF At
  <2>3. CASE \A s \in Seq(Names) : At(t, q \o s) = At(w, p \o s)
    <3>1. PICK s \in Seq(Names) : x = p \o s
      BY <1>1, <1>3, StartsJoin, ZenonT(30)
    <3>2. PICK z : z = q \o s
      OBVIOUS
    <3>3. At(t, z) = w[x]
      BY <1>1, <2>3, <3>1, <3>2
    <3>4. z \in Seq(Names) /\ StartsWith(z, q)
      BY <1>1, <3>2, StartsJoin
    <3>5. ~StartsWith(z, p)
      BY <1>1, <2>1, <3>4, Comparable
    <3> QED
      BY <3>3, <3>5 DEF At
  <2> QED
    BY <1>3, <2>2, <2>3 DEF Landing
<1> QED
  BY <1>2, <1>3
\* A call that ends where it starts leaves every file, and a copy or a move that does has
\* failed, with nothing changed.
LEMMA EndsAtStart ==
  ASSUME PathInv, CopyInv, NEW c \in Calls, Tool(c), pc[c] = "start", pc'[c] = "done"
  PROVE  /\ \A x \in Paths : fs[x].kind = "file" =>
                fs'[x].kind = "file" /\ fs'[x].data = fs[x].data
         /\ request[c].tool \in {"copy", "move"} => fs' = fs /\ result'[c] # "ok"
<1>1. IsTree(fs)
  BY DEF PathInv
<1>2. CASE Missing(c) \/ Look(c)
  <2>1. ~Goto(c, "parents")
    BY DEF Goto, PathInv
  <2>2. fs' = fs /\ Return(c, "error")
    BY <1>2, <2>1 DEF Missing, Look, Throw
  <2>3. result'[c] # "ok"
    BY <2>2 DEF Return, CopyInv
  <2> QED
    BY <2>2, <2>3
<1>3. CASE Stat(c)
  BY <1>3 DEF Stat, Starts, Is
<1>4. ~Begin(c)
  BY DEF Begin, Goto, PathInv
<1>5. ~StartRemove(c)
  BY DEF StartRemove, Goto, PathInv
<1> QED
  BY <1>2, <1>3, <1>4, <1>5 DEF Tool, Chmod, Mkdir, CreateParents, Clear, Rename, CopyEntry, EndCopy, RemovePath

\* What is a file when a call that is alone begins is one when it ends.
LEMMA FileStays ==
  ASSUME PathInv, ToolInv, WayInv, CopyInv, NEW c \in Calls, Call(c), quiet[c],
         pc[c] \notin {"start", "done"}, pc'[c] = "done", request[c].tool \in {"copy", "move"},
         ~request[c].overwrite,
         NEW x \in Paths, W(c)[x].kind = "file"
  PROVE  \E z \in Paths : fs'[z] = W(c)[x]
<1>1. PICK r, w, p, q, l : r = request[c] /\ w = W(c) /\ p = from[c] /\ q = to[c] /\ l = pc[c]
  OBVIOUS
<1>2. /\ r.tool \in {"copy", "move"} /\ Copies(c) /\ Way(c)
      /\ \/ l # "remove" /\ fs' = fs
         \/ /\ l = "rename" /\ Rename(c) /\ Renameable(Spot(p), Spot(q))
            /\ fs' = Renamed(Spot(p), Spot(q))
         \/ /\ l = "remove"
            /\ fs' = fs \/ (p \in Paths /\ fs' = [fs EXCEPT ![p] = Absent])
  BY <1>1, EndsAt
<1>3. /\ Sound(r, w, p, q) /\ Scope(r, w, p, q) /\ MadeBy(c) /\ ~StartsWith(p, q) /\ IsTree(w)
      /\ Kept(r, w, p, q, fs, l) /\ Landing(w, p, q, fs, l, todo[c])
  BY <1>1, <1>2 DEF Copies, Sound, Scope, MadeBy, Made
<1>4. /\ p \in NE /\ q \in NE /\ IsTree(fs) /\ ~r.overwrite /\ w[x] # Absent
      /\ p \in Seq(Names) /\ q \in Seq(Names) /\ x \in Seq(Names) /\ w[x].kind = "file"
  BY <1>1, PathsAre DEF PathInv, Ready, NE, Absent, Node
<1>5. \E z \in Paths : fs[z] = w[x] /\ (l = "remove" => ~StartsWith(z, p))
  BY <1>3, <1>4, KeptSomewhere
<1>6. CASE fs' = fs
  BY <1>1, <1>5, <1>6
<1>7. CASE l = "remove" /\ p \in Paths /\ fs' = [fs EXCEPT ![p] = Absent]
  <2>1. PICK z \in Paths : fs[z] = w[x] /\ ~StartsWith(z, p)
    BY <1>5, <1>7
  <2>2. z # p
    BY <1>4, <2>1, StartsForms
  <2>3. fs'[z] = fs[z]
    BY <1>7, <2>2
  <2> QED
    BY <1>1, <2>1, <2>3
<1>8. CASE /\ l = "rename" /\ Rename(c) /\ Renameable(Spot(p), Spot(q))
           /\ fs' = Renamed(Spot(p), Spot(q))
  <2>1. /\ \A s \in Seq(Names) : At(fs', q \o s) = At(fs, p \o s)
        /\ \A z \in Paths : ~StartsWith(z, q) =>
              fs'[z] = IF StartsWith(z, p) THEN Absent ELSE fs[z]
        /\ At(fs, q) = Absent \/ At(fs, q).kind = "link"
    BY <1>1, <1>2, <1>3, <1>8, RenameAlone
  <2>2. fs[x] = w[x] /\ At(fs, x) = w[x]
    BY <1>3, <1>4, <1>8 DEF Kept, At
  <2>3. ~StartsWith(x, q)
    <3>1. SUFFICES ASSUME StartsWith(x, q) PROVE FALSE
      OBVIOUS
    <3>2. At(fs, q).kind # "file" /\ ~IsDir(fs, q)
      BY <2>1 DEF Absent, Node, IsDir
    <3>3. x # q
      BY <1>4, <2>2, <3>2
    <3> QED
      BY <1>4, <2>2, <3>1, <3>2, <3>3, NothingBelow
  <2>4. CASE StartsWith(x, p)
    <3>1. PICK s \in Seq(Names) : x = p \o s
      BY <1>4, <2>4, StartsJoin
    <3>2. PICK z : z = q \o s
      OBVIOUS
    <3>3. At(fs', z) = w[x]
      BY <2>1, <2>2, <3>1, <3>2
    <3>4. z \in Paths
      BY <1>4, <3>3 DEF At
    <3> QED
      BY <1>1, <3>3, <3>4 DEF At
  <2>5. CASE ~StartsWith(x, p)
    <3>1. fs'[x] = w[x]
      BY <2>1, <2>2, <2>3, <2>5
    <3> QED
      BY <1>1, <3>1
  <2> QED
    BY <2>4, <2>5
<1> QED
  BY <1>2, <1>6, <1>7, <1>8

\* No call that runs alone, and neither removes nor overwrites, loses a file, whether it
\* succeeds or fails half-way (fs_copy.cpp:40, fs_move.cpp:36).
THEOREM FilesAreKept == Spec => FilesKept
<1>1. ASSUME PathInv, ToolInv, WayInv, CopyInv, OutInv, NEW d \in Calls, Call(d), NEW c \in Calls,
             ReturnsAlone(c), ~Is(c, "remove"), ~request[c].overwrite
      PROVE  Contents(Was(c)) \subseteq Contents(fs')
  <2>1. pc[c] # "done" /\ pc'[c] = "done" /\ quiet[c]
    BY <1>1 DEF ReturnsAlone
  <2>2. c = d
    BY <1>1, <2>1, PcStep DEF Call
  <2>3. SUFFICES ASSUME NEW x \in Paths, Was(c)[x].kind = "file"
                 PROVE  \E z \in Paths : fs'[z].kind = "file" /\ fs'[z].data = Was(c)[x].data
    BY DEF Contents
  <2>4. CASE pc[c] = "start"
    BY <1>1, <2>1, <2>2, <2>3, <2>4, EndsAtStart DEF Was, Call
  <2>5. CASE pc[c] # "start"
    <3>1. Was(c) = W(c)
      BY <2>5 DEF Was, W
    <3>2. Tool(c) /\ ~Stat(c) /\ ~Missing(c)
      BY <1>1, <2>2, <2>5 DEF Call, Stat, Missing, Starts
    <3>3. request[c].tool \in {"copy", "move", "chmod", "mkdir"}
      BY <1>1, <2>1, <2>5 DEF ToolInv, PathInv, States, Is
    <3>4. CASE request[c].tool \in {"copy", "move"}
      <4>1. \E z \in Paths : fs'[z] = W(c)[x]
        BY <1>1, <2>1, <2>2, <2>3, <2>5, <3>1, <3>4, FileStays
      <4> QED
        BY <2>3, <3>1, <4>1
    <3>5. CASE request[c].tool \in {"chmod", "mkdir"}
      BY <1>1, <2>1, <2>3, <2>5, <3>1, <3>2, <3>5, SingleKeeps
    <3> QED
      BY <3>3, <3>4, <3>5
  <2> QED
    BY <2>4, <2>5
<1>2. PathInv /\ ToolInv /\ WayInv /\ CopyInv /\ OutInv /\ [Next]_vars
        => [\A c \in Calls :
               ReturnsAlone(c) /\ ~Is(c, "remove") /\ ~request[c].overwrite
                 => Contents(Was(c)) \subseteq Contents(fs')]_vars
  BY <1>1 DEF Next
<1> QED
  BY <1>2, OutAlways, PTL DEF Spec, FilesKept
\* When the source has been removed, what has been copied is where it was put, and what
\* is left of the source is what was there.
LEMMA RemovedKeeps ==
  ASSUME NEW r, NEW w, IsTree(w), NEW p \in NE, NEW q \in NE, ~StartsWith(p, q),
         NEW t, IsTree(t), NEW T, Landing(w, p, q, t, "remove", T),
         NEW u, u = t \/ (p \in Paths /\ u = [t EXCEPT ![p] = Absent])
  PROVE  \/ Through(w, p, q, t) /\ At(u, Real(u, q)) = At(w, p)
         \/ \A s \in Seq(Names) : At(u, q \o s) = At(w, p \o s)
<1>1. p \in Seq(Names) /\ q \in Seq(Names) /\ ~StartsWith(q, p)
  BY DEF NE, Landing
<1>2. Through(w, p, q, t) \/ \A s \in Seq(Names) : At(t, q \o s) = At(w, p \o s)
  BY DEF Landing
<1>3. CASE u = t
  BY <1>2, <1>3 DEF Through
<1>4. CASE p \in Paths /\ u = [t EXCEPT ![p] = Absent]
  <2>1. \A z \in Paths : u[z] = IF z = p THEN Absent ELSE t[z]
    BY <1>4 DEF IsTree
  <2>2. \A z : At(u, z) = IF z = p THEN Absent ELSE At(t, z)
    BY <1>4, <2>1 DEF At
  <2>3. CASE Through(w, p, q, t)
    <3>1. /\ At(t, p).kind \in {"file", "absent"} /\ At(t, Real(t, q)) = At(w, p)
          /\ ~StartsWith(Real(t, q), p)
      BY <2>3 DEF Through
    <3>2. Absent.kind = "absent"
      BY DEF Absent, Node
    <3>3. \A z : At(u, z) = At(t, z) \/ (At(t, z).kind # "link" /\ At(u, z).kind # "link")
      <4>1. At(t, p).kind # "link" /\ At(u, p).kind # "link"
        BY <2>2, <3>1, <3>2
      <4> QED
        BY <2>2, <4>1
    <3>4. Real(u, q) = Real(t, q)
      BY <3>3, SameLinks
    <3>5. Real(t, q) # p
      BY <1>1, <3>1, StartsForms
    <3> QED
      BY <2>2, <2>3, <3>1, <3>4, <3>5
  <2>4. CASE \A s \in Seq(Names) : At(t, q \o s) = At(w, p \o s)
    <3>1. ASSUME NEW s \in Seq(Names) PROVE At(u, q \o s) = At(w, p \o s)
      <4>1. StartsWith(q \o s, q)
        BY <1>1, StartsJoin
      <4>2. q \o s # p
        BY <4>1
      <4> QED
        BY <2>2, <2>4, <4>2
    <3> QED
      BY <3>1
  <2> QED
    BY <1>2, <2>3, <2>4
<1> QED
  BY <1>3, <1>4

\* What a move that is alone moves is at its old or its new place when it ends.
LEMMA MoveStays ==
  ASSUME PathInv, ToolInv, WayInv, CopyInv, NEW c \in Calls, Call(c), quiet[c],
         pc[c] \notin {"start", "done"}, pc'[c] = "done", Is(c, "move"),
         ~StartsWith(from[c], to[c]), ~StartsWith(to[c], from[c]), NEW s \in Seq(Names)
  PROVE  At(W(c), from[c] \o s) \in {Absent, At(fs', from[c] \o s), At(fs', to[c] \o s),
                                     At(fs', Real(fs', to[c] \o s))}
<1>1. PICK r, w, p, q, l : r = request[c] /\ w = W(c) /\ p = from[c] /\ q = to[c] /\ l = pc[c]
  OBVIOUS
<1>2. /\ Copies(c) /\ Way(c) /\ r.tool = "move"
      /\ \/ l # "remove" /\ fs' = fs
         \/ /\ l = "rename" /\ Rename(c) /\ Renameable(Spot(p), Spot(q))
            /\ fs' = Renamed(Spot(p), Spot(q))
         \/ /\ l = "remove"
            /\ fs' = fs \/ (p \in Paths /\ fs' = [fs EXCEPT ![p] = Absent])
  BY <1>1, EndsAt DEF Is
<1>3. /\ Sound(r, w, p, q) /\ Scope(r, w, p, q) /\ MadeBy(c) /\ ~StartsWith(p, q) /\ IsTree(w)
      /\ ~StartsWith(q, p) /\ Held(w, p, q, fs, l) /\ Landing(w, p, q, fs, l, todo[c])
  BY <1>1, <1>2 DEF Copies, Sound, Scope, MadeBy, Made
<1>4. /\ p \in NE /\ q \in NE /\ IsTree(fs) /\ p \in Seq(Names) /\ q \in Seq(Names)
  BY <1>1 DEF PathInv, Ready, NE
<1>5. l # "remove" => At(fs, p \o s) = At(w, p \o s)
  BY <1>3 DEF Held
<1>6. CASE l # "remove" /\ fs' = fs
  BY <1>1, <1>5, <1>6
<1>7. CASE /\ l = "rename" /\ Rename(c) /\ Renameable(Spot(p), Spot(q))
           /\ fs' = Renamed(Spot(p), Spot(q))
  <2>1. At(fs', q \o s) = At(fs, p \o s)
    BY <1>1, <1>2, <1>3, <1>7, RenameAlone
  <2> QED
    BY <1>1, <1>5, <1>7, <2>1
<1>8. CASE /\ l = "remove"
           /\ fs' = fs \/ (p \in Paths /\ fs' = [fs EXCEPT ![p] = Absent])
  <2>1. PICK t, u : t = fs /\ u = fs'
    OBVIOUS
  <2>2. /\ IsTree(t) /\ Landing(w, p, q, t, "remove", todo[c])
        /\ u = t \/ (p \in Paths /\ u = [t EXCEPT ![p] = Absent])
    BY <1>3, <1>4, <1>8, <2>1
  <2>3. \/ Through(w, p, q, t) /\ At(u, Real(u, q)) = At(w, p)
        \/ \A z \in Seq(Names) : At(u, q \o z) = At(w, p \o z)
    BY <1>3, <1>4, <2>2, RemovedKeeps
  <2>4. CASE Through(w, p, q, t) /\ At(u, Real(u, q)) = At(w, p)
    <3>1. CASE s = <<>>
      <4>1. p \o s = p /\ q \o s = q
        BY <1>4, <3>1, ConcatEmptySeq
      <4> QED
        BY <1>1, <2>1, <2>4, <4>1
    <3>2. CASE s # <<>>
      <4>1. PICK a : a = p \o s
        OBVIOUS
      <4>2. a \in Seq(Names) /\ StartsWith(a, p) /\ a # p
        <5>1. Len(s) \in Nat \ {0} /\ Len(p) \in Nat
          BY <1>4, <3>2, FrontIs, LenProperties
        <5>2. Len(p \o s) = Len(p) + Len(s)
          BY <1>4, ConcatProperties
        <5>3. a \in Seq(Names) /\ StartsWith(a, p)
          BY <1>4, <4>1, StartsJoin
        <5> QED
          BY <4>1, <5>1, <5>2, <5>3
      <4>3. ~IsDir(w, p)
        BY <2>4 DEF Through, IsDir
      <4>4. At(w, a) = Absent
        BY <1>3, <1>4, <4>2, <4>3, NothingBelow
      <4> QED
        BY <1>1, <4>1, <4>4
    <3> QED
      BY <3>1, <3>2
  <2>5. CASE \A z \in Seq(Names) : At(u, q \o z) = At(w, p \o z)
    BY <1>1, <2>1, <2>5
  <2> QED
    BY <2>3, <2>4, <2>5
<1> QED
  BY <1>2, <1>6, <1>7, <1>8

\* A move that runs alone, also one with overwrite that fails half-way, loses nothing of
\* what it moves, unless its source lies inside its destination, or its destination
\* inside its source: each entry is at its old or its new place, or where that leads
\* (fs_move.cpp:27-64).
THEOREM MovesKeep == Spec => MovedKept
<1>1. ASSUME PathInv, ToolInv, WayInv, CopyInv, NEW d \in Calls, Call(d), NEW c \in Calls,
             ReturnsAlone(c), Is(c, "move"),
             ~StartsWith(from'[c], to'[c]), ~StartsWith(to'[c], from'[c]), NEW s \in Paths
      PROVE  At(Was(c), from'[c] \o s) \in
                {Absent, At(fs', from'[c] \o s), At(fs', to'[c] \o s),
                 At(fs', Real(fs', to'[c] \o s))}
  <2>1. pc[c] # "done" /\ pc'[c] = "done" /\ quiet[c] /\ s \in Seq(Names)
    BY <1>1, PathsAre DEF ReturnsAlone
  <2>2. c = d
    BY <1>1, <2>1, PcStep DEF Call
  <2>3. CASE pc[c] = "start"
    <3>1. Was(c) = fs /\ fs' = fs
      BY <1>1, <2>1, <2>2, <2>3, EndsAtStart DEF Was, Call, Is
    <3> QED
      BY <3>1
  <2>4. CASE pc[c] # "start"
    <3>1. Was(c) = W(c)
      BY <2>4 DEF Was, W
    <3>2. from'[c] = from[c] /\ to'[c] = to[c]
      BY <1>1, <2>1, <2>2, <2>4, EndsAt DEF Is
    <3> QED
      BY <1>1, <2>1, <2>2, <2>4, <3>1, <3>2, MoveStays
  <2> QED
    BY <2>3, <2>4
<1>2. PathInv /\ ToolInv /\ WayInv /\ CopyInv /\ [Next]_vars
        => [\A c \in Calls :
               ReturnsAlone(c) /\ Is(c, "move")
                 /\ ~StartsWith(from'[c], to'[c]) /\ ~StartsWith(to'[c], from'[c])
                 => \A s \in Paths :
                       At(Was(c), from'[c] \o s) \in
                          {Absent, At(fs', from'[c] \o s), At(fs', to'[c] \o s),
                           At(fs', Real(fs', to'[c] \o s))}]_vars
  BY <1>1 DEF Next
<1> QED
  BY <1>2, CopyAlways, PTL DEF Spec, MovedKept
\* Nothing of a source that has been removed is left.
LEMMA NothingLeft ==
  ASSUME NEW w, NEW p \in NE, NEW q, NEW t, IsTree(t), NEW T, At(w, p).kind \in {"file", "dir"},
         Landing(w, p, q, t, "remove", T), Links(t, Front(p)) = {},
         NEW u, IsTree(u), \/ u = t /\ ~Exists(t, p)
                           \/ Inside(t, p) = {} /\ p \in Paths /\ u = [t EXCEPT ![p] = Absent],
         NEW z \in Paths
  PROVE  u[z] = IF StartsWith(z, p) THEN Absent ELSE t[z]
<1>1. p \in Seq(Names) /\ z \in Seq(Names)
  BY PathsAre DEF NE
<1>2. CASE u = t /\ ~Exists(t, p)
  <2>1. At(t, p \o <<>>) \in {Absent, At(w, p \o <<>>)} /\ p \o <<>> = p
    BY <1>1, EmptySeq, ConcatEmptySeq DEF Landing
  <2>2. At(t, p) = Absent
    <3>1. SUFFICES ASSUME At(t, p) # Absent PROVE FALSE
      OBVIOUS
    <3>2. At(t, p).kind # "link"
      BY <2>1, <3>1
    <3>3. Links(t, p) = {}
      BY <3>2, PlainLonger
    <3> QED
      BY <1>2, <3>1, <3>3, RealPlain, ExistsIs
  <2>3. ~IsDir(t, p)
    BY <2>2 DEF IsDir, Absent, Node
  <2>4. StartsWith(z, p) => At(t, z) = Absent
    BY <1>1, <2>2, <2>3, NothingBelow
  <2> QED
    BY <1>2, <2>4 DEF At
<1>3. CASE Inside(t, p) = {} /\ p \in Paths /\ u = [t EXCEPT ![p] = Absent]
  <2>1. u[z] = IF z = p THEN Absent ELSE t[z]
    BY <1>3 DEF IsTree
  <2>2. StartsWith(z, p) /\ z # p => At(t, z) = Absent
    BY <1>1, <1>3, SomethingInside
  <2>3. StartsWith(p, p)
    BY <1>1, StartsForms
  <2> QED
    BY <2>1, <2>2, <2>3 DEF At
<1> QED
  BY <1>2, <1>3

\* Where a copy or a move that is alone succeeds, and where nothing was, is the source.
LEMMA LandsThere ==
  ASSUME PathInv, PathInv', ToolInv, WayInv, CopyInv, NEW c \in Calls, Call(c), quiet[c],
         pc[c] \notin {"start", "done"}, pc'[c] = "done", result'[c] = "ok",
         request[c].tool \in {"copy", "move"}, At(W(c), to[c]) = Absent
  PROVE  /\ \A s \in Seq(Names) : At(fs', to[c] \o s) = At(W(c), from[c] \o s)
         /\ \A z \in Paths :
               \/ StartsWith(z, to[c]) \/ StartsWith(to[c], z)
               \/ fs'[z] = IF Is(c, "move") /\ StartsWith(z, from[c]) THEN Absent ELSE W(c)[z]
<1>1. PICK r, w, p, q, l : r = request[c] /\ w = W(c) /\ p = from[c] /\ q = to[c] /\ l = pc[c]
  OBVIOUS
<1>2. PICK t, u : t = fs /\ u = fs'
  OBVIOUS
<1>3. /\ Copies(c) /\ Way(c) /\ r.tool \in {"copy", "move"} /\ At(w, q) = Absent
      /\ \/ l # "remove" /\ u = t /\ EndCopy(c) /\ Is(c, "copy")
         \/ /\ l = "rename" /\ Rename(c) /\ Renameable(Spot(p), Spot(q))
            /\ fs' = Renamed(Spot(p), Spot(q))
         \/ /\ l = "remove" /\ Is(c, "move")
            /\ \/ u = t /\ ~Exists(t, p)
               \/ Inside(t, p) = {} /\ p \in Paths /\ u = [t EXCEPT ![p] = Absent]
  BY <1>1, <1>2, EndsAt DEF Is
<1>4. /\ p \in NE /\ q \in NE /\ IsTree(t) /\ IsTree(u) /\ p \in Seq(Names) /\ q \in Seq(Names)
  BY <1>1, <1>2 DEF PathInv, Ready, NE
<1>5. Sound(r, w, p, q) /\ IsTree(w) /\ At(w, p).kind \in {"file", "dir"}
  BY <1>1, <1>3 DEF Copies, Sound
<1>6. ~StartsWith(p, q)
  <2>1. SUFFICES ASSUME StartsWith(p, q) PROVE FALSE
    OBVIOUS
  <2>2. At(w, p) # Absent /\ ~IsDir(w, q)
    BY <1>3, <1>5 DEF Absent, Node, IsDir
  <2>3. p # q
    BY <1>3, <2>2
  <2> QED
    BY <1>4, <1>5, <2>1, <2>2, <2>3, SomethingInside
<1>7. Scope(r, w, p, q)
  BY <1>3, <1>6 DEF Scope
<1>8. MadeBy(c)
  BY <1>1, <1>3, <1>7 DEF Copies
<1>9. Held(w, p, q, t, l) /\ Apart(w, p, q, t, l) /\ Landing(w, p, q, t, l, todo[c])
  BY <1>1, <1>2, <1>8 DEF MadeBy, Made
<1>10. \A z \in Paths : \/ StartsWith(z, q) \/ StartsWith(q, z)
                        \/ l = "remove" /\ StartsWith(z, p)
                        \/ t[z] = w[z]
  BY <1>3, <1>9 DEF Apart
<1>11. ~Through(w, p, q, t)
  BY <1>3 DEF Through
<1>12. CASE l # "remove" /\ u = t /\ EndCopy(c) /\ Is(c, "copy")
  <2>1. Landing(w, p, q, t, "copy", {})
    BY <1>1, <1>9, <1>12 DEF EndCopy
  <2>2. \A s \in Seq(Names) : At(u, q \o s) = At(w, p \o s)
    BY <1>11, <1>12, <2>1, NothingDue
  <2>3. ~Is(c, "move")
    BY <1>12 DEF Is
  <2> QED
    BY <1>1, <1>2, <1>10, <1>12, <2>2, <2>3
<1>13. CASE /\ l = "rename" /\ Rename(c) /\ Renameable(Spot(p), Spot(q))
            /\ fs' = Renamed(Spot(p), Spot(q))
  <2>1. /\ ~StartsWith(q, p)
        /\ \A s \in Seq(Names) : At(u, q \o s) = At(t, p \o s)
        /\ \A z \in Paths : ~StartsWith(z, q) =>
              u[z] = IF StartsWith(z, p) THEN Absent ELSE t[z]
    BY <1>1, <1>2, <1>3, <1>8, <1>13, RenameAlone
  <2>2. \A s \in Seq(Names) : At(t, p \o s) = At(w, p \o s)
    BY <1>9, <1>13, <2>1 DEF Held
  <2>3. Is(c, "move")
    BY <1>1, <1>13 DEF ToolInv
  <2>4. \A z \in Paths : \/ StartsWith(z, q) \/ StartsWith(q, z)
                         \/ u[z] = IF StartsWith(z, p) THEN Absent ELSE w[z]
    BY <1>10, <1>13, <2>1
  <2> QED
    BY <1>1, <1>2, <2>1, <2>2, <2>3, <2>4
<1>14. CASE /\ l = "remove" /\ Is(c, "move")
            /\ \/ u = t /\ ~Exists(t, p)
               \/ Inside(t, p) = {} /\ p \in Paths /\ u = [t EXCEPT ![p] = Absent]
  <2>1. Landing(w, p, q, t, "remove", todo[c])
    BY <1>9, <1>14
  <2>2. u = t \/ (p \in Paths /\ u = [t EXCEPT ![p] = Absent])
    BY <1>14
  <2>3. \A s \in Seq(Names) : At(u, q \o s) = At(w, p \o s)
    BY <1>4, <1>5, <1>6, <1>11, <2>1, <2>2, RemovedKeeps
  <2>4. Links(t, Front(p)) = {}
    BY <1>1, <1>2, <1>3, <1>14 DEF Way, Is
  <2>5. \A z \in Paths : u[z] = IF StartsWith(z, p) THEN Absent ELSE t[z]
    <3>1. \/ u = t /\ ~Exists(t, p)
          \/ Inside(t, p) = {} /\ p \in Paths /\ u = [t EXCEPT ![p] = Absent]
      BY <1>14
    <3>2. p \in NE /\ IsTree(t) /\ IsTree(u) /\ At(w, p).kind \in {"file", "dir"}
      BY <1>4, <1>5
    <3>3. ASSUME NEW z \in Paths PROVE u[z] = IF StartsWith(z, p) THEN Absent ELSE t[z]
      BY <2>1, <2>4, <3>1, <3>2, NothingLeft
    <3> QED
      BY <3>3
  <2>6. \A z \in Paths : \/ StartsWith(z, q) \/ StartsWith(q, z)
                         \/ u[z] = IF StartsWith(z, p) THEN Absent ELSE w[z]
    BY <1>10, <2>5
  <2> QED
    BY <1>1, <1>2, <1>14, <2>3, <2>6
<1> QED
  BY <1>3, <1>12, <1>13, <1>14

\* A copy or a move to where nothing was, alone and successful, puts the whole tree
\* there, with its links and modes, and changes nothing else but directories above the
\* destination; after a move nothing is left at the old place (fs_copy.cpp:26-61,
\* fs_move.cpp:27-64).
THEOREM LandsAll == Spec => LandsWhole
<1>1. ASSUME PathInv, PathInv', ToolInv, WayInv, CopyInv, NEW d \in Calls, Call(d),
             NEW c \in Calls, ReturnsAlone(c), result'[c] = "ok",
             request[c].tool \in {"copy", "move"}, At(Was(c), to'[c]) = Absent
      PROVE  /\ SameTree(Was(c), from'[c], fs', to'[c])
             /\ \A z \in Paths :
                   \/ StartsWith(z, to'[c]) \/ StartsWith(to'[c], z)
                   \/ fs'[z] = IF Is(c, "move") /\ StartsWith(z, from'[c]) THEN Absent
                               ELSE Was(c)[z]
  <2>1. pc[c] # "done" /\ pc'[c] = "done" /\ quiet[c]
    BY <1>1 DEF ReturnsAlone
  <2>2. c = d
    BY <1>1, <2>1, PcStep DEF Call
  <2>3. pc[c] # "start"
    BY <1>1, <2>1, <2>2, EndsAtStart DEF Call
  <2>4. Was(c) = W(c)
    BY <2>3 DEF Was, W
  <2>5. from'[c] = from[c] /\ to'[c] = to[c]
    BY <1>1, <2>1, <2>2, <2>3, EndsAt DEF Is
  <2>6. /\ \A s \in Seq(Names) : At(fs', to[c] \o s) = At(W(c), from[c] \o s)
        /\ \A z \in Paths :
              \/ StartsWith(z, to[c]) \/ StartsWith(to[c], z)
              \/ fs'[z] = IF Is(c, "move") /\ StartsWith(z, from[c]) THEN Absent ELSE W(c)[z]
    BY <1>1, <2>1, <2>2, <2>3, <2>4, <2>5, LandsThere
  <2>7. \A s \in Paths : s \in Seq(Names)
    BY PathsAre
  <2> QED
    BY <2>4, <2>5, <2>6, <2>7 DEF SameTree
<1>2. PathInv /\ PathInv' /\ ToolInv /\ WayInv /\ CopyInv /\ [Next]_vars
        => [\A c \in Calls :
               ReturnsAlone(c) /\ result'[c] = "ok" /\ request[c].tool \in {"copy", "move"}
                 /\ At(Was(c), to'[c]) = Absent
                 => /\ SameTree(Was(c), from'[c], fs', to'[c])
                    /\ \A z \in Paths :
                          \/ StartsWith(z, to'[c]) \/ StartsWith(to'[c], z)
                          \/ fs'[z] = IF Is(c, "move") /\ StartsWith(z, from'[c]) THEN Absent
                                      ELSE Was(c)[z]]_vars
  BY <1>1 DEF Next
<1>3. PathInv /\ PathInv' /\ ToolInv /\ WayInv /\ CopyInv /\ [Next]_vars
        => [\A c \in Calls :
               LET p == from'[c]
                   q == to'[c]
                   w == Was(c)
               IN  /\ ReturnsAlone(c) /\ result'[c] = "ok" /\ request[c].tool \in {"copy", "move"}
                   /\ At(w, q) = Absent
                   => /\ SameTree(w, p, fs', q)
                      /\ \A r \in Paths :
                            \/ StartsWith(r, q) \/ StartsWith(q, r)
                            \/ fs'[r] = IF Is(c, "move") /\ StartsWith(r, p) THEN Absent
                                        ELSE w[r]]_vars
  BY <1>2
<1> QED
  BY <1>3, CopyAlways, PTL DEF Spec, LandsWhole
=============================================================================
