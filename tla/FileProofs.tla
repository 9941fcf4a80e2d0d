------------------------------ MODULE FileProofs ------------------------------
(***************************************************************************)
(* Proofs about FileRace, for every file, all lists of edits, any texts    *)
(* and any number of calls.                                                *)
(***************************************************************************)
EXTENDS FileRace, Integers, WellFoundedInduction, SequenceTheorems, TLAPS

-----------------------------------------------------------------------------
\* Every set of natural numbers with an element has a least one.
LEMMA LeastExists ==
  ASSUME NEW T \in SUBSET Nat, T # {}
  PROVE  \E x \in T : \A y \in T : x <= y
<1>1. PICK R : R = OpToRel(<, Nat)
  OBVIOUS
<1>2. \E x \in T : \A y \in T : <<y, x>> \notin R
  BY <1>1, NatLessThanWellFounded, WFMin
<1>3. \A x, y \in Nat : y < x => <<y, x>> \in R
  BY <1>1 DEF OpToRel
<1>4. \A x, y \in Nat : ~(y < x) => x <= y
  OBVIOUS
<1> QED
  BY <1>2, <1>3, <1>4

\* Induction up to L, for a set instead of an operator.
LEMMA UpTo ==
  ASSUME NEW L \in Nat, NEW S, 0 \in S, \A n \in 1..L : n - 1 \in S => n \in S
  PROVE  0..L \subseteq S
<1> DEFINE out == {n \in 0..L : n \notin S}
<1> SUFFICES ASSUME out # {} PROVE FALSE
  OBVIOUS
<1>1. out \in SUBSET Nat
  OBVIOUS
<1>2. PICK m \in out : \A k \in out : m <= k
  BY <1>1, LeastExists
<1>3. m \in 1..L /\ m - 1 \in 0..L /\ m - 1 \notin out
  BY <1>1, <1>2
<1> QED
  BY <1>2, <1>3

\* What the text is after n edits, given what it is before.
UptoAt(t, edits, g, n) == IF n = 0 THEN t ELSE EditFirst(g[n - 1], edits[n])
Upto(t, edits) == CHOOSE g : g = [n \in 0..Len(edits) |-> UptoAt(t, edits, g, n)]

\* Edited goes through its list one edit at a time.
LEMMA UptoStep ==
  ASSUME NEW t, NEW edits, Len(edits) \in Nat, NEW n \in 0..Len(edits)
  PROVE  /\ Upto(t, edits)[n] = UptoAt(t, edits, Upto(t, edits), n)
         /\ Edited(t, edits) = Upto(t, edits)[Len(edits)]
<1> DEFINE L == Len(edits)
           Fits(g, m) == g = [k \in 0..m |-> UptoAt(t, edits, g, k)]
           S == {m \in 0..L : \E g : Fits(g, m)}
<1>1. 0 \in S
  <2> DEFINE g == [k \in 0..0 |-> t]
  <2>1. Fits(g, 0)
    BY DEF UptoAt
  <2> QED
    BY <2>1
<1>2. ASSUME NEW m \in 1..L, m - 1 \in S PROVE m \in S
  <2>1. PICK g : Fits(g, m - 1)
    BY <1>2
  <2> DEFINE h == [k \in 0..m |-> IF k = m THEN EditFirst(g[m - 1], edits[m]) ELSE g[k]]
  <2>2. \A k \in 0..m - 1 : h[k] = g[k]
    OBVIOUS
  <2>3. ASSUME NEW k \in 0..m PROVE h[k] = UptoAt(t, edits, h, k)
    <3>1. CASE k = m
      BY <3>1, <2>2 DEF UptoAt
    <3>2. CASE k # m
      <4>1. k \in 0..m - 1 /\ (k # 0 => k - 1 \in 0..m - 1)
        BY <3>2
      <4>2. g[k] = UptoAt(t, edits, g, k)
        BY <4>1, <2>1
      <4> QED
        BY <4>1, <4>2, <2>2 DEF UptoAt
    <3> QED
      BY <3>1, <3>2
  <2>4. Fits(h, m)
    BY <2>3
  <2>5. \E g1 : Fits(g1, m)
    <3> HIDE DEF Fits, h
    <3> QED
      BY <2>4
  <2> QED
    BY <2>5
<1>3. L \in S
  <2> HIDE DEF S
  <2>1. 0..L \subseteq S
    BY <1>1, <1>2, UpTo
  <2> QED
    BY <2>1
<1>4. Upto(t, edits) = [k \in 0..L |-> UptoAt(t, edits, Upto(t, edits), k)]
  BY <1>3 DEF Upto
<1>5. Upto(t, edits)[n] = UptoAt(t, edits, Upto(t, edits), n)
  BY <1>4
<1>6. Edited(t, edits) = Upto(t, edits)[Len(edits)]
  BY DEF Edited, Upto, UptoAt
<1> QED
  BY <1>5, <1>6

\* Edits put pieces of theirs into a text, or fail.
LEMMA EditedPieces ==
  ASSUME NEW T, NEW t \in Seq(T), NEW edits, Len(edits) \in Nat,
         \A i \in 1..Len(edits) : edits[i][2] \in T
  PROVE  Edited(t, edits) \in Seq(T) \cup {Failed}
<1> DEFINE L == Len(edits)
           S == {n \in 0..L : Upto(t, edits)[n] \in Seq(T) \cup {Failed}}
<1>1. 0 \in S
  BY UptoStep DEF UptoAt
<1>2. ASSUME NEW n \in 1..L, n - 1 \in S PROVE n \in S
  <2> DEFINE u == Upto(t, edits)[n - 1]
             found == {i \in DOMAIN u : u[i] = edits[n][1]}
  <2>1. Upto(t, edits)[n] = EditFirst(u, edits[n]) /\ u \in Seq(T) \cup {Failed}
    BY <1>2, UptoStep DEF UptoAt
  <2>4. CASE u # Failed /\ edits[n][1] = Nothing
    <3>1. u \in Seq(T) /\ <<edits[n][2]>> \in Seq(T)
      BY <2>1, <2>4, EmptySeq, AppendProperties
    <3>2. <<edits[n][2]>> \o u \in Seq(T)
      BY <3>1, ConcatProperties
    <3>3. EditFirst(u, edits[n]) = <<edits[n][2]>> \o u
      BY <2>4 DEF EditFirst
    <3>4. Upto(t, edits)[n] \in Seq(T)
      <4> HIDE DEF u
      <4> QED
        BY <2>1, <3>2, <3>3
    <3> QED
      BY <3>4
  <2>5. CASE ~(u # Failed /\ edits[n][1] = Nothing) /\ (u = Failed \/ found = {})
    BY <2>1, <2>5 DEF EditFirst
  <2>3. CASE ~(u # Failed /\ edits[n][1] = Nothing) /\ ~(u = Failed \/ found = {})
    <3> DEFINE first == CHOOSE i \in found : \A j \in found : i <= j
               edited == [u EXCEPT ![first] = edits[n][2]]
    <3>1. u \in Seq(T) /\ found \in SUBSET Nat /\ found # {}
      BY <2>1, <2>3, LenProperties
    <3>2. first \in found
      <4> HIDE DEF found
      <4> QED
        BY <3>1, LeastExists
    <3>3. first \in 1..Len(u)
      BY <3>1, <3>2, LenProperties
    <3>4. edited \in Seq(T)
      <4> HIDE DEF first, u
      <4> QED
        BY <3>1, <3>3, ExceptSeq
    <3>5. EditFirst(u, edits[n]) = edited
      BY <2>3 DEF EditFirst
    <3>6. Upto(t, edits)[n] \in Seq(T)
      <4> HIDE DEF edited, u
      <4> QED
        BY <2>1, <3>4, <3>5
    <3> QED
      BY <3>6
  <2> QED
    BY <2>3, <2>4, <2>5
<1>3. L \in S
  <2> HIDE DEF S
  <2>1. 0..L \subseteq S
    BY <1>1, <1>2, UpTo
  <2> QED
    BY <2>1
<1> QED
  BY <1>3, UptoStep

-----------------------------------------------------------------------------
\* What the assumptions say of the requests.
LEMMA RequestFacts ==
  ASSUME request \in [Calls -> Requests]
  PROVE  /\ Initial \in Seq(Pieces) /\ Hole \in Pieces /\ MayFail \in BOOLEAN
         /\ \A c \in Calls :
              /\ request[c] \in Requests
              /\ request[c].tool \in {"patch", "write", "read"}
              /\ Is(c, "patch") =>
                    /\ Len(request[c].edits) \in Nat
                    /\ Len(request[c].edits) = 0 => request[c].edits = <<>>
                    /\ \A i \in 1..Len(request[c].edits) : request[c].edits[i][2] \in Pieces
              /\ Is(c, "write") => request[c].text \in Seq(Pieces) /\ request[c].append \in BOOLEAN
              /\ Is(c, "read") => request[c].offset \in Nat /\ request[c].length \in Nat
<1>1. Initial \in Seq(Pieces)
  <2>1. {Initial[i] : i \in DOMAIN Initial} \subseteq Pieces
    BY DEF Pieces
  <2>2. Initial \in Seq({Initial[i] : i \in DOMAIN Initial})
    BY FileAssumption DEF IsSequence
  <2> QED
    BY <2>1, <2>2, SeqMonotonic
<1>2. Hole \in Pieces
  BY DEF Pieces
<1>3. ASSUME NEW c \in Calls
      PROVE  request[c] \in Requests /\ Request(request[c])
  BY RequestAssumption
<1>4. ASSUME NEW c \in Calls
      PROVE  request[c].tool \in {"patch", "write", "read"}
  BY <1>3 DEF Request
<1>5. ASSUME NEW c \in Calls, Is(c, "patch")
      PROVE  /\ Len(request[c].edits) \in Nat
             /\ Len(request[c].edits) = 0 => request[c].edits = <<>>
             /\ \A i \in 1..Len(request[c].edits) : request[c].edits[i][2] \in Pieces
  <2> DEFINE e == request[c].edits
             E == {e[i] : i \in DOMAIN e}
  <2>1. e \in Seq(E)
    BY <1>3, <1>5 DEF Request, IsSequence, Is
  <2>2. Len(e) \in Nat /\ DOMAIN e = 1..Len(e) /\ (Len(e) = 0 => e = <<>>)
    <3> HIDE DEF e, E
    <3> QED
      BY <2>1, LenProperties, EmptySeq
  <2>3. ASSUME NEW i \in DOMAIN e PROVE e[i][2] \in Pieces
    BY <1>3, <1>5 DEF Pieces, Is
  <2> QED
    BY <2>2, <2>3
<1>6. ASSUME NEW c \in Calls, Is(c, "write")
      PROVE  request[c].text \in Seq(Pieces) /\ request[c].append \in BOOLEAN
  <2> DEFINE t == request[c].text
  <2>1. t \in Seq({t[i] : i \in DOMAIN t}) /\ request[c].append \in BOOLEAN
    BY <1>3, <1>6 DEF Request, IsSequence, Is
  <2>2. {t[i] : i \in DOMAIN t} \subseteq Pieces
    BY <1>3, <1>6 DEF Pieces, Is
  <2> QED
    BY <2>1, <2>2, SeqMonotonic
<1>7. ASSUME NEW c \in Calls, Is(c, "read")
      PROVE  request[c].offset \in Nat /\ request[c].length \in Nat
  BY <1>3, <1>7 DEF Request, Is
<1> QED
  BY <1>1, <1>2, <1>3, <1>4, <1>5, <1>6, <1>7, FileAssumption

\* A write at a position leaves a text, filled up with holes.
LEMMA WriteAtType ==
  ASSUME NEW T, NEW f \in Seq(T), NEW i \in Nat \ {0}, NEW piece \in T, Hole \in T
  PROVE  WriteAt(f, i, piece) \in Seq(T)
<1> DEFINE n == IF i > Len(f) THEN i ELSE Len(f)
<1>1. n \in Nat /\ \A k \in 1..Len(f) : f[k] \in T
  BY LenProperties, ElementOfSeq
<1>2. WriteAt(f, i, piece) \in [1..n -> T]
  BY <1>1 DEF WriteAt
<1> QED
  BY <1>1, <1>2, SeqDef

\* A write at the end puts one piece more behind the text.
Grown(f, piece, g) ==
    Len(g) = Len(f) + 1 /\ \A k \in 1..Len(f) + 1 : g[k] = IF k = Len(f) + 1 THEN piece ELSE f[k]

\* A stream that is at the end of the file adds one piece to it.
LEMMA WriteNext ==
  ASSUME NEW T, NEW f \in Seq(T), NEW piece \in T, Hole \in T
  PROVE  Grown(f, piece, WriteAt(f, Len(f) + 1, piece))
<1> DEFINE n == Len(f) + 1
           g == WriteAt(f, n, piece)
<1>1. n \in Nat \ {0} /\ Len(f) \in Nat
  BY LenProperties
<1>2. g = [k \in 1..n |-> IF k = n THEN piece ELSE IF k <= Len(f) THEN f[k] ELSE Hole]
  BY <1>1 DEF WriteAt
<1>3. g \in Seq(T)
  BY <1>1, WriteAtType
<1>4. DOMAIN g = 1..n /\ DOMAIN g = 1..Len(g) /\ Len(g) \in Nat
  <2>1. DOMAIN g = 1..n
    BY <1>2
  <2>2. DOMAIN g = 1..Len(g) /\ Len(g) \in Nat
    <3> HIDE DEF g
    <3> QED
      BY <1>3, LenProperties
  <2> QED
    BY <2>1, <2>2
<1>5. Len(g) = n
  <2> HIDE DEF g, n
  <2> QED
    BY <1>1, <1>4
<1>6. \A k \in 1..n : g[k] = IF k = n THEN piece ELSE f[k]
  <2>1. \A k \in 1..n : k # n => k <= Len(f)
    BY <1>1
  <2> HIDE DEF g
  <2> QED
    BY <1>2, <2>1
<1> QED
  BY <1>5, <1>6 DEF Grown
-----------------------------------------------------------------------------
\* TypeOK, and that the places of a call are those of its tool.
Typed ==
    /\ file \in Seq(Pieces) /\ request \in [Calls -> Requests]
    /\ pc \in [Calls -> States] /\ result \in [Calls -> Results]
    /\ pos \in [Calls -> Nat \ {0}] /\ size \in [Calls -> Nat]
    /\ text \in [Calls -> Seq(Pieces)] /\ new \in [Calls -> Seq(Pieces)]
    /\ held \in [Calls -> BOOLEAN]
CallOK(c) ==
    /\ pc[c] = "writing" => pos[c] <= Len(new[c]) + 1
    /\ pc[c] \in {"reading", "verifying"} => pos[c] = Offset(c) + Len(text[c]) + 1
    /\ Is(c, "read") => pc[c] \in {"start", "reading", "done"}
    /\ Is(c, "write") => pc[c] \in {"start", "open", "writing", "done"}
    /\ pc[c] = "start" => text[c] = <<>> /\ size[c] = 0 /\ pos[c] = 1
TypeInv ==
    /\ Typed
    /\ bad \in [Calls -> SUBSET {"input", "verification"}]
    /\ \A c \in Calls : CallOK(c)

\* The inductive invariant implies the types of the variables.
LEMMA TypesAreOK == TypeInv => TypeOK
BY DEF TypeInv, TypeOK, Typed, CallOK

\* A call goes on by one step of its own, and the ghost looks on.
LEMMA Observed ==
  ASSUME TypeInv, [Next]_vars
  PROVE  \/ UNCHANGED vars
         \/ held' \in [Calls -> BOOLEAN] /\ UNCHANGED request /\ \E c \in Calls : Step(c)
<1> SUFFICES ASSUME NEW c \in Calls, Step(c), Observe
             PROVE  held' \in [Calls -> BOOLEAN] /\ UNCHANGED request
  BY DEF Next
<1>1. \A d \in Calls : held[d] \in BOOLEAN
  BY DEF TypeInv, Typed
<1>2. held' \in [Calls -> BOOLEAN]
  BY <1>1 DEF Observe
<1>3. UNCHANGED request
  BY DEF Step, PatchOpen, PatchRead, PatchEdit, WriteStart, OpenToWrite, WritePiece,
         WriteFails, Written, VerifyOpen, Verify, ReadOpen, ReadPiece
<1> QED
  BY <1>2, <1>3

\* A step adds to what is known to be bad of its call, if to any.
LEMMA BadStep ==
  ASSUME TypeInv, NEW c \in Calls, Step(c)
  PROVE  /\ bad' \in [Calls -> SUBSET {"input", "verification"}]
         /\ bad[c] \subseteq bad'[c]
         /\ \A d \in Calls \ {c} : bad'[d] = bad[d]
<1>0. /\ bad \in [Calls -> SUBSET {"input", "verification"}]
      /\ bad[c] \subseteq {"input", "verification"}
  BY DEF TypeInv
<1>1. bad' = bad \/ \E s \in {"input", "verification"} : bad' = [bad EXCEPT ![c] = bad[c] \cup {s}]
  BY DEF Step, PatchOpen, PatchRead, PatchEdit, WriteStart, OpenToWrite, WritePiece,
     WriteFails, Written, VerifyOpen, Verify, ReadOpen, ReadPiece, Breaks
<1>2. CASE bad' = bad
  BY <1>0, <1>2
<1>3. ASSUME NEW s \in {"input", "verification"}, bad' = [bad EXCEPT ![c] = bad[c] \cup {s}]
      PROVE  /\ bad' \in [Calls -> SUBSET {"input", "verification"}]
             /\ bad[c] \subseteq bad'[c]
             /\ \A d \in Calls \ {c} : bad'[d] = bad[d]
  <2>1. bad[c] \cup {s} \in SUBSET {"input", "verification"}
    BY <1>0
  <2>2. /\ bad' \in [Calls -> SUBSET {"input", "verification"}]
        /\ bad'[c] = bad[c] \cup {s}
        /\ \A d \in Calls \ {c} : bad'[d] = bad[d]
    BY <1>0, <1>3, <2>1
  <2> QED
    BY <2>2
<1> QED
  BY <1>1, <1>2, <1>3

\* A step that takes a piece of the file keeps the types.
LEMMA TakeTypes ==
  ASSUME TypeInv, NEW c \in Calls, TakePiece(c), ~AtEnd(c),
         pc[c] \in {"reading", "verifying"}
  PROVE  /\ text' \in [Calls -> Seq(Pieces)] /\ pos' \in [Calls -> Nat \ {0}]
         /\ text'[c] = Append(text[c], file[pos[c]]) /\ pos'[c] = pos[c] + 1
         /\ Len(text'[c]) = Len(text[c]) + 1 /\ Len(text[c]) \in Nat
         /\ \A i \in 1..Len(text[c]) : text'[c][i] = text[c][i]
         /\ text'[c][Len(text[c]) + 1] = file[pos[c]]
         /\ \A d \in Calls \ {c} : text'[d] = text[d] /\ pos'[d] = pos[d]
<1>1. /\ text \in [Calls -> Seq(Pieces)] /\ pos \in [Calls -> Nat \ {0}] /\ file \in Seq(Pieces)
      /\ text[c] \in Seq(Pieces) /\ pos[c] \in Nat \ {0}
  BY DEF TypeInv, Typed
<1>2. Len(file) \in Nat /\ pos[c] \in 1..Len(file)
  BY <1>1, LenProperties DEF AtEnd
<1>3. file[pos[c]] \in Pieces
  BY <1>1, <1>2, ElementOfSeq
<1>4. /\ Append(text[c], file[pos[c]]) \in Seq(Pieces)
      /\ Len(Append(text[c], file[pos[c]])) = Len(text[c]) + 1
      /\ \A i \in 1..Len(text[c]) : Append(text[c], file[pos[c]])[i] = text[c][i]
      /\ Append(text[c], file[pos[c]])[Len(text[c]) + 1] = file[pos[c]]
  BY <1>1, <1>3, AppendProperties
<1>5. /\ text' = [text EXCEPT ![c] = Append(text[c], file[pos[c]])]
      /\ pos' = [pos EXCEPT ![c] = pos[c] + 1]
  BY DEF TakePiece
<1>6. Len(text[c]) \in Nat
  BY <1>1, LenProperties
<1> QED
  BY <1>1, <1>4, <1>5, <1>6

\* The types, and the places of each tool, stay.
LEMMA TypeStep ==
  ASSUME TypeInv, [Next]_vars
  PROVE  TypeInv'
<1>1. CASE UNCHANGED vars
  BY <1>1 DEF vars, TypeInv, Typed, CallOK, Is, Offset
<1>2. ASSUME NEW c \in Calls, Step(c), held' \in [Calls -> BOOLEAN], request' = request
      PROVE  TypeInv'
  <2>0. Typed /\ Len(file) \in Nat /\ Len(new[c]) \in Nat /\ Len(text[c]) \in Nat
    BY LenProperties DEF TypeInv, Typed
  <2>i. CallOK(c) /\ Offset(c) \in Nat /\ Offset(c)' = Offset(c)
    BY <1>2, <2>0, RequestFacts DEF TypeInv, Offset, Is, Typed
  <2>e. <<>> \in Seq(Pieces) /\ Len(<<>>) = 0
    BY EmptySeq
  <2> DEFINE Frame == \A d \in Calls \ {c} :
               /\ pc'[d] = pc[d] /\ pos'[d] = pos[d] /\ size'[d] = size[d]
               /\ text'[d] = text[d] /\ new'[d] = new[d]
  <2>q. ASSUME Typed', CallOK(c)', Frame PROVE TypeInv'
    <3>1. ASSUME NEW d \in Calls \ {c} PROVE CallOK(d)'
      <4>1. CallOK(d)
        BY DEF TypeInv
      <4> QED
        BY <1>2, <2>q, <4>1 DEF CallOK, Is, Offset
    <3>2. bad' \in [Calls -> SUBSET {"input", "verification"}]
      BY <1>2, BadStep
    <3> QED
      BY <2>q, <3>1, <3>2 DEF TypeInv
  <2>1. CASE PatchOpen(c)
    <3>1. /\ Is(c, "patch") /\ pc[c] = "start"
          /\ pc' = [pc EXCEPT ![c] = "reading"] \/ pc' = [pc EXCEPT ![c] = "edit"]
          /\ UNCHANGED <<file, pos, size, text, new, result>>
      BY <2>1 DEF PatchOpen, Goto
    <3>t. Typed'
      BY <1>2, <2>0, <3>1 DEF Typed, States, Results
    <3>o. CallOK(c)'
      BY <1>2, <2>0, <2>i, <2>e, <3>1 DEF CallOK, Offset, Is, Typed
    <3>f. Frame
      BY <2>0, <3>1 DEF Typed
    <3> QED
      BY <3>t, <3>o, <3>f, <2>q
  <2>2. CASE PatchRead(c)
    <3>1. CASE ~(TakePiece(c) /\ ~AtEnd(c) /\ UNCHANGED pc)
      <4>1. /\ Is(c, "patch") /\ pc[c] = "reading" /\ pc' = [pc EXCEPT ![c] = "edit"]
            /\ UNCHANGED <<text, pos, file, size, new, result>>
        BY <2>2, <3>1 DEF PatchRead, Goto
      <4>t. Typed'
        BY <1>2, <2>0, <4>1 DEF Typed, States, Results
      <4>o. CallOK(c)'
        BY <1>2, <2>0, <2>i, <2>e, <4>1 DEF CallOK, Offset, Is, Typed
      <4>f. Frame
        BY <2>0, <4>1 DEF Typed
      <4> QED
        BY <4>t, <4>o, <4>f, <2>q
    <3>2. CASE TakePiece(c) /\ ~AtEnd(c) /\ UNCHANGED pc
      <4>1. pc[c] = "reading" /\ TakePiece(c) /\ ~AtEnd(c)
            /\ UNCHANGED <<pc, file, size, new, result>>
        BY <2>2, <3>2 DEF PatchRead
      <4>2. /\ text' \in [Calls -> Seq(Pieces)] /\ pos' \in [Calls -> Nat \ {0}]
            /\ pos'[c] = pos[c] + 1 /\ Len(text'[c]) = Len(text[c]) + 1
            /\ \A d \in Calls \ {c} : text'[d] = text[d] /\ pos'[d] = pos[d]
        BY <4>1, TakeTypes
      <4>t. Typed'
        BY <1>2, <2>0, <4>1, <4>2 DEF Typed, States, Results
      <4>o. CallOK(c)'
        BY <1>2, <2>0, <2>i, <2>e, <4>1, <4>2 DEF CallOK, Is, Typed
      <4>f. Frame
        BY <2>0, <4>1, <4>2 DEF Typed
      <4> QED
        BY <4>t, <4>o, <4>f, <2>q
    <3> QED
      BY <3>1, <3>2
  <2>3. CASE PatchEdit(c)
    <3> DEFINE whole == Edited(text[c], request[c].edits)
    <3>1. whole \in Seq(Pieces) \cup {Failed}
      BY <2>0, <2>3, RequestFacts, EditedPieces DEF Typed, PatchEdit
    <3>2. /\ Is(c, "patch") /\ pc[c] = "edit" /\ UNCHANGED <<file, pos, size, text>>
          /\ \/ whole # Failed /\ pc' = [pc EXCEPT ![c] = "open"]
                /\ new' = [new EXCEPT ![c] = whole] /\ UNCHANGED result
             \/ pc' = [pc EXCEPT ![c] = "done"] /\ result' = [result EXCEPT ![c] = "no match"]
                /\ UNCHANGED new
      BY <2>3 DEF PatchEdit, Goto, Return
    <3> HIDE DEF whole
    <3>3. new' \in [Calls -> Seq(Pieces)] /\ \A d \in Calls \ {c} : new'[d] = new[d]
      BY <2>0, <3>1, <3>2 DEF Typed
    <3>t. Typed'
      BY <1>2, <2>0, <3>2, <3>3 DEF Typed, States, Results
    <3>o. CallOK(c)'
      BY <1>2, <2>0, <2>i, <2>e, <3>2, <3>3 DEF CallOK, Offset, Is, Typed
    <3>f. Frame
      BY <2>0, <3>2, <3>3 DEF Typed
    <3> QED
      BY <3>t, <3>o, <3>f, <2>q
  <2>4. CASE WriteStart(c)
    <3>1. /\ Is(c, "write") /\ pc[c] = "start" /\ pc' = [pc EXCEPT ![c] = "open"]
          /\ new' = [new EXCEPT ![c] = request[c].text]
          /\ UNCHANGED <<file, pos, size, text, result>>
      BY <2>4 DEF WriteStart, Goto
    <3>2. request[c].text \in Seq(Pieces)
      BY <2>0, <3>1, RequestFacts DEF Typed
    <3>t. Typed'
      BY <1>2, <2>0, <3>1, <3>2 DEF Typed, States, Results
    <3>o. CallOK(c)'
      BY <1>2, <2>0, <2>i, <2>e, <3>1, <3>2 DEF CallOK, Offset, Is, Typed
    <3>f. Frame
      BY <2>0, <3>1, <3>2 DEF Typed
    <3> QED
      BY <3>t, <3>o, <3>f, <2>q
  <2>5. CASE OpenToWrite(c)
    <3>1. /\ pc[c] = "open" /\ pos' = [pos EXCEPT ![c] = 1]
          /\ \E p \in {"writing", "done"} : pc' = [pc EXCEPT ![c] = p]
          /\ result' = result \/ result' = [result EXCEPT ![c] = "error"]
          /\ file' = file \/ file' = <<>>
          /\ UNCHANGED <<size, text, new>>
      BY <2>5 DEF OpenToWrite, Goto, Return
    <3>p. pos' \in [Calls -> Nat \ {0}]
      BY <2>0, <3>1 DEF Typed
    <3>t. Typed'
      BY <1>2, <3>p, <2>0, <2>e, <3>1 DEF Typed, States, Results
    <3>o. CallOK(c)'
      BY <1>2, <2>0, <2>i, <2>e, <3>1 DEF CallOK, Offset, Is, Typed
    <3>f. Frame
      BY <2>0, <3>1 DEF Typed
    <3> QED
      BY <3>t, <3>o, <3>f, <2>q
  <2>6. CASE WritePiece(c)
    <3>1. /\ pc[c] = "writing" /\ pos[c] <= Len(new[c]) /\ pos' = [pos EXCEPT ![c] = pos[c] + 1]
          /\ file' = Append(file, new[c][pos[c]]) \/ file' = WriteAt(file, pos[c], new[c][pos[c]])
          /\ UNCHANGED <<pc, size, text, new, result>>
      BY <2>6 DEF WritePiece
    <3>2. /\ file \in Seq(Pieces) /\ new[c] \in Seq(Pieces) /\ pos[c] \in 1..Len(new[c])
          /\ pos[c] \in Nat \ {0} /\ Hole \in Pieces
      BY <2>0, <3>1, RequestFacts DEF Typed
    <3>3. new[c][pos[c]] \in Pieces
      BY <3>2, ElementOfSeq
    <3>4. Append(file, new[c][pos[c]]) \in Seq(Pieces)
      BY <3>2, <3>3, AppendProperties
    <3>5. WriteAt(file, pos[c], new[c][pos[c]]) \in Seq(Pieces)
      BY <3>2, <3>3, WriteAtType
    <3>6. file' \in Seq(Pieces)
      BY <3>1, <3>4, <3>5
    <3>p. pos' \in [Calls -> Nat \ {0}]
      BY <2>0, <3>1 DEF Typed
    <3>t. Typed'
      BY <1>2, <3>p, <2>0, <3>1, <3>6 DEF Typed, States, Results
    <3>o. CallOK(c)'
      BY <1>2, <2>0, <2>i, <2>e, <3>1, <3>6 DEF CallOK, Offset, Is, Typed
    <3>f. Frame
      BY <2>0, <3>1, <3>6 DEF Typed
    <3> QED
      BY <3>t, <3>o, <3>f, <2>q
  <2>7. CASE WriteFails(c)
    <3>1. /\ pc[c] = "writing" /\ pc' = [pc EXCEPT ![c] = "done"]
          /\ \E r \in {"error", "ok"} : result' = [result EXCEPT ![c] = r]
          /\ UNCHANGED <<file, pos, size, text, new>>
      BY <2>7 DEF WriteFails, Return, Goto
    <3>t. Typed'
      BY <1>2, <2>0, <3>1 DEF Typed, States, Results
    <3>o. CallOK(c)'
      BY <1>2, <2>0, <2>i, <2>e, <3>1 DEF CallOK, Offset, Is, Typed
    <3>f. Frame
      BY <2>0, <3>1 DEF Typed
    <3> QED
      BY <3>t, <3>o, <3>f, <2>q
  <2>8. CASE Written(c)
    <3>1. /\ pc[c] = "writing"
          /\ \/ Is(c, "patch") /\ pc' = [pc EXCEPT ![c] = "verify"] /\ UNCHANGED result
             \/ pc' = [pc EXCEPT ![c] = "done"] /\ result' = [result EXCEPT ![c] = "ok"]
          /\ UNCHANGED <<file, pos, size, text, new>>
      BY <2>8 DEF Written, Return, Goto
    <3>t. Typed'
      BY <1>2, <2>0, <3>1 DEF Typed, States, Results
    <3>o. CallOK(c)'
      BY <1>2, <2>0, <2>i, <2>e, <3>1 DEF CallOK, Offset, Is, Typed
    <3>f. Frame
      BY <2>0, <3>1 DEF Typed
    <3> QED
      BY <3>t, <3>o, <3>f, <2>q
  <2>9. CASE VerifyOpen(c)
    <3>1. /\ pc[c] = "verify" /\ UNCHANGED <<file, size, new>>
          /\ result' = result \/ result' = [result EXCEPT ![c] = "error"]
          /\ \/ pc' = [pc EXCEPT ![c] = "verifying"]
                /\ pos' = [pos EXCEPT ![c] = 1] /\ text' = [text EXCEPT ![c] = <<>>]
             \/ pc' = [pc EXCEPT ![c] = "done"] /\ UNCHANGED <<pos, text>>
      BY <2>9 DEF VerifyOpen, Goto, Return
    <3>w. /\ \E p \in States : pc' = [pc EXCEPT ![c] = p]
          /\ \E r \in Results : result' = result \/ result' = [result EXCEPT ![c] = r]
          /\ pos' = pos \/ pos' = [pos EXCEPT ![c] = 1]
          /\ text' = text \/ text' = [text EXCEPT ![c] = <<>>]
      BY <3>1 DEF States, Results
    <3>p. pos' \in [Calls -> Nat \ {0}]
      <4>1. pos \in [Calls -> Nat \ {0}] /\ 1 \in Nat \ {0}
        BY <2>0 DEF Typed
      <4>2. [pos EXCEPT ![c] = 1] \in [Calls -> Nat \ {0}]
        BY <4>1
      <4> QED
        BY <3>w, <4>1, <4>2
    <3>x. text' \in [Calls -> Seq(Pieces)]
      BY <2>0, <2>e, <3>w, ZenonT(30) DEF Typed
    <3>r. pc' \in [Calls -> States]
      BY <2>0, <3>w DEF Typed
    <3>s. result' \in [Calls -> Results]
      <4>1. result \in [Calls -> Results]
        BY <2>0 DEF Typed
      <4>2. \A r \in Results : [result EXCEPT ![c] = r] \in [Calls -> Results]
        BY <4>1
      <4> QED
        BY <3>w, <4>1, <4>2
    <3>t. Typed'
      BY <1>2, <2>0, <3>1, <3>p, <3>r, <3>s, <3>x DEF Typed
    <3>o. CallOK(c)'
      BY <1>2, <2>0, <2>i, <2>e, <3>1 DEF CallOK, Offset, Is, Typed
    <3>f. Frame
      BY <2>0, <3>1 DEF Typed
    <3> QED
      BY <3>t, <3>o, <3>f, <2>q
  <2>10. CASE Verify(c)
    <3>1. CASE ~(TakePiece(c) /\ ~AtEnd(c) /\ UNCHANGED <<pc, result>>)
      <4>1. /\ pc[c] = "verifying" /\ pc' = [pc EXCEPT ![c] = "done"]
            /\ \E r \in {"error", "ok"} : result' = [result EXCEPT ![c] = r]
            /\ UNCHANGED <<text, pos, file, size, new>>
        BY <2>10, <3>1 DEF Verify, Return, Goto
      <4>t. Typed'
        BY <1>2, <2>0, <4>1 DEF Typed, States, Results
      <4>o. CallOK(c)'
        BY <1>2, <2>0, <2>i, <2>e, <4>1 DEF CallOK, Offset, Is, Typed
      <4>f. Frame
        BY <2>0, <4>1 DEF Typed
      <4> QED
        BY <4>t, <4>o, <4>f, <2>q
    <3>2. CASE TakePiece(c) /\ ~AtEnd(c) /\ UNCHANGED <<pc, result>>
      <4>1. pc[c] = "verifying" /\ TakePiece(c) /\ ~AtEnd(c)
            /\ UNCHANGED <<pc, file, size, new, result>>
        BY <2>10, <3>2 DEF Verify
      <4>2. /\ text' \in [Calls -> Seq(Pieces)] /\ pos' \in [Calls -> Nat \ {0}]
            /\ pos'[c] = pos[c] + 1 /\ Len(text'[c]) = Len(text[c]) + 1
            /\ \A d \in Calls \ {c} : text'[d] = text[d] /\ pos'[d] = pos[d]
        BY <4>1, TakeTypes
      <4>t. Typed'
        BY <1>2, <2>0, <4>1, <4>2 DEF Typed, States, Results
      <4>o. CallOK(c)'
        BY <1>2, <2>0, <2>i, <2>e, <4>1, <4>2 DEF CallOK, Is, Typed
      <4>f. Frame
        BY <2>0, <4>1, <4>2 DEF Typed
      <4> QED
        BY <4>t, <4>o, <4>f, <2>q
    <3> QED
      BY <3>1, <3>2
  <2>11. CASE ReadOpen(c)
    <3>1. /\ Is(c, "read") /\ pc[c] = "start" /\ UNCHANGED <<file, text, new>>
          /\ result' = result \/ \E r \in {"ok", "error"} : result' = [result EXCEPT ![c] = r]
          /\ \/ /\ size' = [size EXCEPT ![c] = Len(file)]
                /\ \E p \in {"done", "reading"} : pc' = [pc EXCEPT ![c] = p]
                /\ pos' = [pos EXCEPT ![c] = Offset(c) + 1]
             \/ pc' = [pc EXCEPT ![c] = "done"] /\ UNCHANGED <<size, pos>>
      BY <2>11 DEF ReadOpen, Goto, Return
    <3>2. Offset(c) \in Nat /\ Offset(c)' = Offset(c)
      BY <1>2, <2>0, <3>1, RequestFacts DEF Offset, Is, Typed
    <3>w. /\ \E p \in States : pc' = [pc EXCEPT ![c] = p]
          /\ \E r \in Results : result' = result \/ result' = [result EXCEPT ![c] = r]
          /\ pos' = pos \/ pos' = [pos EXCEPT ![c] = Offset(c) + 1]
          /\ size' = size \/ size' = [size EXCEPT ![c] = Len(file)]
      BY <3>1 DEF States, Results
    <3>p. pos' \in [Calls -> Nat \ {0}]
      <4>1. pos \in [Calls -> Nat \ {0}] /\ Offset(c) + 1 \in Nat \ {0}
        BY <2>0, <3>2 DEF Typed
      <4>2. [pos EXCEPT ![c] = Offset(c) + 1] \in [Calls -> Nat \ {0}]
        BY <4>1
      <4> QED
        BY <3>w, <4>1, <4>2
    <3>x. size' \in [Calls -> Nat]
      BY <2>0, <3>w DEF Typed
    <3>r. pc' \in [Calls -> States]
      BY <2>0, <3>w DEF Typed
    <3>s. result' \in [Calls -> Results]
      <4>1. result \in [Calls -> Results]
        BY <2>0 DEF Typed
      <4>2. \A r \in Results : [result EXCEPT ![c] = r] \in [Calls -> Results]
        BY <4>1
      <4> QED
        BY <3>w, <4>1, <4>2
    <3>t. Typed'
      BY <1>2, <2>0, <3>1, <3>p, <3>r, <3>s, <3>x DEF Typed
    <3>o. CallOK(c)'
      BY <1>2, <2>0, <2>i, <2>e, <3>1, <3>2 DEF CallOK, Is, Typed
    <3>f. Frame
      BY <2>0, <3>1, <3>2 DEF Typed
    <3> QED
      BY <3>t, <3>o, <3>f, <2>q
  <2>12. CASE ReadPiece(c)
    <3>1. CASE ~(TakePiece(c) /\ ~AtEnd(c) /\ UNCHANGED <<pc, result>>)
      <4>1. /\ Is(c, "read") /\ pc[c] = "reading" /\ pc' = [pc EXCEPT ![c] = "done"]
            /\ result' = [result EXCEPT ![c] = "ok"]
            /\ UNCHANGED <<text, pos, file, size, new>>
        BY <2>12, <3>1 DEF ReadPiece, Return, Goto
      <4>t. Typed'
        BY <1>2, <2>0, <4>1 DEF Typed, States, Results
      <4>o. CallOK(c)'
        BY <1>2, <2>0, <2>i, <2>e, <4>1 DEF CallOK, Offset, Is, Typed
      <4>f. Frame
        BY <2>0, <4>1 DEF Typed
      <4> QED
        BY <4>t, <4>o, <4>f, <2>q
    <3>2. CASE TakePiece(c) /\ ~AtEnd(c) /\ UNCHANGED <<pc, result>>
      <4>1. pc[c] = "reading" /\ TakePiece(c) /\ ~AtEnd(c)
            /\ UNCHANGED <<pc, file, size, new, result>>
        BY <2>12, <3>2 DEF ReadPiece
      <4>2. /\ text' \in [Calls -> Seq(Pieces)] /\ pos' \in [Calls -> Nat \ {0}]
            /\ pos'[c] = pos[c] + 1 /\ Len(text'[c]) = Len(text[c]) + 1
            /\ \A d \in Calls \ {c} : text'[d] = text[d] /\ pos'[d] = pos[d]
        BY <4>1, TakeTypes
      <4>t. Typed'
        BY <1>2, <2>0, <4>1, <4>2 DEF Typed, States, Results
      <4>o. CallOK(c)'
        BY <1>2, <2>0, <2>i, <2>e, <4>1, <4>2 DEF CallOK, Is, Typed
      <4>f. Frame
        BY <2>0, <4>1, <4>2 DEF Typed
      <4> QED
        BY <4>t, <4>o, <4>f, <2>q
    <3> QED
      BY <3>1, <3>2
  <2> QED
    BY <1>2, <2>1, <2>2, <2>3, <2>4, <2>5, <2>6, <2>7, <2>8, <2>9, <2>10, <2>11, <2>12 DEF Step
<1> QED
  BY <1>1, <1>2, Observed

\* At the start nothing is read or written, and the file has its pieces.
LEMMA InitTypes == Init => TypeInv
<1>1. Init => request \in [Calls -> Requests]
  BY FileAssumption DEF Init
<1>2. Init => Initial \in Seq(Pieces)
  BY <1>1, RequestFacts
<1> QED
  BY <1>1, <1>2, EmptySeq DEF Init, TypeInv, Typed, CallOK, States, Results

\* Every variable keeps its type, whatever calls run at the same time.
THEOREM FileTypes == Spec => [](TypeInv /\ TypeOK)
BY InitTypes, TypeStep, TypesAreOK, PTL DEF Spec
-----------------------------------------------------------------------------
\* A patch beside reads.
PatchAlone(c) == Is(c, "patch") /\ \A d \in Calls \ {c} : Is(d, "read")
Starts(s, t) == Len(s) <= Len(t) /\ \A i \in 1..Len(s) : s[i] = t[i]
\* What it is to write: the edits of what it read of the file.
Promised(c) == new[c] \in EditedTexts(c)
\* Until it is opened to be written the file is as it was; then it grows into the new
\* text.
AloneOK(c) ==
    /\ pc[c] \in {"start", "reading", "edit", "open"} => file = Initial
    /\ pc[c] = "reading" => Starts(text[c], Initial)
    /\ pc[c] = "edit" => text[c] \in TextsRead(c)
    /\ pc[c] \in {"open", "writing", "verify", "verifying"} => Promised(c)
    /\ pc[c] = "writing" => Starts(file, new[c]) /\ Len(file) = pos[c] - 1
    /\ pc[c] \in {"verify", "verifying"} => file = new[c]
    /\ pc[c] = "done" =>
          CASE result[c] = "ok" -> file \in EditedTexts(c)
            [] result[c] = "no match" -> file = Initial
            [] OTHER -> file = Initial \/ (Promised(c) /\ Starts(file, new[c]))
AloneInv == \A c \in Calls : PatchAlone(c) => AloneOK(c)

\* A beginning as long as the whole is the whole.
LEMMA StartsAll ==
  ASSUME NEW T, NEW s \in Seq(T), NEW t \in Seq(T), Starts(s, t), Len(t) <= Len(s)
  PROVE  s = t
BY SeqEqual, LenProperties DEF Starts

\* The empty text is a beginning of every text, and has no other.
LEMMA StartsEmpty ==
  ASSUME NEW T, NEW s \in Seq(T)
  PROVE  Starts(<<>>, s) /\ (Starts(s, <<>>) => s = <<>>)
<1>1. <<>> \in Seq(T) /\ Len(<<>>) = 0 /\ Len(s) \in Nat
  BY EmptySeq, LenProperties
<1>2. Starts(<<>>, s)
  BY <1>1 DEF Starts
<1>3. ASSUME Starts(s, <<>>) PROVE s = <<>>
  <2>1. Len(<<>>) <= Len(s)
    BY <1>1
  <2> QED
    BY <1>1, <1>3, <2>1, StartsAll
<1> QED
  BY <1>2, <1>3

\* Starts, said piece by piece, is IsPrefixOf.
LEMMA StartsIsPrefix ==
  ASSUME NEW T, NEW s \in Seq(T), NEW t \in Seq(T), Starts(s, t)
  PROVE  IsPrefixOf(s, t)
<1>1. Len(s) \in Nat /\ Len(t) \in Nat /\ Len(s) <= Len(t)
  BY LenProperties DEF Starts
<1>2. /\ SubSeq(t, 1, Len(s)) \in Seq(T) /\ Len(SubSeq(t, 1, Len(s))) = Len(s)
      /\ \A i \in 1..Len(s) : SubSeq(t, 1, Len(s))[i] = t[i]
  <2>1. 1..Len(s) \subseteq 1..Len(t)
    BY <1>1
  <2>2. \A i \in 1..Len(s) : t[i] \in T
    BY <2>1, ElementOfSeq
  <2>3. SubSeq(t, 1, Len(s)) = [i \in 1..Len(s) |-> t[i]]
    BY <1>1
  <2>4. SubSeq(t, 1, Len(s)) \in [1..Len(s) -> T]
    BY <2>2, <2>3
  <2>5. SubSeq(t, 1, Len(s)) \in Seq(T)
    BY <1>1, <2>4, SeqDef
  <2> QED
    BY <1>1, <2>3, <2>4, <2>5, LenProperties
<1>3. SubSeq(t, 1, Len(s)) = s
  BY <1>2, SeqEqual DEF Starts
<1> QED
  BY <1>1, <1>3 DEF IsPrefixOf

\* So a beginning is one of the texts that a patch whose stream fails may have read.
LEMMA StartsRead ==
  ASSUME NEW c \in Calls, NEW T, NEW s \in Seq(T), Initial \in Seq(T), Starts(s, Initial),
         "input" \in bad[c]
  PROVE  s \in TextsRead(c)
<1>1. IsPrefixOf(s, Initial) /\ Len(s) \in Nat /\ Len(Initial) \in Nat
  BY StartsIsPrefix, LenProperties
<1>2. Len(s) \in 0..Len(Initial) /\ s = SubSeq(Initial, 1, Len(s))
  BY <1>1 DEF IsPrefixOf
<1> QED
  BY <1>2 DEF TextsRead

\* The whole file is one of them always.
LEMMA WholeRead ==
  ASSUME NEW c \in Calls, Initial \in Seq(Pieces)
  PROVE  Initial \in TextsRead(c)
<1>1. Starts(Initial, Initial)
  BY LenProperties DEF Starts
<1> QED
  BY <1>1, StartsRead DEF TextsRead

\* What a patch reads and writes is made of pieces.
LEMMA EditedTextsType ==
  ASSUME TypeInv, NEW c \in Calls, Is(c, "patch"), NEW t \in EditedTexts(c)
  PROVE  t \in Seq(Pieces)
<1>1. /\ Initial \in Seq(Pieces) /\ Len(request[c].edits) \in Nat
      /\ \A i \in 1..Len(request[c].edits) : request[c].edits[i][2] \in Pieces
  BY RequestFacts DEF TypeInv, Typed
<1>2. PICK r \in TextsRead(c) : t = Edited(r, request[c].edits) /\ t # Failed
  BY DEF EditedTexts
<1>3. r \in Seq(Pieces)
  <2>1. CASE r = Initial
    BY <1>1, <2>1
  <2>2. ASSUME NEW n \in 0..Len(Initial), r = SubSeq(Initial, 1, n) PROVE r \in Seq(Pieces)
    <3>1. Len(Initial) \in Nat
      BY <1>1, LenProperties
    <3>2. CASE n = 0
      BY <2>2, <3>2, SubSeqEmpty, EmptySeq
    <3>3. CASE n # 0
      <4>1. 1 \in 1..Len(Initial) + 1 /\ n \in 1 - 1..Len(Initial)
        BY <3>1, <3>3
      <4> QED
        BY <1>1, <2>2, <4>1, SubSeqProperties
    <3> QED
      BY <3>2, <3>3
  <2> QED
    BY <1>2, <2>1, <2>2 DEF TextsRead
<1>4. Edited(r, request[c].edits) \in Seq(Pieces) \cup {Failed}
  BY <1>1, <1>3, EditedPieces
<1> QED
  BY <1>2, <1>4

\* What it may have read, and so what it may write, only gets more.
LEMMA TextsGrow ==
  ASSUME TypeInv, NEW d \in Calls, Step(d), request' = request, NEW c \in Calls
  PROVE  TextsRead(c) \subseteq TextsRead(c)' /\ EditedTexts(c) \subseteq EditedTexts(c)'
<1>1. bad[c] \subseteq bad'[c]
  BY BadStep
<1>2. Initial \in Seq(Pieces)
  BY RequestFacts DEF TypeInv, Typed
<1>3. ASSUME NEW t \in TextsRead(c) PROVE t \in TextsRead(c)'
  <2>1. CASE "input" \in bad[c]
    BY <1>1, <1>3, <2>1 DEF TextsRead
  <2>2. CASE "input" \notin bad[c]
    <3>1. t = Initial
      BY <1>3, <2>2 DEF TextsRead
    <3>2. Starts(Initial, Initial) /\ Len(Initial) \in Nat
      BY <1>2, LenProperties DEF Starts
    <3>3. Len(Initial) \in 0..Len(Initial) /\ Initial = SubSeq(Initial, 1, Len(Initial))
      BY <1>2, <3>2, StartsIsPrefix DEF IsPrefixOf
    <3> QED
      BY <3>1, <3>3 DEF TextsRead
  <2> QED
    BY <2>1, <2>2
<1> QED
  BY <1>3 DEF EditedTexts

\* A read that is under way does nothing to a file or to another call.
LEMMA ReadsLeave ==
  ASSUME TypeInv, NEW d \in Calls, Is(d, "read"), Step(d)
  PROVE  /\ ReadOpen(d) \/ ReadPiece(d)
         /\ file' = file
         /\ \A c \in Calls \ {d} :
              /\ pc'[c] = pc[c] /\ pos'[c] = pos[c] /\ text'[c] = text[c]
              /\ new'[c] = new[c] /\ result'[c] = result[c] /\ size'[c] = size[c]
<1>1. pc[d] \in {"start", "reading", "done"} /\ ~Is(d, "patch") /\ ~Is(d, "write")
  BY DEF TypeInv, CallOK, Is
<1>2. ReadOpen(d) \/ ReadPiece(d)
  BY <1>1 DEF Step, PatchOpen, PatchRead, PatchEdit, WriteStart, OpenToWrite, WritePiece,
     WriteFails, Written, VerifyOpen, Verify
<1>3. CASE ReadOpen(d)
  BY <1>2, <1>3 DEF ReadOpen, Goto, Return, TypeInv, Typed
<1>4. CASE ReadPiece(d)
  BY <1>2, <1>4 DEF ReadPiece, TakePiece, Goto, Return, TypeInv, Typed
<1> QED
  BY <1>2, <1>3, <1>4

\* Neither a step of the patch nor one of a read beside it breaks the invariant.
LEMMA AloneStep ==
  ASSUME TypeInv, AloneInv, [Next]_vars
  PROVE  AloneInv'
<1>1. CASE UNCHANGED vars
  <2>1. \A c : TextsRead(c)' = TextsRead(c) /\ EditedTexts(c)' = EditedTexts(c)
    BY <1>1 DEF vars, EditedTexts, TextsRead
  <2>2. \A c : Promised(c)' = Promised(c) /\ PatchAlone(c)' = PatchAlone(c)
    BY <1>1, <2>1 DEF vars, Promised, PatchAlone, Is
  <2>3. \A c : AloneOK(c)' = AloneOK(c)
    BY <1>1, <2>1, <2>2 DEF vars, AloneOK
  <2> QED
    BY <2>2, <2>3 DEF AloneInv
<1>2. ASSUME NEW d \in Calls, Step(d), request' = request,
             NEW c \in Calls, PatchAlone(c)
      PROVE  AloneOK(c)'
  <2>1. /\ AloneOK(c) /\ request'[c] = request[c]
        /\ EditedTexts(c) \subseteq EditedTexts(c)' /\ TextsRead(c) \subseteq TextsRead(c)'
    BY <1>2, TextsGrow DEF AloneInv
  <2>2. CASE d # c
    <3>1. /\ file' = file /\ pc'[c] = pc[c] /\ pos'[c] = pos[c] /\ text'[c] = text[c]
          /\ new'[c] = new[c] /\ result'[c] = result[c]
      BY <1>2, <2>2, ReadsLeave DEF PatchAlone
    <3> QED
      BY <2>1, <3>1 DEF AloneOK, Promised
  <2>3. CASE d = c
    <3>0. /\ Is(c, "patch") /\ ~Appends(c) /\ Offset(c) = 0 /\ CallOK(c) /\ Typed
          /\ file \in Seq(Pieces) /\ Initial \in Seq(Pieces) /\ Len(file) \in Nat
          /\ text[c] \in Seq(Pieces) /\ new[c] \in Seq(Pieces)
          /\ Len(text[c]) \in Nat /\ Len(new[c]) \in Nat /\ Len(Initial) \in Nat
          /\ pos[c] \in Nat \ {0} /\ bad \in [Calls -> SUBSET {"input", "verification"}]
      <4>1. Is(c, "patch") /\ ~Is(c, "write") /\ ~Is(c, "read")
        BY <1>2 DEF PatchAlone, Is
      <4>2. Typed /\ CallOK(c) /\ bad \in [Calls -> SUBSET {"input", "verification"}]
        BY DEF TypeInv
      <4> QED
        BY <4>1, <4>2, RequestFacts, LenProperties DEF Typed, Appends, Offset, Is
    <3>e. <<>> \in Seq(Pieces) /\ Len(<<>>) = 0
      BY EmptySeq
    <3>b. ASSUME Breaks(c, "input"), Starts(text[c], Initial) PROVE text[c] \in TextsRead(c)'
      <4>1. "input" \in bad'[c]
        BY <3>0, <3>b DEF Breaks
      <4>2. IsPrefixOf(text[c], Initial)
        BY <3>0, <3>b, StartsIsPrefix
      <4>3. Len(text[c]) \in 0..Len(Initial) /\ text[c] = SubSeq(Initial, 1, Len(text[c]))
        BY <3>0, <4>2 DEF IsPrefixOf
      <4> QED
        BY <4>1, <4>3 DEF TextsRead
    <3>1. CASE PatchOpen(c)
      <4>1. /\ pc[c] = "start" /\ text[c] = <<>>
            /\ pc'[c] = "reading" \/ (pc'[c] = "edit" /\ Breaks(c, "input"))
            /\ UNCHANGED <<file, text, new, result>>
        BY <3>0, <3>1 DEF PatchOpen, Goto, CallOK, Typed
      <4>2. Starts(<<>>, Initial)
        BY <3>0, <3>e DEF Starts
      <4>3. file = Initial
        BY <2>1, <4>1 DEF AloneOK
      <4>4. pc'[c] = "edit" => text'[c] \in TextsRead(c)'
        BY <3>0, <3>e, <4>1, <4>2, <3>b
      <4> QED
        BY <4>1, <4>2, <4>3, <4>4 DEF AloneOK
    <3>2. CASE PatchRead(c)
      <4>1. pc[c] = "reading" /\ UNCHANGED <<file, new, result>>
        BY <3>2 DEF PatchRead
      <4>2. file = Initial /\ Starts(text[c], Initial) /\ pos[c] = Len(text[c]) + 1
        BY <2>1, <3>0, <4>1 DEF AloneOK, CallOK
      <4>3. CASE AtEnd(c) /\ Goto(c, "edit") /\ UNCHANGED text
        <5>1. pc'[c] = "edit" /\ pos[c] > Len(file)
          BY <3>0, <4>3 DEF Goto, Typed, AtEnd
        <5>2. text[c] = Initial
          BY <3>0, <4>2, <5>1, StartsAll
        <5>3. text'[c] \in TextsRead(c)'
          BY <2>1, <3>0, <4>3, <5>2, WholeRead
        <5> QED
          BY <4>1, <4>2, <5>1, <5>3 DEF AloneOK
      <4>4. CASE ~AtEnd(c) /\ TakePiece(c) /\ UNCHANGED pc
        <5>1. pos[c] <= Len(file)
          BY <3>0, <4>4 DEF AtEnd
        <5>2. /\ Len(text'[c]) = Len(text[c]) + 1
              /\ \A i \in 1..Len(text[c]) : text'[c][i] = text[c][i]
              /\ text'[c][Len(text[c]) + 1] = file[pos[c]]
          BY <4>1, <4>4, TakeTypes
        <5>3. Starts(text'[c], Initial)
          BY <3>0, <4>2, <5>1, <5>2 DEF Starts
        <5> QED
          BY <4>1, <4>2, <4>4, <5>3 DEF AloneOK
      <4>5. CASE Breaks(c, "input") /\ Goto(c, "edit") /\ UNCHANGED text
        <5>1. pc'[c] = "edit"
          BY <3>0, <4>5 DEF Goto, Typed
        <5>2. text'[c] \in TextsRead(c)'
          BY <3>0, <3>b, <4>2, <4>5
        <5> QED
          BY <4>1, <4>2, <5>1, <5>2 DEF AloneOK
      <4> QED
        BY <3>2, <4>3, <4>4, <4>5 DEF PatchRead
    <3>3. CASE PatchEdit(c)
      <4> DEFINE whole == Edited(text[c], request[c].edits)
      <4>1. /\ pc[c] = "edit" /\ UNCHANGED <<file, text>>
            /\ \/ whole # Failed /\ pc' = [pc EXCEPT ![c] = "open"]
                  /\ new' = [new EXCEPT ![c] = whole] /\ UNCHANGED result
               \/ pc' = [pc EXCEPT ![c] = "done"] /\ result' = [result EXCEPT ![c] = "no match"]
        BY <3>3 DEF PatchEdit, Goto, Return
      <4>2. file = Initial /\ text[c] \in TextsRead(c)
        BY <2>1, <4>1 DEF AloneOK
      <4>3. whole \in EditedTexts(c) \/ whole = Failed
        BY <4>2 DEF EditedTexts
      <4> HIDE DEF whole
      <4>4. \/ pc'[c] = "open" /\ new'[c] = whole /\ whole # Failed
            \/ pc'[c] = "done" /\ result'[c] = "no match"
        BY <3>0, <4>1 DEF Typed
      <4> QED
        BY <2>1, <4>1, <4>2, <4>3, <4>4 DEF AloneOK, Promised
    <3>4. CASE WriteStart(c)
      BY <3>0, <3>4 DEF WriteStart, Is
    <3>5. CASE OpenToWrite(c)
      <4>1. /\ pc[c] = "open" /\ pos'[c] = 1 /\ UNCHANGED <<text, new>>
            /\ \/ pc'[c] = "writing" /\ file' = <<>>
               \/ pc'[c] = "done" /\ result'[c] = "error" /\ file' = file
        BY <3>0, <3>5 DEF OpenToWrite, Goto, Return, Typed
      <4>2. file = Initial /\ Promised(c) /\ Promised(c)'
        BY <2>1, <4>1 DEF AloneOK, Promised
      <4>3. Starts(<<>>, new[c])
        BY <3>0, <3>e DEF Starts
      <4>4. pc'[c] = "writing" => Starts(file', new'[c]) /\ Len(file') = pos'[c] - 1
        BY <3>e, <4>1, <4>3
      <4>5. pc'[c] = "done" => file' = Initial /\ result'[c] = "error"
        BY <4>1, <4>2
      <4> QED
        BY <4>1, <4>2, <4>4, <4>5 DEF AloneOK
    <3>6. CASE WritePiece(c)
      <4> DEFINE piece == new[c][pos[c]]
      <4>1. /\ pc[c] = "writing" /\ pos[c] <= Len(new[c]) /\ pos'[c] = pos[c] + 1
            /\ UNCHANGED <<pc, text, new, result>> /\ file' = WriteAt(file, pos[c], piece)
        BY <3>0, <3>6 DEF WritePiece, Typed
      <4>2. Promised(c) /\ Promised(c)' /\ Starts(file, new[c]) /\ Len(file) = pos[c] - 1
        BY <2>1, <4>1 DEF AloneOK, Promised
      <4>3. piece \in Pieces /\ Hole \in Pieces
        <5>1. pos[c] \in 1..Len(new[c])
          BY <3>0, <4>1
        <5>2. Hole \in Pieces
          BY DEF Pieces
        <5> QED
          BY <3>0, <5>1, <5>2, ElementOfSeq
      <4>4. /\ Len(file') = pos[c]
            /\ \A k \in 1..pos[c] : file'[k] = IF k = pos[c] THEN piece ELSE file[k]
        <5>1. pos[c] = Len(file) + 1
          BY <3>0, <4>2
        <5>2. file' = WriteAt(file, Len(file) + 1, piece)
          BY <4>1, <5>1
        <5> HIDE DEF piece
        <5>3. Grown(file, piece, file')
          BY <3>0, <4>3, <5>2, WriteNext
        <5> QED
          BY <5>1, <5>3 DEF Grown
      <4>5. Starts(file', new[c])
        BY <3>0, <4>1, <4>2, <4>4, SMTT(30) DEF Starts
      <4>6. Len(file') = pos'[c] - 1
        BY <3>0, <4>1, <4>4
      <4> QED
        BY <4>1, <4>2, <4>5, <4>6 DEF AloneOK
    <3>7. CASE WriteFails(c)
      <4>1. /\ pc[c] = "writing" /\ pc'[c] = "done" /\ result'[c] = "error"
            /\ UNCHANGED <<file, text, new>>
        BY <3>0, <3>7 DEF WriteFails, Return, Goto, Typed
      <4> QED
        BY <2>1, <4>1 DEF AloneOK, Promised
    <3>8. CASE Written(c)
      <4>1. /\ pc[c] = "writing" /\ pos[c] > Len(new[c]) /\ pc'[c] = "verify"
            /\ UNCHANGED <<file, text, new, result>>
        BY <3>0, <3>8 DEF Written, Goto, Typed
      <4>2. Promised(c) /\ Promised(c)' /\ Starts(file, new[c]) /\ Len(file) = pos[c] - 1
        BY <2>1, <4>1 DEF AloneOK, Promised
      <4>3. file = new[c]
        BY <3>0, <4>1, <4>2, StartsAll
      <4> QED
        BY <4>1, <4>2, <4>3 DEF AloneOK
    <3>9. CASE VerifyOpen(c)
      <4>1. /\ pc[c] = "verify" /\ UNCHANGED <<file, new>>
            /\ pc'[c] = "verifying" \/ (pc'[c] = "done" /\ result'[c] = "error")
        BY <3>0, <3>9 DEF VerifyOpen, Return, Goto, Typed
      <4>2. Promised(c) /\ Promised(c)' /\ file = new[c]
        BY <2>1, <4>1 DEF AloneOK, Promised
      <4>3. Starts(new[c], new[c])
        BY <3>0 DEF Starts
      <4> QED
        BY <4>1, <4>2, <4>3 DEF AloneOK
    <3>10. CASE Verify(c)
      <4>1. /\ pc[c] = "verifying" /\ UNCHANGED <<file, new>>
            /\ pc'[c] = "verifying" \/ (pc'[c] = "done" /\ result'[c] \in {"ok", "error"})
        BY <3>0, <3>10 DEF Verify, Return, Goto, Typed
      <4>2. Promised(c) /\ Promised(c)' /\ file = new[c]
        BY <2>1, <4>1 DEF AloneOK, Promised
      <4>3. Starts(new[c], new[c])
        BY <3>0 DEF Starts
      <4>4. file \in EditedTexts(c)
        BY <4>2 DEF Promised
      <4> QED
        BY <2>1, <4>1, <4>2, <4>3, <4>4 DEF AloneOK
    <3>11. CASE ReadOpen(c) \/ ReadPiece(c)
      BY <3>0, <3>11 DEF ReadOpen, ReadPiece, Is
    <3> QED
      BY <1>2, <2>3, <3>1, <3>2, <3>3, <3>4, <3>5, <3>6, <3>7, <3>8, <3>9, <3>10, <3>11 DEF Step
  <2> QED
    BY <2>2, <2>3
<1>3. ASSUME UNCHANGED request PROVE \A c \in Calls : PatchAlone(c)' <=> PatchAlone(c)
  BY <1>3 DEF PatchAlone, Is
<1> QED
  BY <1>1, <1>2, <1>3, Observed DEF AloneInv

\* The result of a patch that has nothing but reads beside it is the truth, whatever
\* opens and writes fail.
THEOREM AloneCorrect == Spec => []AloneHonest
<1>1. Init => AloneInv
  BY DEF Init, AloneInv, AloneOK
<1>2. ASSUME TypeInv, AloneInv PROVE AloneHonest
  <2> SUFFICES ASSUME NEW c \in Calls, Is(c, "patch"), pc[c] = "done",
                      \A d \in Calls \ {c} : Is(d, "read"),
                      result[c] \notin {"ok", "no match"}, file # Initial
               PROVE  \E t \in EditedTexts(c) : IsPrefixOf(file, t)
    BY <1>2 DEF AloneHonest, AloneInv, AloneOK, PatchAlone
  <2>1. Promised(c) /\ Starts(file, new[c])
    BY <1>2 DEF AloneInv, AloneOK, PatchAlone
  <2>2. file \in Seq(Pieces) /\ new[c] \in Seq(Pieces)
    BY <1>2 DEF TypeInv, Typed
  <2>3. IsPrefixOf(file, new[c])
    BY <2>1, <2>2, StartsIsPrefix
  <2> QED
    BY <2>1, <2>3 DEF Promised
<1> QED
  BY <1>1, <1>2, InitTypes, TypeStep, AloneStep, PTL DEF Spec
-----------------------------------------------------------------------------
\* Nothing but appends and reads.
OnlyAppends == \A d \in Calls : ~Is(d, "patch") /\ (Is(d, "write") => Appends(d))
\* A piece that has its place i in the old or in the new text of a patch.
Placed(d, i, piece) ==
    \/ i \in 1..Len(Initial) /\ piece = Initial[i]
    \/ \E t \in EditedTexts(d) : i \in 1..Len(t) /\ piece = t[i]
\* How many pieces there are behind o, up to n, and how many a read is to return.
Span(o, n) == IF n > o THEN n - o ELSE 0
Expected(c) ==
    LET end == Offset(c) + request[c].length
        last == IF end < size[c] THEN end ELSE size[c]
    IN  Span(Offset(c), last)
\* A read has what was at its places up to where it is.
ReadOK(c) ==
    /\ pc[c] = "reading" =>
          /\ Len(text[c]) <= request[c].length
          /\ Offset(c) + Len(text[c]) <= size[c]
    /\ pc[c] = "done" /\ result[c] = "error" => Offset(c) > size[c]
    /\ OnlyAppends =>
          /\ size[c] <= Len(file)
          /\ \A i \in 1..Len(text[c]) :
                Offset(c) + i <= Len(file) /\ text[c][i] = file[Offset(c) + i]
          /\ pc[c] = "done" => Len(text[c]) <= Expected(c)
          /\ pc[c] = "done" /\ bad[c] = {} => Len(text[c]) = Expected(c)
    /\ \A d \in Calls : PatchAlone(d) =>
          \A i \in 1..Len(text[c]) : Placed(d, Offset(c) + i, text[c][i])
ReadInv == \A c \in Calls : Is(c, "read") => ReadOK(c)

\* A step is of one call: it leaves the state of the others.
LEMMA OthersStay ==
  ASSUME TypeInv, NEW d \in Calls, Step(d), NEW c \in Calls \ {d}
  PROVE  /\ pc'[c] = pc[c] /\ text'[c] = text[c] /\ result'[c] = result[c]
         /\ size'[c] = size[c] /\ pos'[c] = pos[c] /\ new'[c] = new[c] /\ bad'[c] = bad[c]
<1>0. Typed
  BY DEF TypeInv
<1> SUFFICES /\ pc'[c] = pc[c] /\ text'[c] = text[c] /\ result'[c] = result[c]
             /\ size'[c] = size[c] /\ pos'[c] = pos[c] /\ new'[c] = new[c]
  BY BadStep
<1>1. CASE PatchOpen(d) \/ WriteStart(d) \/ WritePiece(d)
  BY <1>0, <1>1 DEF PatchOpen, WriteStart, WritePiece, Goto, Typed
<1>2. CASE PatchRead(d)
  BY <1>0, <1>2 DEF PatchRead, TakePiece, Goto, Typed
<1>3. CASE PatchEdit(d)
  BY <1>0, <1>3 DEF PatchEdit, Goto, Return, Typed
<1>4. CASE OpenToWrite(d) \/ WriteFails(d) \/ Written(d)
  BY <1>0, <1>4 DEF OpenToWrite, WriteFails, Written, Goto, Return, Typed
<1>5. CASE VerifyOpen(d)
  BY <1>0, <1>5 DEF VerifyOpen, Goto, Return, Typed
<1>6. CASE Verify(d)
  BY <1>0, <1>6 DEF Verify, TakePiece, Goto, Return, Typed
<1>7. CASE ReadOpen(d)
  BY <1>0, <1>7 DEF ReadOpen, Goto, Return, Typed
<1>8. CASE ReadPiece(d)
  BY <1>0, <1>8 DEF ReadPiece, TakePiece, Goto, Return, Typed
<1> QED
  BY <1>1, <1>2, <1>3, <1>4, <1>5, <1>6, <1>7, <1>8 DEF Step

\* Appends and reads only ever add to the end of the file.
LEMMA AppendGrows ==
  ASSUME TypeInv, NEW d \in Calls, Step(d), Appends(d) \/ Is(d, "read")
  PROVE  Starts(file, file')
<1>1. /\ ~Is(d, "patch") /\ (Is(d, "write") => Appends(d))
      /\ Is(d, "write") \/ Is(d, "read")
      /\ CallOK(d) /\ file \in Seq(Pieces) /\ new[d] \in Seq(Pieces) /\ pos[d] \in Nat \ {0}
  BY RequestFacts DEF Appends, TypeInv, Typed, Is
<1>2. file' = file \/ (WritePiece(d) /\ Appends(d))
  <2>1. CASE OpenToWrite(d) \/ WritePiece(d)
    BY <1>1, <2>1 DEF OpenToWrite, WritePiece, CallOK, Is
  <2>2. CASE ~(OpenToWrite(d) \/ WritePiece(d))
    BY <2>2 DEF Step, PatchOpen, PatchRead, PatchEdit, WriteStart, WriteFails, Written,
       VerifyOpen, Verify, ReadOpen, ReadPiece
  <2> QED
    BY <2>1, <2>2
<1>3. CASE file' = file
  BY <1>1, <1>3, LenProperties DEF Starts
<1>4. CASE WritePiece(d) /\ Appends(d)
  <2>1. pos[d] \in 1..Len(new[d]) /\ file' = Append(file, new[d][pos[d]])
    BY <1>1, <1>4, LenProperties DEF WritePiece
  <2>2. new[d][pos[d]] \in Pieces
    BY <1>1, <2>1, ElementOfSeq
  <2>3. Len(file') = Len(file) + 1 /\ \A i \in 1..Len(file) : file'[i] = file[i]
    BY <1>1, <2>1, <2>2, AppendProperties
  <2> QED
    BY <1>1, <2>3, LenProperties DEF Starts
<1> QED
  BY <1>2, <1>3, <1>4

\* A step lets the file only grow, where every request appends.
LEMMA FileGrows ==
  ASSUME TypeInv, OnlyAppends, NEW d \in Calls, Step(d)
  PROVE  Starts(file, file')
<1>1. Appends(d) \/ Is(d, "read")
  BY RequestFacts DEF OnlyAppends, TypeInv, Typed, Is
<1> QED
  BY <1>1, AppendGrows

\* While a patch rewrites it every piece of the file has its place in one of the texts.
LEMMA FilePlaced ==
  ASSUME TypeInv, AloneInv, NEW d \in Calls, PatchAlone(d), NEW i \in 1..Len(file)
  PROVE  Placed(d, i, file[i])
<1>1. /\ file \in Seq(Pieces) /\ Initial \in Seq(Pieces) /\ new[d] \in Seq(Pieces)
      /\ pc[d] \in States /\ AloneOK(d)
  BY RequestFacts DEF TypeInv, Typed, AloneInv
<1>2. file = Initial \/ (Promised(d) /\ Starts(file, new[d])) \/ file \in EditedTexts(d)
  <2>1. CASE pc[d] \in {"start", "reading", "edit", "open"}
    BY <1>1, <2>1 DEF AloneOK
  <2>2. CASE pc[d] = "writing"
    BY <1>1, <2>2 DEF AloneOK
  <2>3. CASE pc[d] \in {"verify", "verifying"}
    BY <1>1, <2>3 DEF AloneOK, Promised
  <2>4. CASE pc[d] = "done"
    BY <1>1, <2>4 DEF AloneOK
  <2> QED
    BY <1>1, <2>1, <2>2, <2>3, <2>4 DEF States
<1>3. CASE file = Initial
  BY <1>3 DEF Placed
<1>4. CASE Promised(d) /\ Starts(file, new[d])
  <2>1. i \in 1..Len(new[d]) /\ file[i] = new[d][i]
    BY <1>1, <1>4, LenProperties DEF Starts
  <2> QED
    BY <1>4, <2>1 DEF Placed, Promised
<1>5. CASE file \in EditedTexts(d)
  BY <1>5 DEF Placed
<1> QED
  BY <1>2, <1>3, <1>4, <1>5

\* Neither a step of the read nor one of another call takes it from its place.
LEMMA ReadStep ==
  ASSUME TypeInv, AloneInv, ReadInv, [Next]_vars
  PROVE  ReadInv'
<1>1. CASE UNCHANGED vars
  <2>1. \A c : EditedTexts(c)' = EditedTexts(c)
    BY <1>1 DEF vars, EditedTexts, TextsRead
  <2>2. \A d, i, x : Placed(d, i, x)' = Placed(d, i, x)
    BY <2>1 DEF Placed
  <2>3. /\ OnlyAppends' = OnlyAppends
        /\ \A c : /\ PatchAlone(c)' = PatchAlone(c) /\ Offset(c)' = Offset(c)
                  /\ Expected(c)' = Expected(c) /\ Is(c, "read")' = Is(c, "read")
    BY <1>1 DEF vars, OnlyAppends, Appends, Expected, Offset, PatchAlone, Is
  <2>4. \A c : ReadOK(c)' = ReadOK(c)
    BY <1>1, <2>2, <2>3 DEF vars, ReadOK
  <2> QED
    BY <2>3, <2>4 DEF ReadInv
<1>2. ASSUME NEW d \in Calls, Step(d), request' = request, NEW c \in Calls, Is(c, "read")
      PROVE  ReadOK(c)'
  <2>t. TypeInv'
    BY TypeStep
  <2>0. /\ ReadOK(c) /\ Typed /\ CallOK(c) /\ Offset(c) = request[c].offset
        /\ file \in Seq(Pieces) /\ pos[c] \in Nat \ {0} /\ size[c] \in Nat
        /\ Offset(c) \in Nat /\ request[c].length \in Nat
    BY <1>2, RequestFacts DEF ReadInv, TypeInv, Typed, Offset, Is
  <2>l. Len(file) \in Nat /\ Len(file)' \in Nat /\ Len(text[c]) \in Nat /\ Len(text'[c]) \in Nat
    BY <2>t, <2>0, LenProperties DEF TypeInv, Typed
  <2>s. /\ Offset(c)' = Offset(c) /\ OnlyAppends' = OnlyAppends
        /\ \A e \in Calls : PatchAlone(e)' = PatchAlone(e)
        /\ \A e \in Calls : \A i, x : Placed(e, i, x) => Placed(e, i, x)'
        /\ request'[c].length = request[c].length
    <3>1. /\ Offset(c)' = Offset(c) /\ OnlyAppends' = OnlyAppends
          /\ \A e \in Calls : PatchAlone(e)' = PatchAlone(e)
      BY <1>2 DEF Offset, OnlyAppends, PatchAlone, Appends, Is
    <3>2. \A e \in Calls : \A i, x : Placed(e, i, x) => Placed(e, i, x)'
      <4>1. \A e \in Calls : EditedTexts(e) \subseteq EditedTexts(e)'
        BY <1>2, TextsGrow
      <4> QED
        BY <4>1 DEF Placed
    <3> QED
      BY <1>2, <3>1, <3>2
  <2>1. CASE d # c
    <3>1. /\ pc'[c] = pc[c] /\ text'[c] = text[c] /\ result'[c] = result[c]
          /\ size'[c] = size[c] /\ bad'[c] = bad[c]
      BY <1>2, <2>1, OthersStay
    <3>2. ASSUME OnlyAppends
          PROVE  /\ size'[c] <= Len(file')
                 /\ \A i \in 1..Len(text'[c]) :
                       Offset(c) + i <= Len(file') /\ text'[c][i] = file'[Offset(c) + i]
      <4>1. Starts(file, file')
        BY <1>2, <3>2, FileGrows
      <4> QED
        <5>1. /\ Len(file) <= Len(file') /\ \A i \in 1..Len(file) : file'[i] = file[i]
              /\ size[c] <= Len(file)
          BY <2>0, <3>2, <4>1 DEF ReadOK, Starts
        <5>0. \A i \in 1..Len(text[c]) :
                 Offset(c) + i <= Len(file) /\ text[c][i] = file[Offset(c) + i]
          BY <2>0, <3>2 DEF ReadOK
        <5>2. ASSUME NEW i \in 1..Len(text[c])
              PROVE  Offset(c) + i \in 1..Len(file) /\ text[c][i] = file[Offset(c) + i]
          <6>1. Offset(c) + i <= Len(file) /\ i \in Nat \ {0} /\ text[c][i] = file[Offset(c) + i]
            BY <2>l, <5>0
          <6> QED
            BY <2>0, <2>l, <6>1, SMTT(30)
        <5>3. size'[c] <= Len(file')
          <6>1. size'[c] = size[c] /\ size[c] \in Nat /\ Len(file) \in Nat /\ Len(file') \in Nat
            BY <2>0, <2>l, <3>1
          <6> QED
            BY <5>1, <6>1
        <5>4. ASSUME NEW i \in 1..Len(text'[c])
              PROVE  Offset(c) + i <= Len(file') /\ text'[c][i] = file'[Offset(c) + i]
          <6>1. i \in 1..Len(text[c]) /\ text'[c][i] = text[c][i]
            BY <3>1
          <6>2. Offset(c) + i \in 1..Len(file) /\ text[c][i] = file[Offset(c) + i]
            BY <5>2, <6>1
          <6>3. file'[Offset(c) + i] = file[Offset(c) + i]
            BY <5>1, <6>2
          <6>4. Offset(c) + i <= Len(file')
            <7>1. Offset(c) + i \in Nat /\ Len(file) \in Nat /\ Len(file') \in Nat
              BY <2>l, <6>2
            <7> QED
              BY <5>1, <6>2, <7>1
          <6> QED
            BY <6>1, <6>2, <6>3, <6>4
        <5> QED
          BY <5>3, <5>4
    <3>3. Expected(c)' = Expected(c)
      BY <2>s, <3>1 DEF Expected
    <3>4. \A e \in Calls : PatchAlone(e) =>
            \A i \in 1..Len(text'[c]) : Placed(e, Offset(c) + i, text'[c][i])
      BY <2>0, <3>1 DEF ReadOK
    <3> QED
      BY <2>0, <2>s, <3>1, <3>2, <3>3, <3>4 DEF ReadOK
  <2>2. CASE d = c
    <3>1. ReadOpen(c) \/ ReadPiece(c)
      BY <1>2, <2>2, ReadsLeave
    <3>2. file' = file
      BY <3>1 DEF ReadOpen, ReadPiece
    <3>3. CASE ReadOpen(c)
      <4>1. pc[c] = "start" /\ text[c] = <<>> /\ size[c] = 0 /\ text'[c] = <<>> /\ Len(<<>>) = 0
        BY <2>0, <3>3, EmptySeq DEF ReadOpen, CallOK
      <4>2. \/ /\ size'[c] = Len(file)
               /\ \/ Offset(c) > Len(file) /\ pc'[c] = "done" /\ result'[c] = "error"
                  \/ Offset(c) <= Len(file) /\ pc'[c] = "reading" /\ result'[c] = result[c]
            \/ pc'[c] = "done" /\ result'[c] = "ok" /\ size'[c] = 0
        BY <2>0, <2>l, <3>3, <4>1 DEF ReadOpen, Goto, Return, Typed
      <4>3. pc'[c] = "done" => Expected(c)' = 0
        BY <2>0, <2>l, <2>s, <4>2, SMTT(30) DEF Expected, Span
      <4> QED
        BY <2>0, <2>l, <2>s, <3>2, <4>1, <4>2, <4>3 DEF ReadOK
    <3>4. CASE ReadPiece(c)
      <4>0. pc[c] = "reading" /\ pos[c] = Offset(c) + Len(text[c]) + 1 /\ size'[c] = size[c]
        BY <2>0, <3>4 DEF ReadPiece, CallOK
      <4>1. CASE Wanted(c) /\ ~AtEnd(c) /\ TakePiece(c) /\ UNCHANGED <<pc, result>>
        <5>1. /\ pc'[c] = "reading" /\ TakePiece(c) /\ pos[c] <= size[c] /\ pos[c] <= Len(file)
              /\ Len(text[c]) < request[c].length
          BY <2>l, <2>0, <3>4, <4>0, <4>1 DEF ReadPiece, Wanted, AtEnd
        <5>2. /\ Len(text'[c]) = Len(text[c]) + 1
              /\ \A i \in 1..Len(text[c]) : text'[c][i] = text[c][i]
              /\ text'[c][Len(text[c]) + 1] = file[pos[c]]
          BY <4>0, <4>1, <5>1, TakeTypes
        <5>3. ASSUME OnlyAppends, NEW i \in 1..Len(text'[c])
              PROVE  Offset(c) + i <= Len(file) /\ text'[c][i] = file[Offset(c) + i]
          <6>1. CASE i = Len(text[c]) + 1
            BY <2>0, <2>l, <4>0, <5>1, <5>2, <6>1, SMTT(30)
          <6>2. CASE i # Len(text[c]) + 1
            BY <2>0, <2>l, <5>2, <5>3, <6>2, SMTT(30) DEF ReadOK
          <6> QED
            BY <6>1, <6>2
        <5>4. ASSUME NEW e \in Calls, PatchAlone(e), NEW i \in 1..Len(text'[c])
              PROVE  Placed(e, Offset(c) + i, text'[c][i])
          <6>1. CASE i = Len(text[c]) + 1
            <7>1. pos[c] \in 1..Len(file) /\ pos[c] = Offset(c) + i
              BY <2>0, <2>l, <4>0, <5>1, <6>1, SMTT(30)
            <7>2. Placed(e, pos[c], file[pos[c]])
              BY <5>4, <7>1, FilePlaced
            <7> QED
              BY <5>2, <6>1, <7>1, <7>2
          <6>2. CASE i # Len(text[c]) + 1
            <7>1. i \in 1..Len(text[c])
              BY <2>l, <5>2, <6>2
            <7> QED
              BY <2>0, <5>2, <5>4, <7>1 DEF ReadOK
          <6> QED
            BY <6>1, <6>2
        <5>5. Len(text'[c]) <= request[c].length /\ Offset(c) + Len(text'[c]) <= size[c]
          BY <2>0, <2>l, <4>0, <5>1, <5>2, SMTT(30)
        <5>6. OnlyAppends => size[c] <= Len(file)
          BY <2>0 DEF ReadOK
        <5> QED
          BY <2>s, <3>2, <4>0, <5>1, <5>3, <5>4, <5>5, <5>6 DEF ReadOK
      <4>2. ASSUME pc[c] = "reading"
            PROVE  /\ Len(text[c]) <= Expected(c)
                   /\ ~Wanted(c) \/ pos[c] > size[c] => Len(text[c]) = Expected(c)
        <5> DEFINE len == Len(text[c])
                   n == request[c].length
                   last == IF Offset(c) + n < size[c] THEN Offset(c) + n ELSE size[c]
        <5>1. /\ len \in Nat /\ n \in Nat /\ Offset(c) \in Nat /\ size[c] \in Nat
              /\ len <= n /\ Offset(c) + len <= size[c]
          BY <2>0, <2>l, <4>2 DEF ReadOK
        <5>2. Expected(c) = IF last > Offset(c) THEN last - Offset(c) ELSE 0
          BY DEF Expected, Span
        <5>3. ~Wanted(c) \/ pos[c] > size[c] => len >= n \/ Offset(c) + len >= size[c]
          BY <4>0, <5>1 DEF Wanted
        <5> HIDE DEF len, n
        <5>4. len <= Expected(c)
          BY <5>1, <5>2
        <5>5. len >= n \/ Offset(c) + len >= size[c] => len = Expected(c)
          <6> SUFFICES ASSUME len >= n \/ Offset(c) + len >= size[c] PROVE len = Expected(c)
            OBVIOUS
          <6>1. last = Offset(c) + len
            BY <5>1
          <6> QED
            BY <5>1, <5>2, <6>1
        <5> QED
          BY <5>3, <5>4, <5>5 DEF len
      <4>3. CASE Return(c, "ok") /\ UNCHANGED text
        <5>1. pc'[c] = "done" /\ result'[c] = "ok" /\ text'[c] = text[c]
          BY <2>0, <4>3 DEF Return, Goto, Typed
        <5>2. Expected(c)' = Expected(c)
          BY <2>s, <4>0 DEF Expected
        <5>3. ASSUME OnlyAppends, bad'[c] = {} PROVE Len(text[c]) = Expected(c)
          <6>1. ~Breaks(c, "input")
            <7>1. bad[c] \cup {"input"} # {}
              OBVIOUS
            <7> QED
              BY <1>2, <5>3, <7>1 DEF Breaks, TypeInv
          <6>2. ~TakePiece(c)
            BY <2>0, <2>2, <4>0, <4>3, <5>1, <2>l DEF TakePiece, Typed
          <6>3. ~(Wanted(c) /\ ~AtEnd(c))
            BY <3>4, <6>1, <6>2 DEF ReadPiece
          <6>4. pos[c] > Len(file) => pos[c] > size[c]
            BY <2>0, <2>l, <5>3 DEF ReadOK
          <6> QED
            BY <4>0, <4>2, <6>3, <6>4 DEF AtEnd
        <5>4. Len(text[c]) <= Expected(c)
          BY <4>0, <4>2
        <5> QED
          BY <2>0, <2>s, <3>2, <4>0, <5>1, <5>2, <5>3, <5>4 DEF ReadOK
      <4> QED
        BY <3>4, <4>1, <4>3 DEF ReadPiece
    <3> QED
      BY <3>1, <3>3, <3>4
  <2> QED
    BY <2>1, <2>2
<1>3. ASSUME UNCHANGED request PROVE \A c \in Calls : Is(c, "read")' = Is(c, "read")
  BY <1>3 DEF Is
<1> QED
  BY <1>1, <1>2, <1>3, Observed DEF ReadInv

\* A text whose pieces are at their places behind o, up to n, is that part of the file.
LEMMA PartOf ==
  ASSUME NEW T, NEW s \in Seq(T), NEW f \in Seq(T), NEW o \in Nat, NEW n \in Nat,
         n <= Len(f), Len(s) = Span(o, n),
         \A i \in 1..Len(s) : s[i] = f[o + i]
  PROVE  s = SubSeq(f, o + 1, n)
<1>1. /\ Len(s) \in Nat /\ Len(f) \in Nat /\ DOMAIN s = 1..Len(s)
      /\ Len(s) = IF n > o THEN n - o ELSE 0
  BY LenProperties DEF Span
<1>2. CASE n > o
  <2>1. o + 1 \in 1..Len(f) + 1 /\ n \in (o + 1) - 1..Len(f) /\ n - (o + 1) + 1 = n - o
    BY <1>1, <1>2
  <2>2. /\ SubSeq(f, o + 1, n) \in Seq(T) /\ Len(SubSeq(f, o + 1, n)) = n - (o + 1) + 1
        /\ \A i \in 1..n - (o + 1) + 1 : SubSeq(f, o + 1, n)[i] = f[o + 1 + i - 1]
    BY <2>1, SubSeqProperties
  <2>3. Len(s) = n - o /\ \A i \in 1..Len(s) : o + 1 + i - 1 = o + i
    BY <1>1, <1>2
  <2> QED
    BY <2>1, <2>2, <2>3, SeqEqual
<1>3. CASE ~(n > o)
  <2>1. s = <<>>
    BY <1>1, <1>3, EmptySeq
  <2>2. SubSeq(f, o + 1, n) = <<>>
    BY <1>3, SubSeqEmpty
  <2> QED
    BY <2>1, <2>2
<1> QED
  BY <1>2, <1>3

\* If it has fewer pieces than that, it is the beginning of that part.
LEMMA BeginningOf ==
  ASSUME NEW T, NEW s \in Seq(T), NEW f \in Seq(T), NEW o \in Nat, NEW n \in Nat,
         n <= Len(f), Len(s) <= Span(o, n),
         \A i \in 1..Len(s) : s[i] = f[o + i]
  PROVE  IsPrefixOf(s, SubSeq(f, o + 1, n))
<1>1. /\ Len(s) \in Nat /\ Len(f) \in Nat
      /\ Len(s) <= IF n > o THEN n - o ELSE 0
  BY LenProperties DEF Span
<1>2. CASE n > o
  <2>1. o + 1 \in 1..Len(f) + 1 /\ n \in (o + 1) - 1..Len(f) /\ n - (o + 1) + 1 = n - o
    BY <1>1, <1>2
  <2>2. /\ SubSeq(f, o + 1, n) \in Seq(T) /\ Len(SubSeq(f, o + 1, n)) = n - (o + 1) + 1
        /\ \A i \in 1..n - (o + 1) + 1 : SubSeq(f, o + 1, n)[i] = f[o + 1 + i - 1]
    BY <2>1, SubSeqProperties
  <2>3. Len(s) <= n - o /\ \A i \in 1..Len(s) : o + 1 + i - 1 = o + i /\ i \in 1..n - (o + 1) + 1
    BY <1>1, <1>2
  <2>4. Starts(s, SubSeq(f, o + 1, n))
    BY <2>1, <2>2, <2>3 DEF Starts
  <2> QED
    BY <2>2, <2>4, StartsIsPrefix
<1>3. CASE ~(n > o)
  <2>1. s = <<>>
    BY <1>1, <1>3, EmptySeq
  <2>2. SubSeq(f, o + 1, n) = <<>> /\ <<>> \in Seq(T)
    BY <1>3, SubSeqEmpty, EmptySeq
  <2>3. Starts(s, <<>>)
    BY <2>1, <2>2, StartsEmpty
  <2> QED
    BY <2>2, <2>3, StartsIsPrefix
<1> QED
  BY <1>2, <1>3

\* What a read returns was at its place, beside appends and beside a patch.
THEOREM ReadCorrect == Spec => []ReadInPlace
<1>1. Init => AloneInv /\ ReadInv
  <2> SUFFICES ASSUME Init PROVE AloneInv /\ ReadInv
    OBVIOUS
  <2>1. AloneInv
    BY DEF Init, AloneInv, AloneOK
  <2>2. Len(<<>>) = 0 /\ Len(file) \in Nat
    BY InitTypes, EmptySeq, LenProperties DEF TypeInv, Typed
  <2>3. ReadInv
    BY <2>2 DEF Init, ReadInv, ReadOK
  <2> QED
    BY <2>1, <2>3
<1>2. ASSUME TypeInv, ReadInv PROVE ReadInPlace
  <2> SUFFICES ASSUME NEW c \in Calls, Is(c, "read"), pc[c] = "done",
                      \A d, e \in Calls \ {c} : Is(d, "patch") /\ Is(e, "patch") => d = e
               PROVE  LET end == Offset(c) + request[c].length
                          Place(t, i) == Offset(c) + i \in DOMAIN t /\ text[c][i] = t[Offset(c) + i]
                      IN  /\ result[c] = "error" => Offset(c) > size[c]
                          /\ OnlyAppends =>
                               LET part == SubSeq(file, Offset(c) + 1,
                                                  IF end < size[c] THEN end ELSE size[c])
                               IN  IF bad[c] = {} THEN text[c] = part
                                                  ELSE IsPrefixOf(text[c], part)
                          /\ \A d \in Calls : PatchAlone(d) =>
                               \A i \in DOMAIN text[c] :
                                  \E t \in {Initial} \cup EditedTexts(d) : Place(t, i)
    <3>1. ASSUME NEW c \in Calls, Is(c, "read"),
                 \A d, e \in Calls \ {c} : Is(d, "patch") /\ Is(e, "patch") => d = e,
                 NEW d \in Calls, Is(d, "patch"), \A e \in Calls : ~Is(e, "write")
          PROVE  PatchAlone(d)
      BY <1>2, <3>1, RequestFacts DEF PatchAlone, TypeInv, Typed, Is
    <3>2. ASSUME NEW c \in Calls, Is(c, "read"),
                 \A d \in Calls \ {c} : Is(d, "write") => Appends(d),
                 \A d \in Calls : ~Is(d, "patch")
          PROVE  OnlyAppends
      BY <3>2 DEF OnlyAppends, Is
    <3> QED
      BY <3>1, <3>2 DEF ReadInPlace
  <2>0. /\ ReadOK(c) /\ file \in Seq(Pieces) /\ text[c] \in Seq(Pieces) /\ size[c] \in Nat
        /\ Offset(c) \in Nat /\ request[c].length \in Nat /\ Initial \in Seq(Pieces)
    BY <1>2, RequestFacts DEF ReadInv, TypeInv, Typed, Offset, Is
  <2> DEFINE end == Offset(c) + request[c].length
             last == IF end < size[c] THEN end ELSE size[c]
  <2>1. result[c] = "error" => Offset(c) > size[c]
    BY <2>0 DEF ReadOK
  <2>2. ASSUME OnlyAppends
        PROVE  /\ bad[c] = {} => text[c] = SubSeq(file, Offset(c) + 1, last)
               /\ IsPrefixOf(text[c], SubSeq(file, Offset(c) + 1, last))
    <3>1. /\ size[c] <= Len(file) /\ Len(text[c]) <= Expected(c)
          /\ bad[c] = {} => Len(text[c]) = Expected(c)
          /\ \A i \in 1..Len(text[c]) : text[c][i] = file[Offset(c) + i]
      BY <2>0, <2>2 DEF ReadOK
    <3>2. last \in Nat /\ last <= Len(file) /\ Len(file) \in Nat
      BY <2>0, <3>1, LenProperties
    <3>3. Expected(c) = Span(Offset(c), last)
      BY DEF Expected
    <3> HIDE DEF last
    <3>4. ASSUME NEW s \in Seq(Pieces), NEW o \in Nat, NEW n \in Nat,
                 s = text[c], o = Offset(c), n = last
          PROVE  /\ bad[c] = {} => s = SubSeq(file, o + 1, n)
                 /\ IsPrefixOf(s, SubSeq(file, o + 1, n))
      <4>1. n <= Len(file) /\ Len(s) <= Span(o, n) /\ (bad[c] = {} => Len(s) = Span(o, n))
        BY <3>1, <3>2, <3>3, <3>4
      <4>2. \A i \in 1..Len(s) : s[i] = file[o + i]
        BY <3>1, <3>4
      <4>3. file \in Seq(Pieces)
        BY <2>0
      <4> HIDE <3>4
      <4>4. bad[c] = {} => s = SubSeq(file, o + 1, n)
        BY <4>1, <4>2, <4>3, PartOf
      <4>5. IsPrefixOf(s, SubSeq(file, o + 1, n))
        BY <4>1, <4>2, <4>3, BeginningOf
      <4> QED
        BY <4>4, <4>5
    <3> QED
      BY <2>0, <3>2, <3>4
  <2>3. ASSUME NEW d \in Calls, PatchAlone(d), NEW i \in DOMAIN text[c]
        PROVE  \E t \in {Initial} \cup EditedTexts(d) :
                  Offset(c) + i \in DOMAIN t /\ text[c][i] = t[Offset(c) + i]
    <3>1. i \in 1..Len(text[c]) /\ DOMAIN Initial = 1..Len(Initial)
      BY <2>0, <2>3, LenProperties
    <3>2. Placed(d, Offset(c) + i, text[c][i])
      BY <2>0, <2>3, <3>1 DEF ReadOK
    <3>3. \A t \in EditedTexts(d) : DOMAIN t = 1..Len(t)
      BY <1>2, <2>3, EditedTextsType, LenProperties DEF PatchAlone
    <3> QED
      BY <3>1, <3>2, <3>3 DEF Placed
  <2> QED
    BY <2>1, <2>2, <2>3
<1> QED
  BY <1>1, <1>2, InitTypes, TypeStep, AloneStep, ReadStep, PTL DEF Spec
-----------------------------------------------------------------------------
\* The pieces behind the old text are those that the appends wrote, each call's in
\* its order.
Owned(of) ==
    /\ \A p \in Len(Initial) + 1..Len(file) : file[p] = new[of[p][1]][of[p][2]]
    /\ \A p, q \in Len(Initial) + 1..Len(file) :
          p < q /\ of[p][1] = of[q][1] => of[p][2] < of[q][2]
    /\ \A a \in Accepted : \E p \in Len(Initial) + 1..Len(file) : of[p] = a
AppendInv ==
    OnlyAppends =>
        /\ \A c \in Calls : Appends(c) /\ pc[c] = "open" => pos[c] = 1
        /\ Starts(Initial, file)
        /\ \E of \in [Len(Initial) + 1..Len(file) -> Accepted] : Owned(of)

\* What Accepted holds.
LEMMA AcceptedIs ==
  ASSUME NEW a
  PROVE  a \in Accepted <=> \E c \in Calls : \E k \in 1..pos[c] - 1 : Appends(c) /\ a = <<c, k>>
BY DEF Accepted

\* A step that is not the write of a piece leaves the file and what was accepted.
LEMMA AppendFrame ==
  ASSUME TypeInv, AppendInv, OnlyAppends, NEW c \in Calls, Step(c), ~WritePiece(c)
  PROVE  /\ file' = file
         /\ \A d \in Calls : Appends(d) =>
              /\ pos'[d] = pos[d]
              /\ new'[d] = new[d] \/ pos[d] = 1
              /\ pc'[d] = "open" => pos'[d] = 1
<1>0. /\ Typed /\ CallOK(c)
      /\ Is(c, "write") \/ Is(c, "read")
      /\ ~Is(c, "patch") /\ (Is(c, "write") => Appends(c))
      /\ \A d \in Calls : Appends(d) /\ pc[d] = "open" => pos[d] = 1
  BY RequestFacts DEF OnlyAppends, TypeInv, Typed, Is, AppendInv
<1>1. CASE Is(c, "read")
  <2>1. \A d \in Calls : Appends(d) => d # c
    BY <1>1 DEF Appends, Is
  <2> QED
    BY <1>0, <1>1, <2>1, ReadsLeave
<1>2. CASE Is(c, "write")
  <2>1. Appends(c) /\ pc[c] \in {"start", "open", "writing", "done"} /\ ~Is(c, "read")
    BY <1>0, <1>2 DEF CallOK, Is
  <2>2. WriteStart(c) \/ OpenToWrite(c) \/ WriteFails(c) \/ Written(c)
    BY <1>0, <2>1 DEF Step, PatchOpen, PatchRead, PatchEdit, VerifyOpen, Verify,
       ReadOpen, ReadPiece
  <2>3. CASE WriteStart(c)
    BY <1>0, <2>3 DEF WriteStart, Goto, Typed, CallOK
  <2>4. CASE OpenToWrite(c)
    <3>1. file' = file /\ new' = new /\ pos' = [pos EXCEPT ![c] = 1] /\ pos[c] = 1
      BY <1>0, <2>1, <2>4 DEF OpenToWrite
    <3>2. pc'[c] # "open" /\ \A d \in Calls \ {c} : pc'[d] = pc[d]
      BY <1>0, <2>4 DEF OpenToWrite, Goto, Return, Typed
    <3> QED
      BY <1>0, <3>1, <3>2 DEF Typed
  <2>5. CASE WriteFails(c) \/ Written(c)
    BY <1>0, <2>5 DEF WriteFails, Written, Goto, Return, Typed
  <2> QED
    BY <2>2, <2>3, <2>4, <2>5
<1> QED
  BY <1>0, <1>1, <1>2

\* An accepted piece goes behind all others, also those of its own call.
LEMMA AppendPiece ==
  ASSUME TypeInv, NEW c \in Calls, WritePiece(c), Appends(c), UNCHANGED request,
         Starts(Initial, file),
         NEW of \in [Len(Initial) + 1..Len(file) -> Accepted], Owned(of)
  PROVE  \E on \in [Len(Initial) + 1..Len(file') -> Accepted'] : Owned(on)'
<1>a. PICK I, L, k : I = Len(Initial) /\ L = Len(file) /\ k = pos[c]
  OBVIOUS
<1>0. /\ file \in Seq(Pieces) /\ new[c] \in Seq(Pieces) /\ I \in Nat /\ L \in Nat /\ I <= L
      /\ pos \in [Calls -> Nat \ {0}] /\ k \in Nat \ {0}
  BY <1>a, RequestFacts, LenProperties DEF TypeInv, Typed, Starts
<1>1. /\ k \in 1..Len(new[c]) /\ file' = Append(file, new[c][k]) /\ new' = new
      /\ pos' = [pos EXCEPT ![c] = k + 1]
  BY <1>0, <1>a, LenProperties DEF WritePiece
<1>2. new[c][k] \in Pieces
  BY <1>0, <1>1, ElementOfSeq
<1>3. /\ Len(file') = L + 1 /\ file'[L + 1] = new[c][k]
      /\ \A p \in 1..L : file'[p] = file[p]
  BY <1>0, <1>a, <1>1, <1>2, AppendProperties
<1>4. ASSUME NEW a PROVE a \in Accepted' <=> a \in Accepted \/ a = <<c, k>>
  <2>1. \A d : Appends(d)' <=> Appends(d)
    BY DEF Appends, Is
  <2>2. a \in Accepted' <=> \E d \in Calls : \E j \in 1..pos'[d] - 1 : Appends(d) /\ a = <<d, j>>
    BY <2>1 DEF Accepted
  <2>3. \A d \in Calls : pos'[d] = IF d = c THEN k + 1 ELSE pos[d]
    BY <1>0, <1>1
  <2>4. \A j : j \in 1..k + 1 - 1 <=> j \in 1..k - 1 \/ j = k
    BY <1>0
  <2>5. a \in Accepted <=> \E d \in Calls : \E j \in 1..pos[d] - 1 : Appends(d) /\ a = <<d, j>>
    BY AcceptedIs
  <2>6. a = <<c, k>> \/ a \in Accepted => a \in Accepted'
    <3>1. CASE a = <<c, k>>
      <4>1. k \in 1..pos'[c] - 1 /\ Appends(c)
        BY <1>0, <2>3
      <4> QED
        BY <2>2, <3>1, <4>1
    <3>2. CASE a \in Accepted
      <4>1. PICK d \in Calls : \E j \in 1..pos[d] - 1 : Appends(d) /\ a = <<d, j>>
        BY <2>5, <3>2
      <4>2. PICK j \in 1..pos[d] - 1 : Appends(d) /\ a = <<d, j>>
        BY <4>1
      <4>3. j \in 1..pos'[d] - 1
        BY <1>0, <1>a, <2>3
      <4> QED
        BY <2>2, <4>2, <4>3
    <3> QED
      BY <3>1, <3>2
  <2>7. ASSUME a \in Accepted' PROVE a \in Accepted \/ a = <<c, k>>
    <3>1. PICK d \in Calls : \E j \in 1..pos'[d] - 1 : Appends(d) /\ a = <<d, j>>
      BY <2>2, <2>7
    <3>2. PICK j \in 1..pos'[d] - 1 : Appends(d) /\ a = <<d, j>>
      BY <3>1
    <3>3. CASE d = c
      <4>1. j \in 1..pos[d] - 1 \/ j = k
        BY <1>a, <2>3, <2>4, <3>2, <3>3, SMTT(30)
      <4> QED
        BY <2>5, <3>2, <3>3, <4>1
    <3>4. CASE d # c
      BY <2>3, <2>5, <3>2, <3>4
    <3> QED
      BY <3>3, <3>4
  <2> QED
    BY <2>6, <2>7
<1>5. ASSUME NEW p \in I + 1..L PROVE of[p] \in Accepted /\ of[p] \in Accepted'
  BY <1>4, <1>5, <1>a
<1>6. ASSUME NEW p \in I + 1..L, of[p][1] = c PROVE of[p][2] < k
  <2>1. PICK d \in Calls : \E j \in 1..pos[d] - 1 : of[p] = <<d, j>>
    BY <1>5, AcceptedIs
  <2>2. PICK j \in 1..pos[d] - 1 : of[p] = <<d, j>>
    BY <2>1
  <2>3. d = c /\ of[p][2] = j
    BY <1>6, <2>2
  <2> QED
    BY <1>0, <1>a, <2>2, <2>3
<1> DEFINE on == [p \in I + 1..L + 1 |-> IF p = L + 1 THEN <<c, k>> ELSE of[p]]
<1>7. \A p \in I + 1..L + 1 : p \in I + 1..L \/ p = L + 1
  BY <1>0
<1>8. L + 1 \in I + 1..L + 1 /\ \A p \in I + 1..L : p \in I + 1..L + 1 /\ p # L + 1 /\ p \in 1..L
  BY <1>0
<1>9. on[L + 1] = <<c, k>> /\ \A p \in I + 1..L : on[p] = of[p]
  BY <1>8
<1>10. on \in [I + 1..L + 1 -> Accepted']
  BY <1>4, <1>5, <1>7
<1> HIDE DEF on
<1>11. ASSUME NEW p \in I + 1..L + 1 PROVE file'[p] = new[on[p][1]][on[p][2]]
  <2>1. CASE p = L + 1
    BY <1>3, <1>9, <2>1
  <2>2. CASE p \in I + 1..L
    BY <1>3, <1>8, <1>9, <1>a, <2>2 DEF Owned
  <2> QED
    BY <1>7, <2>1, <2>2
<1>12. ASSUME NEW p \in I + 1..L + 1, NEW q \in I + 1..L + 1, p < q, on[p][1] = on[q][1]
       PROVE  on[p][2] < on[q][2]
  <2>1. p \in I + 1..L
    BY <1>0, <1>7, <1>12
  <2>2. CASE q = L + 1
    BY <1>6, <1>9, <1>12, <2>1, <2>2
  <2>3. CASE q \in I + 1..L
    BY <1>9, <1>12, <1>a, <2>1, <2>3 DEF Owned
  <2> QED
    BY <1>7, <2>2, <2>3
<1>13. ASSUME NEW a \in Accepted' PROVE \E p \in I + 1..L + 1 : on[p] = a
  <2>1. CASE a = <<c, k>>
    BY <1>8, <1>9, <2>1
  <2>2. CASE a \in Accepted
    <3>1. PICK p \in I + 1..L : of[p] = a
      BY <1>a, <2>2 DEF Owned
    <3> QED
      BY <1>8, <1>9, <3>1
  <2> QED
    BY <1>4, <2>1, <2>2
<1>14. Owned(on)'
  BY <1>1, <1>3, <1>a, <1>11, <1>12, <1>13 DEF Owned
<1> QED
  BY <1>3, <1>a, <1>10, <1>14

\* The pieces of the appends stay in the file.
LEMMA AppendStep ==
  ASSUME TypeInv, AppendInv, [Next]_vars
  PROVE  AppendInv'
<1>1. CASE UNCHANGED vars
  BY <1>1 DEF vars, AppendInv, OnlyAppends, Appends, Accepted, Owned, Is
<1>2. ASSUME NEW c \in Calls, Step(c), request' = request, OnlyAppends
      PROVE  AppendInv'
  <2>0. /\ Starts(Initial, file) /\ Typed
        /\ \A d : Appends(d)' <=> Appends(d)
        /\ \A d \in Calls : Appends(d) /\ pc[d] = "open" => pos[d] = 1
    BY <1>2 DEF AppendInv, TypeInv, Appends, Is
  <2>1. PICK of \in [Len(Initial) + 1..Len(file) -> Accepted] : Owned(of)
    BY <1>2 DEF AppendInv
  <2>2. Starts(Initial, file')
    <3>1. Starts(file, file')
      BY <1>2, FileGrows
    <3>2. Len(Initial) \in Nat /\ Len(file) \in Nat /\ Len(file') \in Nat
      BY <2>0, TypeStep, RequestFacts, LenProperties DEF TypeInv, Typed
    <3> QED
      BY <2>0, <3>1, <3>2 DEF Starts
  <2>3. CASE WritePiece(c)
    <3>1. Appends(c)
      BY <1>2, <2>0, <2>3, RequestFacts DEF OnlyAppends, WritePiece, TypeInv, Typed, CallOK, Is
    <3>2. \E on \in [Len(Initial) + 1..Len(file') -> Accepted'] : Owned(on)'
      BY <1>2, <2>0, <2>1, <2>3, <3>1, AppendPiece
    <3>3. \A d \in Calls : Appends(d) /\ pc'[d] = "open" => pos'[d] = 1
      BY <2>0, <2>3 DEF WritePiece, Typed
    <3> QED
      BY <2>0, <2>2, <3>2, <3>3 DEF AppendInv
  <2>4. CASE ~WritePiece(c)
    <3>1. /\ file' = file
          /\ \A d \in Calls : Appends(d) =>
               /\ pos'[d] = pos[d]
               /\ new'[d] = new[d] \/ pos[d] = 1
               /\ pc'[d] = "open" => pos'[d] = 1
      BY <1>2, <2>4, AppendFrame
    <3>2. Accepted' = Accepted
      <4>1. \A a : a \in Accepted' <=>
               \E d \in Calls : \E k \in 1..pos'[d] - 1 : Appends(d) /\ a = <<d, k>>
        BY <2>0 DEF Accepted
      <4>2. \A a : a \in Accepted' <=> a \in Accepted
        BY <3>1, <4>1, AcceptedIs
      <4> QED
        BY <4>2
    <3>3. ASSUME NEW p \in Len(Initial) + 1..Len(file) PROVE new'[of[p][1]] = new[of[p][1]]
      <4>1. PICK d \in Calls : \E k \in 1..pos[d] - 1 : Appends(d) /\ of[p] = <<d, k>>
        BY AcceptedIs
      <4>2. Appends(d) /\ of[p][1] = d /\ pos[d] # 1
        BY <2>0, <4>1 DEF Typed
      <4> QED
        BY <3>1, <4>2
    <3>4. Owned(of)'
      BY <2>1, <3>1, <3>2, <3>3 DEF Owned
    <3> QED
      BY <2>0, <2>1, <2>2, <3>1, <3>2, <3>4 DEF AppendInv
  <2> QED
    BY <2>3, <2>4
<1>3. UNCHANGED request => OnlyAppends' = OnlyAppends
  BY DEF OnlyAppends, Appends, Is
<1> QED
  BY <1>1, <1>2, <1>3, Observed DEF AppendInv

\* Appends of several calls do not overwrite each other: every accepted piece is in
\* the file once, behind what was there, and nothing else is: AppendsSurvive of FileRace.
THEOREM AppendsKept == Spec => []AppendsSurvive
<1>1. Init => AppendInv
  <2> SUFFICES ASSUME Init PROVE AppendInv
    OBVIOUS
  <2>1. Accepted = {}
    <3>1. \A a : a \notin Accepted
      BY AcceptedIs DEF Init
    <3> QED
      BY <3>1
  <2>2. Len(Initial) \in Nat /\ file = Initial
    BY InitTypes, LenProperties DEF TypeInv, Typed, Init
  <2>3. Len(Initial) + 1..Len(file) = {}
    BY <2>2
  <2>4. [p \in {} |-> p] \in [Len(Initial) + 1..Len(file) -> Accepted]
    BY <2>3
  <2>5. Owned([p \in {} |-> p])
    BY <2>1, <2>3 DEF Owned
  <2>6. Starts(Initial, file)
    BY <2>2 DEF Starts
  <2>7. \A c \in Calls : pc[c] # "open"
    BY DEF Init
  <2> QED
    BY <2>4, <2>5, <2>6, <2>7 DEF AppendInv
<1>2. TypeInv /\ AppendInv => AppendsSurvive
  <2> SUFFICES ASSUME TypeInv, AppendInv, \A c \in Calls : Appends(c) \/ Is(c, "read")
               PROVE  /\ IsPrefixOf(Initial, file)
                      /\ \E of \in [Len(Initial) + 1..Len(file) -> Accepted] :
                            /\ \A p \in DOMAIN of : file[p] = new[of[p][1]][of[p][2]]
                            /\ \A p, q \in DOMAIN of :
                                  p < q /\ of[p][1] = of[q][1] => of[p][2] < of[q][2]
                            /\ \A a \in Accepted : \E p \in DOMAIN of : of[p] = a
    BY DEF AppendsSurvive
  <2>1. OnlyAppends
    BY DEF OnlyAppends, Appends, Is
  <2>2. IsPrefixOf(Initial, file)
    BY <2>1, RequestFacts, StartsIsPrefix DEF AppendInv, TypeInv, Typed
  <2>3. PICK of \in [Len(Initial) + 1..Len(file) -> Accepted] : Owned(of)
    BY <2>1 DEF AppendInv
  <2> QED
    BY <2>2, <2>3, SMTT(30) DEF Owned
<1> QED
  BY <1>1, <1>2, InitTypes, TypeStep, AppendStep, PTL DEF Spec
-----------------------------------------------------------------------------
\* What a write at a position does, piece by piece.
Put(f, i, piece, g) ==
    /\ Len(g) >= Len(f) /\ Len(g) >= i
    /\ i <= Len(f) => Len(g) = Len(f)
    /\ i = Len(f) + 1 => Len(g) = Len(f) + 1
    /\ g[i] = piece
    /\ \A k \in 1..Len(f) : k # i => g[k] = f[k]
    /\ \A k \in 1..Len(g) : k > Len(f) /\ k # i => g[k] = Hole

\* Writing a piece at a place puts it there, and a hole before it when the file is shorter.
LEMMA WriteAtPuts ==
  ASSUME NEW T, NEW f \in Seq(T), NEW i \in Nat \ {0}, NEW piece \in T, Hole \in T
  PROVE  Put(f, i, piece, WriteAt(f, i, piece))
<1> DEFINE g == WriteAt(f, i, piece)
<1>a. PICK n : n = IF i > Len(f) THEN i ELSE Len(f)
  OBVIOUS
<1>1. n \in Nat /\ Len(f) \in Nat /\ n >= i /\ n >= Len(f)
  BY <1>a, LenProperties
<1>2. g = [k \in 1..n |-> IF k = i THEN piece ELSE IF k <= Len(f) THEN f[k] ELSE Hole]
  BY <1>a DEF WriteAt
<1>3. g \in Seq(T)
  BY WriteAtType
<1>4. DOMAIN g = 1..n /\ DOMAIN g = 1..Len(g) /\ Len(g) \in Nat
  <2>1. DOMAIN g = 1..n
    BY <1>2
  <2>2. DOMAIN g = 1..Len(g) /\ Len(g) \in Nat
    <3> HIDE DEF g
    <3> QED
      BY <1>3, LenProperties
  <2> QED
    BY <2>1, <2>2
<1> HIDE DEF g
<1>5. Len(g) = n
  BY <1>1, <1>4
<1>6. i \in 1..n /\ \A k \in 1..Len(f) : k \in 1..n
  BY <1>1
<1>7. g[i] = piece /\ \A k \in 1..Len(f) : k # i => g[k] = f[k]
  BY <1>1, <1>2, <1>6
<1>8. \A k \in 1..n : k > Len(f) /\ k # i => g[k] = Hole
  BY <1>1, <1>2
<1>9. Put(f, i, piece, g)
  BY <1>1, <1>a, <1>5, <1>7, <1>8 DEF Put
<1> QED
  BY <1>9 DEF g

-----------------------------------------------------------------------------
\* A patch has written the first w pieces of N; another call may have truncated the
\* file when it had j of them, and have written its own first e pieces: behind these
\* there are holes up to j, and from there on what the patch wrote.
Kept(f, N, w, e, j) ==
    /\ j <= w /\ j < Len(N) /\ (w > j => Len(f) >= w)
    /\ \A k \in e + 1..w : k > j => f[k] = N[k]
    /\ \A k \in e + 1..w : k <= j /\ k <= Len(f) => f[k] = Hole

\* Why a verification that has matched t pieces of N will not end well: the file is
\* too long; a piece ahead is wrong for good; or a hole ahead waits for the other call,
\* and all that is matched is there for good.
Doubt(f, N, t, e, j) ==
    \/ Len(f) > Len(N)
    \/ \E b \in t + 1..e : b <= Len(N) /\ f[b] # N[b]
    \/ e < j /\ t <= e /\ \A k \in 1..t : f[k] = N[k]

\* The patch writes its next piece.
LEMMA KeptOwn ==
  ASSUME NEW T, NEW f \in Seq(T), NEW g \in Seq(T), NEW N \in Seq(T),
         NEW w \in Nat, NEW e \in Nat, NEW j \in Nat,
         Kept(f, N, w, e, j), Put(f, w + 1, N[w + 1], g)
  PROVE  Kept(g, N, w + 1, e, j)
<1>0. Len(f) \in Nat /\ Len(g) \in Nat /\ Len(N) \in Nat
  BY LenProperties
<1>1. ASSUME NEW k \in e + 1..w + 1, k > j PROVE g[k] = N[k]
  <2>1. CASE k = w + 1
    BY <2>1 DEF Put
  <2>2. CASE k # w + 1
    <3>1. k \in e + 1..w /\ k \in 1..Len(f)
      BY <1>0, <1>1, <2>2 DEF Kept
    <3> QED
      BY <1>1, <2>2, <3>1 DEF Kept, Put
  <2> QED
    BY <2>1, <2>2
<1>2. ASSUME NEW k \in e + 1..w + 1, k <= j, k <= Len(g) PROVE g[k] = Hole
  <2>1. k \in e + 1..w /\ k \in 1..Len(g) /\ k # w + 1 /\ (k <= Len(f) => k \in 1..Len(f))
    BY <1>0, <1>2 DEF Kept
  <2>2. CASE k <= Len(f)
    BY <1>2, <2>1, <2>2 DEF Kept, Put
  <2>3. CASE k > Len(f)
    BY <2>1, <2>3 DEF Put
  <2> QED
    BY <1>0, <2>1, <2>2, <2>3
<1>3. j <= w + 1 /\ j < Len(N) /\ Len(g) >= w + 1
  BY <1>0 DEF Kept, Put
<1> QED
  BY <1>1, <1>2, <1>3 DEF Kept

\* The other call writes its next piece.
LEMMA KeptOther ==
  ASSUME NEW T, NEW f \in Seq(T), NEW g \in Seq(T), NEW N \in Seq(T), NEW piece,
         NEW w \in Nat, NEW e \in Nat, NEW j \in Nat,
         Kept(f, N, w, e, j), Put(f, e + 1, piece, g)
  PROVE  Kept(g, N, w, e + 1, j)
<1>0. Len(f) \in Nat /\ Len(g) \in Nat /\ Len(N) \in Nat /\ Len(f) <= Len(g)
  BY LenProperties DEF Put
<1>1. ASSUME NEW k \in e + 1 + 1..w, k > j PROVE g[k] = N[k]
  <2>1. k \in e + 1..w /\ k \in 1..Len(f) /\ k # e + 1
    BY <1>0, <1>1 DEF Kept
  <2> QED
    BY <1>1, <2>1 DEF Kept, Put
<1>2. ASSUME NEW k \in e + 1 + 1..w, k <= j, k <= Len(g) PROVE g[k] = Hole
  <2>1. k \in e + 1..w /\ k \in 1..Len(g) /\ k # e + 1 /\ (k <= Len(f) => k \in 1..Len(f))
    BY <1>0, <1>2
  <2>2. CASE k <= Len(f)
    BY <1>2, <2>1, <2>2 DEF Kept, Put
  <2>3. CASE k > Len(f)
    BY <2>1, <2>3 DEF Put
  <2> QED
    BY <1>0, <2>1, <2>2, <2>3
<1>3. j <= w /\ j < Len(N) /\ (w > j => Len(g) >= w)
  BY <1>0 DEF Kept
<1> QED
  BY <1>1, <1>2, <1>3 DEF Kept

\* A piece is appended.
LEMMA KeptLonger ==
  ASSUME NEW T, NEW f \in Seq(T), NEW g \in Seq(T), NEW N \in Seq(T),
         NEW w \in Nat, NEW e \in Nat, Kept(f, N, w, e, 0), Starts(f, g)
  PROVE  Kept(g, N, w, e, 0)
<1>0. Len(f) \in Nat /\ Len(g) \in Nat /\ Len(N) \in Nat /\ Len(f) <= Len(g)
  BY LenProperties DEF Starts
<1>1. ASSUME NEW k \in e + 1..w PROVE g[k] = N[k] /\ k > 0
  <2>1. k \in 1..Len(f) /\ k > 0
    BY <1>0, <1>1 DEF Kept
  <2> QED
    BY <2>1 DEF Kept, Starts
<1>2. 0 < Len(N) /\ (w > 0 => Len(g) >= w)
  BY <1>0 DEF Kept
<1>3. \A k \in e + 1..w : ~(k <= 0)
  OBVIOUS
<1> QED
  BY <1>1, <1>2, <1>3 DEF Kept

\* The patch has written all and the file is not its text: there is a reason.
LEMMA DoubtStart ==
  ASSUME NEW T, NEW f \in Seq(T), NEW N \in Seq(T), NEW e \in Nat, NEW j \in Nat,
         Kept(f, N, Len(N), e, j), f # N
  PROVE  Doubt(f, N, 0, e, j)
<1>0. Len(f) \in Nat /\ Len(N) \in Nat /\ Len(f) >= Len(N)
  BY LenProperties DEF Kept
<1>1. CASE Len(f) > Len(N)
  BY <1>1 DEF Doubt
<1>2. CASE Len(f) = Len(N)
  <2>1. PICK k \in 1..Len(N) : f[k] # N[k]
    BY <1>2, SeqEqual
  <2>2. CASE k <= e
    <3>1. k \in 0 + 1..e /\ k <= Len(N)
      BY <1>0, <2>2
    <3> QED
      BY <2>1, <3>1 DEF Doubt
  <2>3. CASE k > e
    <3>1. k \in e + 1..Len(N) /\ k <= j
      BY <1>0, <2>1, <2>3 DEF Kept
    <3>2. e < j /\ 0 <= e
      BY <3>1, <2>3
    <3>3. \A i \in 1..0 : f[i] = N[i]
      OBVIOUS
    <3> QED
      BY <3>2, <3>3 DEF Doubt
  <2> QED
    BY <1>0, <2>2, <2>3
<1> QED
  BY <1>0, <1>1, <1>2

\* The other call writes on, and the file is still not the text.
LEMMA DoubtOther ==
  ASSUME NEW T, NEW f \in Seq(T), NEW g \in Seq(T), NEW N \in Seq(T), NEW piece,
         NEW t \in Nat, NEW e \in Nat, NEW j \in Nat,
         Kept(f, N, Len(N), e, j), Doubt(f, N, t, e, j),
         Put(f, e + 1, piece, g), g # N
  PROVE  Doubt(g, N, t, e + 1, j)
<1>0. /\ Len(f) \in Nat /\ Len(g) \in Nat /\ Len(N) \in Nat
      /\ Len(f) >= Len(N) /\ Len(f) <= Len(g)
  BY LenProperties DEF Kept, Put
<1>1. CASE Len(g) > Len(N)
  BY <1>1 DEF Doubt
<1>2. CASE Len(g) = Len(N)
  <2>0. Len(f) = Len(N)
    BY <1>0, <1>2
  <2>1. ASSUME NEW b \in t + 1..e, b <= Len(N), f[b] # N[b] PROVE Doubt(g, N, t, e + 1, j)
    <3>1. b \in t + 1..e + 1 /\ b \in 1..Len(f) /\ b # e + 1
      BY <1>0, <2>1
    <3>2. g[b] # N[b]
      BY <2>1, <3>1 DEF Put
    <3> QED
      BY <2>1, <3>1, <3>2 DEF Doubt
  <2>2. ASSUME e < j, t <= e, \A k \in 1..t : f[k] = N[k] PROVE Doubt(g, N, t, e + 1, j)
    <3>1. \A k \in 1..t : g[k] = N[k]
      <4>1. \A k \in 1..t : k \in 1..Len(f) /\ k # e + 1
        BY <1>0, <2>2 DEF Kept
      <4> QED
        BY <2>2, <4>1 DEF Put
    <3>2. CASE e + 1 < j
      BY <2>2, <3>1, <3>2 DEF Doubt
    <3>3. CASE e + 1 = j
      <4>1. PICK k \in 1..Len(N) : g[k] # N[k]
        BY <1>2, SeqEqual
      <4>2. k <= e + 1
        <5> SUFFICES ASSUME k > e + 1 PROVE FALSE
          OBVIOUS
        <5>1. k \in e + 1..Len(N) /\ k > j /\ k \in 1..Len(f) /\ k # e + 1
          BY <1>0, <3>3
        <5>2. f[k] = N[k]
          BY <5>1 DEF Kept
        <5>3. g[k] = f[k]
          BY <5>1 DEF Put
        <5> QED
          BY <4>1, <5>2, <5>3
      <4>3. k > t
        BY <3>1, <4>1
      <4>4. k \in t + 1..e + 1 /\ k <= Len(N)
        BY <1>0, <4>2, <4>3
      <4> QED
        BY <4>1, <4>4 DEF Doubt
    <3> QED
      BY <2>2, <3>2, <3>3
  <2> QED
    BY <2>0, <1>0, <2>1, <2>2 DEF Doubt
<1> QED
  BY <1>0, <1>1, <1>2

\* A piece is appended.
LEMMA DoubtLonger ==
  ASSUME NEW T, NEW f \in Seq(T), NEW g \in Seq(T), NEW N \in Seq(T),
         NEW t \in Nat, NEW e \in Nat,
         Kept(f, N, Len(N), e, 0), Doubt(f, N, t, e, 0), Starts(f, g)
  PROVE  Doubt(g, N, t, e, 0)
<1>0. Len(f) \in Nat /\ Len(g) \in Nat /\ Len(N) \in Nat /\ Len(f) <= Len(g) /\ Len(N) <= Len(f)
  BY LenProperties DEF Starts, Kept
<1>1. CASE Len(f) > Len(N)
  BY <1>0, <1>1 DEF Doubt
<1>2. ASSUME NEW b \in t + 1..e, b <= Len(N), f[b] # N[b] PROVE Doubt(g, N, t, e, 0)
  <2>1. b \in 1..Len(f)
    BY <1>0, <1>2
  <2> QED
    BY <1>2, <2>1 DEF Doubt, Starts
<1>3. ~(e < 0)
  OBVIOUS
<1> QED
  BY <1>1, <1>2, <1>3 DEF Doubt

\* The verification matches one piece more: it was not the one in doubt.
LEMMA DoubtRead ==
  ASSUME NEW T, NEW f \in Seq(T), NEW N \in Seq(T),
         NEW t \in Nat, NEW e \in Nat, NEW j \in Nat,
         Kept(f, N, Len(N), e, j), Doubt(f, N, t, e, j),
         t + 1 <= Len(f), t + 1 <= Len(N), f[t + 1] = N[t + 1], N[t + 1] # Hole
  PROVE  Doubt(f, N, t + 1, e, j)
<1>0. Len(f) \in Nat /\ Len(N) \in Nat
  BY LenProperties
<1>1. CASE Len(f) > Len(N)
  BY <1>1 DEF Doubt
<1>2. ASSUME NEW b \in t + 1..e, b <= Len(N), f[b] # N[b] PROVE Doubt(f, N, t + 1, e, j)
  <2>1. b \in t + 1 + 1..e
    BY <1>2
  <2> QED
    BY <1>2, <2>1 DEF Doubt
<1>3. ASSUME e < j, t <= e, \A k \in 1..t : f[k] = N[k] PROVE Doubt(f, N, t + 1, e, j)
  <2>1. t # e
    <3> SUFFICES ASSUME t = e PROVE FALSE
      OBVIOUS
    <3>1. t + 1 \in e + 1..Len(N) /\ t + 1 <= j
      BY <1>0, <1>3
    <3> QED
      BY <3>1 DEF Kept
  <2>2. t + 1 <= e
    BY <1>3, <2>1
  <2>3. \A k \in 1..t + 1 : k \in 1..t \/ k = t + 1
    OBVIOUS
  <2>4. \A k \in 1..t + 1 : f[k] = N[k]
    BY <1>3, <2>3
  <2> QED
    BY <1>3, <2>2, <2>4 DEF Doubt
<1> QED
  BY <1>1, <1>2, <1>3 DEF Doubt

\* It has matched all, and the file goes on.
LEMMA DoubtEnd ==
  ASSUME NEW T, NEW f \in Seq(T), NEW N \in Seq(T), NEW e \in Nat, NEW j \in Nat,
         Kept(f, N, Len(N), e, j), Doubt(f, N, Len(N), e, j)
  PROVE  Len(f) > Len(N)
<1>0. Len(f) \in Nat /\ Len(N) \in Nat
  BY LenProperties
<1>1. \A b \in Len(N) + 1..e : ~(b <= Len(N))
  BY <1>0
<1>2. ~(e < j /\ Len(N) <= e)
  BY <1>0 DEF Kept
<1> QED
  BY <1>1, <1>2 DEF Doubt

\* The calls that truncate, and a patch that is beside what VerifiedMeansHeld allows.
Rewrites(d) == ~Is(d, "read") /\ ~Appends(d)
Beside(c) ==
    /\ \A i \in DOMAIN new[c] : new[c][i] # Hole
    /\ \A d, e \in Calls \ {c} :
          ~Is(d, "read") /\ ~Is(e, "read") => d = e \/ (Appends(d) /\ Appends(e))
Unopened == {"start", "reading", "edit", "open"}
Opened == {"writing", "verify", "verifying"}
Wrote(c) == IF pc[c] = "writing" THEN pos[c] - 1 ELSE Len(new[c])
\* e and j of Kept, for the calls beside c.
Links(c, e, j) ==
    /\ \A d \in Calls \ {c} : Rewrites(d) =>
          /\ pc[d] = "writing" => e = pos[d] - 1
          /\ pc[d] \in Unopened => e = 0 /\ j = 0 /\ Len(file) = Wrote(c)
    /\ (\A d \in Calls \ {c} : ~Rewrites(d)) => j = 0
Doubtful(c, e, j) ==
    pc[c] = "verifying" /\ Starts(text[c], new[c]) =>
        Doubt(file, new[c], Len(text[c]), e, j)
Watched(c) == \E e, j \in Nat : /\ Kept(file, new[c], Wrote(c), e, j)
                                /\ Links(c, e, j) /\ Doubtful(c, e, j)
\* What is known of a patch whose text was not on disk yet, and alone, since it opened
\* the file.
WatchOK(c) ==
    /\ result[c] = "ok" /\ "verification" \notin bad[c] => held[c]
    /\ pc[c] \in Opened /\ ~held[c] => file # new[c] /\ Watched(c)
WatchInv ==
    \A c \in Calls : Is(c, "patch") =>
        /\ result[c] = "ok" => pc[c] = "done"
        /\ Beside(c) => WatchOK(c)

\* A call that rewrites the file truncates it, writes a piece, or leaves it alone.
Truncates(s) ==
    /\ pc[s] = "open" /\ pc'[s] = "writing" /\ pos'[s] = 1 /\ file' = <<>>
    /\ UNCHANGED <<size, text, new, result>>
Writes(s) ==
    /\ pc[s] = "writing" /\ pc'[s] = "writing" /\ pos'[s] = pos[s] + 1
    /\ pos[s] \in 1..Len(new[s])
    /\ Put(file, pos[s], new[s][pos[s]], file')
    /\ UNCHANGED <<size, text, new, result>>
Rests(s) ==
    /\ file' = file /\ pc'[s] # "writing"
    /\ pc'[s] \in Unopened => pc[s] \in Unopened

\* What a step of a call that rewrites the file does to it.
LEMMA RewriterForms ==
  ASSUME TypeInv, NEW s \in Calls, Step(s), Rewrites(s)
  PROVE  Truncates(s) \/ Writes(s) \/ Rests(s)
<1>0. /\ Typed /\ ~Is(s, "read") /\ ~Appends(s) /\ Hole \in Pieces
      /\ file \in Seq(Pieces) /\ new[s] \in Seq(Pieces) /\ pos[s] \in Nat \ {0}
  BY RequestFacts DEF Rewrites, TypeInv, Typed
<1>1. CASE OpenToWrite(s)
  BY <1>0, <1>1 DEF OpenToWrite, Goto, Return, Typed, Truncates, Rests, Unopened
<1>2. CASE WritePiece(s)
  <2>1. pos[s] \in 1..Len(new[s])
    BY <1>0, <1>2, LenProperties DEF WritePiece
  <2>2. new[s][pos[s]] \in Pieces
    BY <1>0, <2>1, ElementOfSeq
  <2>3. Put(file, pos[s], new[s][pos[s]], WriteAt(file, pos[s], new[s][pos[s]]))
    BY <1>0, <2>2, WriteAtPuts
  <2> QED
    BY <1>0, <1>2, <2>1, <2>3 DEF WritePiece, Writes, Typed
<1>3. CASE PatchOpen(s) \/ WriteStart(s)
  BY <1>0, <1>3 DEF PatchOpen, WriteStart, Goto, Typed, Rests, Unopened
<1>4. CASE PatchRead(s)
  BY <1>0, <1>4 DEF PatchRead, Goto, Typed, Rests, Unopened
<1>5. CASE PatchEdit(s)
  BY <1>0, <1>5 DEF PatchEdit, Goto, Return, Typed, Rests, Unopened
<1>6. CASE WriteFails(s) \/ Written(s)
  BY <1>0, <1>6 DEF WriteFails, Written, Goto, Return, Typed, Rests, Unopened
<1>7. CASE VerifyOpen(s)
  BY <1>0, <1>7 DEF VerifyOpen, Goto, Return, Typed, Rests, Unopened
<1>8. CASE Verify(s)
  BY <1>0, <1>8 DEF Verify, Goto, Return, Typed, Rests, Unopened
<1> QED
  BY <1>0, <1>1, <1>2, <1>3, <1>4, <1>5, <1>6, <1>7, <1>8 DEF Step, ReadOpen, ReadPiece

\* Beside a patch there is one call that rewrites the file, or none.
LEMMA OneRewriter ==
  ASSUME NEW c \in Calls, Beside(c), NEW r \in Calls \ {c}, Rewrites(r)
  PROVE  \A d \in Calls \ {c} : Is(d, "read") \/ d = r
BY DEF Beside, Rewrites

\* A step of another call leaves a patch watched.
LEMMA WatchOther ==
  ASSUME TypeInv, TypeInv', NEW c \in Calls, Is(c, "patch"), Beside(c), Watched(c),
         pc[c] \in Opened, file # new[c],
         NEW s \in Calls \ {c}, Step(s), UNCHANGED request, file' # new'[c]
  PROVE  Watched(c)'
<1>0. /\ pc'[c] = pc[c] /\ text'[c] = text[c] /\ pos'[c] = pos[c] /\ new'[c] = new[c]
      /\ \A d \in Calls \ {s} : pc'[d] = pc[d] /\ pos'[d] = pos[d]
      /\ \A d : Rewrites(d)' <=> Rewrites(d)
  BY OthersStay DEF Rewrites, Appends, Is
<1>a. PICK N, w, t : N = new[c] /\ w = Wrote(c) /\ t = Len(text[c])
  OBVIOUS
<1>b. PICK e \in Nat, j \in Nat : Kept(file, N, w, e, j) /\ Links(c, e, j) /\ Doubtful(c, e, j)
  BY <1>a DEF Watched
<1>1. /\ file \in Seq(Pieces) /\ file' \in Seq(Pieces) /\ N \in Seq(Pieces) /\ t \in Nat
      /\ w \in Nat /\ (pc[c] = "verifying" => w = Len(N))
      /\ pos \in [Calls -> Nat \ {0}] /\ Len(file) \in Nat /\ Len(N) \in Nat
  <2>1. /\ file \in Seq(Pieces) /\ file' \in Seq(Pieces) /\ N \in Seq(Pieces)
        /\ text[c] \in Seq(Pieces) /\ pos \in [Calls -> Nat \ {0}] /\ pos[c] \in Nat \ {0}
    BY <1>a DEF TypeInv, Typed
  <2>2. t \in Nat /\ Len(file) \in Nat /\ Len(N) \in Nat
    BY <1>a, <2>1, LenProperties
  <2>3. w = IF pc[c] = "writing" THEN pos[c] - 1 ELSE Len(N)
    BY <1>a DEF Wrote
  <2> QED
    BY <2>1, <2>2, <2>3
<1>2. Wrote(c)' = w /\ new'[c] = N /\ Len(text'[c]) = t
  BY <1>0, <1>a DEF Wrote
<1>q. ASSUME NEW i \in Nat, NEW k \in Nat, Kept(file', N, w, i, k), Links(c, i, k)',
             pc[c] = "verifying" /\ Starts(text[c], N) => Doubt(file', N, t, i, k)
      PROVE  Watched(c)'
  <2>1. Doubtful(c, i, k)'
    BY <1>0, <1>2, <1>q DEF Doubtful
  <2> QED
    BY <1>2, <1>q, <2>1 DEF Watched
<1>d. pc[c] = "verifying" /\ Starts(text[c], N) => Doubt(file, N, t, e, j)
  BY <1>a, <1>b DEF Doubtful
<1>3. CASE Is(s, "read")
  <2>1. file' = file
    BY <1>3, ReadsLeave
  <2>2. ~Rewrites(s)
    BY <1>3 DEF Rewrites
  <2>3. Links(c, e, j)'
    BY <1>0, <1>2, <1>a, <1>b, <2>1, <2>2 DEF Links
  <2> QED
    BY <1>b, <1>d, <1>q, <2>1, <2>3
<1>4. CASE Appends(s)
  <2>1. \A d \in Calls \ {c} : ~Rewrites(d)
    BY <1>4, OneRewriter DEF Rewrites, Appends, Is
  <2>2. j = 0
    BY <1>b, <2>1 DEF Links
  <2>3. Links(c, e, 0)'
    BY <1>0, <2>1 DEF Links
  <2>4. Starts(file, file')
    BY <1>4, AppendGrows
  <2>5. Kept(file', N, w, e, 0)
    BY <1>1, <1>b, <2>2, <2>4, KeptLonger
  <2>6. pc[c] = "verifying" /\ Starts(text[c], N) => Doubt(file', N, t, e, 0)
    BY <1>1, <1>b, <1>d, <2>2, <2>4, DoubtLonger
  <2> QED
    BY <1>q, <2>3, <2>5, <2>6
<1>5. CASE Rewrites(s)
  <2>1. \A d \in Calls \ {c} : Rewrites(d) => d = s
    BY <1>5, OneRewriter DEF Rewrites
  <2>2. CASE Rests(s)
    <3>1. Links(c, e, j)'
      BY <1>0, <1>2, <1>5, <1>a, <1>b, <2>1, <2>2 DEF Links, Rests
    <3> QED
      BY <1>b, <1>d, <1>q, <2>2, <3>1 DEF Rests
  <2>3. CASE Writes(s)
    <3>1. pos[s] = e + 1 /\ pos'[s] = e + 1 + 1 /\ pc'[s] = "writing"
      BY <1>1, <1>5, <1>b, <2>3, SMTT(30) DEF Links, Writes
    <3>2. Put(file, e + 1, new[s][e + 1], file')
      BY <2>3, <3>1 DEF Writes
    <3>3. Kept(file', N, w, e + 1, j)
      BY <1>1, <1>b, <3>2, KeptOther
    <3>4. Links(c, e + 1, j)'
      BY <1>0, <1>5, <2>1, <3>1 DEF Links, Unopened
    <3>5. pc[c] = "verifying" /\ Starts(text[c], N) => Doubt(file', N, t, e + 1, j)
      BY <1>1, <1>2, <1>b, <1>d, <3>2, DoubtOther
    <3> QED
      BY <1>q, <3>3, <3>4, <3>5
  <2>4. CASE Truncates(s)
    <3>1. e = 0 /\ j = 0 /\ Len(file) = w
      BY <1>5, <1>a, <1>b, <2>4 DEF Links, Truncates, Unopened
    <3>2. w < Len(N)
      <4>1. w <= Len(N)
        BY <1>1, <1>a DEF TypeInv, CallOK, Wrote
      <4>2. CASE w = Len(N)
        <5>1. \A k \in 1..Len(N) : file[k] = N[k]
          <6>1. \A k \in 1..Len(N) : k \in e + 1..w /\ k > j
            BY <1>1, <3>1, <4>2
          <6> QED
            BY <1>b, <6>1 DEF Kept
        <5> QED
          BY <1>1, <1>a, <3>1, <4>2, <5>1, SeqEqual
      <4> QED
        BY <1>1, <4>1, <4>2
    <3>3. pc[c] # "verifying"
      BY <1>1, <3>2
    <3>4. file' = <<>> /\ Len(<<>>) = 0
      BY <2>4, EmptySeq DEF Truncates
    <3>5. Kept(file', N, w, 0, w)
      <4>1. \A k \in 0 + 1..w : ~(k > w) /\ ~(k <= 0)
        BY <1>1
      <4> QED
        BY <1>1, <3>2, <3>4, <4>1 DEF Kept
    <3>6. Links(c, 0, w)'
      BY <1>0, <1>5, <2>1, <2>4 DEF Links, Truncates, Unopened
    <3> QED
      BY <1>1, <1>q, <3>3, <3>5, <3>6
  <2> QED
    BY <1>5, <2>2, <2>3, <2>4, RewriterForms
<1> QED
  BY <1>3, <1>4, <1>5 DEF Rewrites

\* A patch is watched from its opening on, as it writes, and to its verification.
LEMMA WatchOpen ==
  ASSUME TypeInv, NEW c \in Calls, Is(c, "patch"), Beside(c), Truncates(c),
         UNCHANGED request, file' # new'[c],
         \A d \in Calls \ {c} : pc'[d] = pc[d] /\ pos'[d] = pos[d]
  PROVE  Watched(c)'
<1>0. /\ new[c] \in Seq(Pieces) /\ pos \in [Calls -> Nat \ {0}] /\ Len(<<>>) = 0
      /\ file' = <<>> /\ new'[c] = new[c] /\ Wrote(c)' = 0 /\ Len(new[c]) \in Nat
      /\ \A d : Rewrites(d)' <=> Rewrites(d)
  BY EmptySeq, LenProperties DEF TypeInv, Typed, Truncates, Wrote, Rewrites, Appends, Is
<1>1. PICK e \in Nat : \A d \in Calls \ {c} : Rewrites(d) =>
          /\ pc[d] = "writing" => e = pos[d] - 1
          /\ pc[d] \in Unopened => e = 0
  <2>1. CASE \A d \in Calls \ {c} : ~Rewrites(d)
    BY <2>1
  <2>2. ASSUME NEW r \in Calls \ {c}, Rewrites(r)
        PROVE  \E e \in Nat : \A d \in Calls \ {c} : Rewrites(d) =>
                  /\ pc[d] = "writing" => e = pos[d] - 1
                  /\ pc[d] \in Unopened => e = 0
    <3>1. \A d \in Calls \ {c} : Rewrites(d) => d = r
      BY <2>2, OneRewriter DEF Rewrites
    <3>2. pos[r] - 1 \in Nat
      BY <1>0
    <3>3. CASE pc[r] = "writing"
      BY <3>1, <3>2, <3>3 DEF Unopened
    <3>4. CASE pc[r] # "writing"
      BY <3>1, <3>4
    <3> QED
      BY <3>3, <3>4
  <2> QED
    BY <2>1, <2>2
<1>2. 0 < Len(new[c])
  <2>1. Len(new[c]) # 0
    BY <1>0, EmptySeq
  <2> QED
    BY <1>0, <2>1
<1>3. Kept(<<>>, new[c], 0, e, 0)
  <2>1. \A k : k \notin e + 1..0
    OBVIOUS
  <2> QED
    BY <1>0, <1>2, <2>1 DEF Kept
<1>4. Links(c, e, 0)'
  BY <1>0, <1>1 DEF Links
<1>5. Doubtful(c, e, 0)'
  BY DEF Doubtful, Truncates
<1> QED
  BY <1>0, <1>3, <1>4, <1>5 DEF Watched

\* A patch that writes its next piece stays watched.
LEMMA WatchWrite ==
  ASSUME TypeInv, TypeInv', NEW c \in Calls, Is(c, "patch"), Watched(c), Writes(c),
         UNCHANGED request,
         \A d \in Calls \ {c} : pc'[d] = pc[d] /\ pos'[d] = pos[d]
  PROVE  Watched(c)'
<1>a. PICK N, w : N = new[c] /\ w = pos[c] - 1
  OBVIOUS
<1>0. /\ file \in Seq(Pieces) /\ file' \in Seq(Pieces) /\ N \in Seq(Pieces) /\ w \in Nat
      /\ pos[c] = w + 1 /\ Wrote(c) = w /\ Wrote(c)' = w + 1 /\ new'[c] = N
      /\ \A d : Rewrites(d)' <=> Rewrites(d)
      /\ Len(file) \in Nat /\ Len(file') \in Nat
  BY <1>a, LenProperties, SMTT(30) DEF TypeInv, Typed, Writes, Wrote, Rewrites, Appends, Is
<1>1. PICK e \in Nat, j \in Nat : Kept(file, N, w, e, j) /\ Links(c, e, j)
  BY <1>a, <1>0 DEF Watched
<1>2. Put(file, w + 1, N[w + 1], file')
  BY <1>a, <1>0 DEF Writes
<1>3. Kept(file', N, w + 1, e, j)
  BY <1>0, <1>1, <1>2, KeptOwn
<1>4. Links(c, e, j)'
  BY <1>0, <1>1, <1>2 DEF Links, Put
<1>5. Doubtful(c, e, j)'
  BY DEF Doubtful, Writes
<1> QED
  BY <1>0, <1>3, <1>4, <1>5 DEF Watched

\* So does one that reads back a file that is not its text, unless it finds it so.
LEMMA WatchVerify ==
  ASSUME TypeInv, TypeInv', NEW c \in Calls, Is(c, "patch"), Beside(c), Watched(c),
         pc[c] \in Opened, file # new[c], UNCHANGED <<request, file>>,
         Written(c) \/ VerifyOpen(c) \/ Verify(c),
         \A d \in Calls \ {c} : pc'[d] = pc[d] /\ pos'[d] = pos[d]
  PROVE  /\ pc'[c] \in Opened => Watched(c)'
         /\ result'[c] = "ok" /\ "verification" \notin bad'[c] => result[c] = "ok"
<1>a. PICK N, t : N = new[c] /\ t = Len(text[c])
  OBVIOUS
<1>0. /\ file \in Seq(Pieces) /\ N \in Seq(Pieces) /\ text[c] \in Seq(Pieces) /\ t \in Nat
      /\ Len(N) \in Nat /\ Len(file) \in Nat /\ new' = new /\ new'[c] = N
      /\ text'[c] \in Seq(Pieces) /\ Len(text'[c]) \in Nat /\ Typed /\ CallOK(c)
      /\ \A d : Rewrites(d)' <=> Rewrites(d)
      /\ DOMAIN N = 1..Len(N)
  BY <1>a, LenProperties DEF TypeInv, Typed, Written, VerifyOpen, Verify, Rewrites, Appends, Is
<1>1. PICK e \in Nat, j \in Nat :
          Kept(file, N, Wrote(c), e, j) /\ Links(c, e, j) /\ Doubtful(c, e, j)
  BY <1>a DEF Watched
<1>2. Wrote(c) = Len(N)
  BY <1>0, <1>a DEF Wrote, Written, VerifyOpen, Verify, Typed, CallOK
<1>3. pc'[c] # "writing" /\ Wrote(c)' = Len(N)
  BY <1>0 DEF Wrote, Written, VerifyOpen, Verify, Goto, Return, Typed
<1>4. Links(c, e, j)'
  BY <1>0, <1>1, <1>2, <1>3 DEF Links
<1>5. CASE Written(c)
  <2>1. pc'[c] = "verify" /\ result' = result
    BY <1>0, <1>5 DEF Written, Goto, Typed
  <2> QED
    BY <1>0, <1>1, <1>2, <1>3, <1>4, <2>1 DEF Watched, Doubtful
<1>6. CASE VerifyOpen(c)
  <2>1. CASE pc'[c] = "verifying"
    <3>1. text'[c] = <<>> /\ result' = result /\ Len(<<>>) = 0
      BY <1>0, <1>6, <2>1, EmptySeq DEF VerifyOpen, Goto, Return, Typed
    <3>2. Doubt(file, N, 0, e, j)
      BY <1>0, <1>1, <1>2, <1>a, DoubtStart
    <3>3. Doubtful(c, e, j)'
      BY <1>0, <3>1, <3>2 DEF Doubtful
    <3> QED
      BY <1>0, <1>1, <1>2, <1>3, <1>4, <3>1, <3>3 DEF Watched
  <2>2. CASE pc'[c] # "verifying"
    BY <1>0, <1>6, <2>2 DEF VerifyOpen, Goto, Return, Typed, Opened
  <2> QED
    BY <2>1, <2>2
<1>7. CASE Verify(c)
  <2>0. pc[c] = "verifying" /\ pos[c] = t + 1
    BY <1>0, <1>7, <1>a DEF Verify, CallOK, Offset, Is
  <2>b. Breaks(c, "verification") => "verification" \in bad'[c]
    BY DEF Breaks, TypeInv
  <2>1. CASE ~(TakePiece(c) /\ ~AtEnd(c) /\ UNCHANGED <<pc, result>>)
    <3>1. /\ pc'[c] = "done" /\ (result'[c] = "ok" => text[c] = N)
          /\ AtEnd(c) \/ Breaks(c, "verification")
      BY <1>0, <1>7, <1>a, <2>1 DEF Verify, Goto, Return, Typed
    <3>2. ASSUME text[c] = N, AtEnd(c) PROVE FALSE
      <4>1. Starts(text[c], N) /\ t = Len(N)
        BY <1>0, <1>a, <3>2 DEF Starts
      <4>2. Len(file) > Len(N)
        BY <1>0, <1>1, <1>2, <1>a, <2>0, <4>1, DoubtEnd DEF Doubtful
      <4> QED
        BY <1>0, <2>0, <3>2, <4>1, <4>2 DEF AtEnd
    <3> QED
      BY <2>b, <3>1, <3>2 DEF Opened
  <2>2. CASE TakePiece(c) /\ ~AtEnd(c) /\ UNCHANGED <<pc, result>>
    <3>1. TakePiece(c) /\ UNCHANGED <<pc, result>> /\ t + 1 <= Len(file)
      BY <1>0, <2>0, <2>2 DEF AtEnd
    <3>2. /\ Len(text'[c]) = t + 1 /\ text'[c][t + 1] = file[t + 1]
          /\ \A i \in 1..t : text'[c][i] = text[c][i]
      BY <1>a, <2>0, <2>2, <3>1, TakeTypes
    <3>3. ASSUME Starts(text'[c], N) PROVE Doubt(file, N, t + 1, e, j)
      <4>1. t + 1 <= Len(N) /\ t + 1 \in 1..t + 1 /\ \A i \in 1..t : i \in 1..t + 1
        BY <1>0, <3>2, <3>3 DEF Starts
      <4>2. file[t + 1] = N[t + 1] /\ Starts(text[c], N)
        BY <1>0, <1>a, <3>2, <3>3, <4>1, SMTT(30) DEF Starts
      <4>3. N[t + 1] # Hole
        BY <1>0, <1>a, <4>1 DEF Beside
      <4>4. Doubt(file, N, t, e, j)
        BY <1>1, <1>a, <2>0, <4>2 DEF Doubtful
      <4> QED
        BY <1>0, <1>1, <1>2, <3>1, <4>1, <4>2, <4>3, <4>4, DoubtRead
    <3>4. Doubtful(c, e, j)'
      BY <1>0, <3>2, <3>3 DEF Doubtful
    <3> QED
      BY <1>0, <1>1, <1>2, <1>3, <1>4, <3>1, <3>4 DEF Watched
  <2> QED
    BY <2>1, <2>2
<1> QED
  BY <1>5, <1>6, <1>7

\* What is known of the patches stays so.
LEMMA WatchStep ==
  ASSUME TypeInv, WatchInv, [Next]_vars
  PROVE  WatchInv'
<1>t. TypeInv'
  BY TypeStep
<1>1. CASE UNCHANGED vars
  <2> SUFFICES ASSUME NEW c \in Calls, Is(c, "patch")'
               PROVE  (/\ result[c] = "ok" => pc[c] = "done"
                       /\ Beside(c) => WatchOK(c))'
    BY DEF WatchInv
  <2>1. /\ Is(c, "patch") /\ Beside(c)' = Beside(c) /\ \A d : Rewrites(d)' = Rewrites(d)
        /\ UNCHANGED <<file, pc, pos, text, new, bad, result, held>>
    BY <1>1 DEF vars, Is, Beside, Appends, Rewrites
  <2>2. \A e, j : Links(c, e, j)' = Links(c, e, j) /\ Doubtful(c, e, j)' = Doubtful(c, e, j)
    BY <2>1 DEF Links, Doubtful, Wrote
  <2>3. Watched(c)' = Watched(c)
    BY <2>1, <2>2 DEF Watched, Wrote
  <2> QED
    BY <2>1, <2>3 DEF WatchInv, WatchOK
<1>2. ASSUME NEW s \in Calls, Step(s), Observe, request' = request,
             NEW c \in Calls, Is(c, "patch")
      PROVE  /\ result'[c] = "ok" => pc'[c] = "done"
             /\ Beside(c)' => WatchOK(c)'
  <2>0. /\ held'[c] = (held[c] \/ (pc'[c] \in Opened /\ file' = new'[c]))
        /\ result[c] = "ok" => pc[c] = "done"
        /\ Beside(c) => WatchOK(c)
        /\ Typed /\ CallOK(c) /\ ~Is(c, "read") /\ ~Is(c, "write")
        /\ new'[c] = new[c] /\ Beside(c)' => Beside(c)
        /\ "verification" \in bad[c] => "verification" \in bad'[c]
    BY <1>2, BadStep DEF Observe, Opened, WatchInv, TypeInv, Is, Beside, Appends
  <2>q. ASSUME result'[c] = "ok" => result[c] = "ok", result[c] = "ok" => pc'[c] = "done",
               Beside(c)' => Beside(c),
               Beside(c) /\ pc'[c] \in Opened /\ ~held[c] /\ file' # new'[c] => Watched(c)'
        PROVE  /\ result'[c] = "ok" => pc'[c] = "done"
               /\ Beside(c)' => WatchOK(c)'
    BY <2>0, <2>q DEF WatchOK
  <2>1. CASE s # c
    <3>1. /\ pc'[c] = pc[c] /\ result'[c] = result[c] /\ new'[c] = new[c]
      BY <1>2, <2>1, OthersStay
    <3>2. ASSUME Beside(c), pc'[c] \in Opened, ~held[c], file' # new'[c] PROVE Watched(c)'
      BY <1>t, <1>2, <2>0, <2>1, <3>1, <3>2, WatchOther DEF WatchOK
    <3> QED
      BY <2>0, <2>q, <3>1, <3>2
  <2>2. CASE s = c
    <3>0. /\ Rewrites(c)
          /\ \A d \in Calls \ {c} : pc'[d] = pc[d] /\ pos'[d] = pos[d]
      BY <1>2, <2>0, <2>2, OthersStay DEF Rewrites, Appends
    <3>1. CASE PatchOpen(c) \/ PatchRead(c) \/ PatchEdit(c)
      <4>1. pc[c] # "done" /\ pc'[c] \notin Opened /\ result'[c] # "ok"
        <5>1. result[c] # "ok" /\ pc[c] # "done"
          BY <2>0, <3>1 DEF PatchOpen, PatchRead, PatchEdit
        <5>2. CASE PatchOpen(c)
          BY <2>0, <5>1, <5>2 DEF PatchOpen, Goto, Typed, Opened
        <5>3. CASE PatchRead(c)
          BY <2>0, <5>1, <5>3 DEF PatchRead, Goto, Typed, Opened
        <5>4. CASE PatchEdit(c)
          BY <2>0, <5>1, <5>4 DEF PatchEdit, Goto, Return, Typed, Opened
        <5> QED
          BY <3>1, <5>1, <5>2, <5>3, <5>4
      <4> QED
        BY <4>1 DEF WatchOK
    <3>2. CASE Truncates(c)
      <4>1. result' = result /\ new' = new /\ pc[c] # "done"
        BY <3>2 DEF Truncates
      <4>2. ASSUME Beside(c), file' # new'[c] PROVE Watched(c)'
        BY <1>2, <3>0, <3>2, <4>2, WatchOpen
      <4> QED
        BY <2>0, <2>q, <4>1, <4>2
    <3>3. CASE Writes(c)
      <4>1. result' = result /\ new' = new /\ pc[c] # "done" /\ pc[c] \in Opened
        BY <3>3 DEF Writes, Opened
      <4>2. ASSUME Beside(c), ~held[c] PROVE Watched(c)'
        BY <1>t, <1>2, <2>0, <3>0, <3>3, <4>1, <4>2, WatchWrite DEF WatchOK
      <4> QED
        BY <2>0, <2>q, <4>1, <4>2
    <3>4. CASE Written(c) \/ VerifyOpen(c) \/ Verify(c)
      <4>1. /\ new' = new /\ file' = file /\ pc[c] \in Opened /\ pc[c] # "done"
        BY <3>4 DEF Written, VerifyOpen, Verify, Opened
      <4>2. ASSUME Beside(c), ~held[c]
            PROVE  /\ pc'[c] \in Opened => Watched(c)'
                   /\ result'[c] = "ok" /\ "verification" \notin bad'[c] => result[c] = "ok"
        BY <1>t, <1>2, <2>0, <3>0, <3>4, <4>1, <4>2, WatchVerify DEF WatchOK
      <4>3. result'[c] = "ok" => pc'[c] = "done"
        <5>1. result[c] # "ok"
          BY <2>0, <4>1
        <5>2. CASE Written(c)
          BY <2>0, <5>1, <5>2 DEF Written, Return, Goto, Typed
        <5>3. CASE VerifyOpen(c)
          BY <2>0, <5>1, <5>3 DEF VerifyOpen, Return, Goto, Typed
        <5>4. CASE Verify(c)
          BY <2>0, <5>1, <5>4 DEF Verify, Return, Goto, Typed
        <5> QED
          BY <3>4, <5>2, <5>3, <5>4
      <4>4. CASE held[c]
        BY <2>0, <4>3, <4>4 DEF WatchOK
      <4>5. CASE ~held[c]
        <5> SUFFICES ASSUME Beside(c)' PROVE WatchOK(c)'
          BY <4>3
        <5>1. Beside(c)
          BY <2>0, <4>1
        <5>2. /\ ~(result'[c] = "ok" /\ "verification" \notin bad'[c])
              /\ pc'[c] \in Opened => Watched(c)'
          BY <2>0, <4>1, <4>2, <4>5, <5>1
        <5> QED
          BY <2>0, <5>2 DEF WatchOK
      <4> QED
        BY <4>4, <4>5
    <3>5. CASE OpenToWrite(c) /\ ~Truncates(c)
      <4>1. pc[c] = "open" /\ pc'[c] = "done" /\ result'[c] = "error"
        BY <2>0, <3>0, <3>5 DEF OpenToWrite, Goto, Return, Typed, Truncates, Rewrites
      <4> QED
        BY <4>1 DEF WatchOK, Opened
    <3>6. CASE WriteFails(c)
      <4>1. pc'[c] = "done" /\ result'[c] = "error"
        BY <1>2, <2>0, <3>6 DEF WriteFails, Goto, Return, Typed
      <4> QED
        BY <4>1 DEF WatchOK, Opened
    <3>7. WritePiece(c) => Writes(c)
      <4>1. WritePiece(c) => pc[c] = "writing" /\ pc' = pc
        BY DEF WritePiece
      <4>2. Rests(c) /\ WritePiece(c) => FALSE
        BY <4>1 DEF Rests
      <4>3. Truncates(c) /\ WritePiece(c) => FALSE
        BY <4>1 DEF Truncates
      <4> QED
        BY <1>2, <2>2, <3>0, <4>2, <4>3, RewriterForms
    <3> QED
      BY <1>2, <2>0, <2>2, <3>1, <3>2, <3>3, <3>4, <3>5, <3>6, <3>7
         DEF Step, WriteStart, ReadOpen, ReadPiece
  <2> QED
    BY <2>1, <2>2
<1>3. ASSUME request' = request PROVE \A c \in Calls : Is(c, "patch")' = Is(c, "patch")
  BY <1>3 DEF Is
<1>4. ASSUME NEW s \in Calls, Step(s), Observe PROVE WatchInv'
  <2>1. request' = request
    BY <1>4 DEF Step, PatchOpen, PatchRead, PatchEdit, WriteStart, OpenToWrite, WritePiece,
       WriteFails, Written, VerifyOpen, Verify, ReadOpen, ReadPiece
  <2> QED
    BY <1>2, <1>3, <1>4, <2>1 DEF WatchInv
<1> QED
  BY <1>1, <1>4 DEF Next

\* A patch that returns a result had its whole text on disk at some time, alone, beside
\* one other call that writes or any number of appends: VerifiedMeansHeld of FileRace.
THEOREM VerifiedWasHeld == Spec => []VerifiedMeansHeld
<1>1. Init => WatchInv
  BY DEF Init, WatchInv, WatchOK, Opened
<1>2. WatchInv => VerifiedMeansHeld
  <2> SUFFICES ASSUME WatchInv, NEW c \in Calls, Is(c, "patch"), result[c] = "ok",
                      "verification" \notin bad[c],
                      \A i \in DOMAIN new[c] : new[c][i] # Hole,
                      \A d, e \in Calls \ {c} : ~Is(d, "read") /\ ~Is(e, "read") =>
                          d = e \/ (Appends(d) /\ Appends(e))
               PROVE  held[c]
    BY DEF VerifiedMeansHeld
  <2>1. Beside(c)
    BY DEF Beside
  <2> QED
    BY <2>1 DEF WatchInv, WatchOK
<1> QED
  BY <1>1, <1>2, InitTypes, TypeStep, WatchStep, PTL DEF Spec
=============================================================================
