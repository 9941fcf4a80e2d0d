----------------------------- MODULE SearchProofs -----------------------------
(***************************************************************************)
(* Proofs about Search, for every tree, file, limit and context: fs_grep's *)
(* window is the context of its current line, fs_tail returns the last     *)
(* lines, no tool returns more than its limit, fs_list and fs_find return  *)
(* the first entries that qualify and fs_grep the first matching lines.    *)
(*                                                                         *)
(* The argument for the windows: every line sequence that is ever built is *)
(* a range of line numbers, and each round of a loop turns a range into a  *)
(* range.  For the answers: what an entry contributes is a sequence, and   *)
(* what a tool has found at an entry is the chain of the sequences before  *)
(* it, cut at the limit.  The iterator passes no entry that contributes,   *)
(* because what lies between two of its stops is below a directory that is *)
(* not entered.                                                            *)
(***************************************************************************)
EXTENDS Search, Integers, WellFoundedInduction, SequenceTheorems, TLAPS

-----------------------------------------------------------------------------
\* Every set of natural numbers with an element has a least one.
LEMMA LeastExists ==
  ASSUME NEW T \in SUBSET Nat, T # {}
  PROVE  \E x \in T : \A y \in T : x <= y
<1>1. PICK R : R = OpToRel(<, Nat)
  OBVIOUS
<1>2. \E x \in T : \A y \in T : <<y, x>> \notin R
  BY <1>1, NatLessThanWellFounded, WFMin
<1>3. \A x, y \in Nat : y < x => <<y, x>> \in R
  BY <1>1 DEF OpToRel
<1>4. \A x, y \in Nat : ~(y < x) => x <= y
  OBVIOUS
<1> QED
  BY <1>2, <1>3, <1>4

\* The least number of a set is one of its elements.
LEMMA LeastChosen ==
  ASSUME NEW T \in SUBSET Nat, T # {}
  PROVE  LET m == CHOOSE x \in T : \A y \in T : x <= y
         IN  m \in T /\ \A y \in T : m <= y
BY LeastExists

\* s is the sequence of the n numbers from f on.
Run(s, f, n) == s \in Seq(Nat) /\ Len(s) = n /\ \A i \in 1..n : s[i] = f + i - 1

\* A run of numbers is given by its first and its length.
LEMMA RunsEqual ==
  ASSUME NEW s, NEW u, NEW f \in Nat, NEW n \in Nat, Run(s, f, n), Run(u, f, n)
  PROVE  s = u
<1>1. /\ s \in Seq(Nat) /\ u \in Seq(Nat) /\ Len(s) = Len(u)
      /\ \A i \in 1..Len(s) : s[i] = u[i]
  BY DEF Run
<1> QED
  BY <1>1, SeqEqual

\* A range of line numbers is a run.
LEMMA RangeIsRun ==
  ASSUME NEW f \in Nat, NEW t \in Nat, NEW n \in Nat, n = t + 1 - f
  PROVE  Run(LineRange(f, t), f, n)
<1>1. (IF t < f THEN 0 ELSE t - f + 1) = n
  OBVIOUS
<1>2. LineRange(f, t) = [i \in 1..n |-> f + i - 1]
  BY <1>1, Zenon DEF LineRange
<1>3. LineRange(f, t) \in [1..n -> Nat]
  BY <1>2
<1>4. LineRange(f, t) \in Seq(Nat)
  BY <1>3, SeqDef
<1>5. Len(LineRange(f, t)) = n
  BY <1>3, <1>4, LenProperties
<1> QED
  BY <1>2, <1>4, <1>5 DEF Run

\* A range that ends before it starts is empty.
LEMMA EmptyRange ==
  ASSUME NEW f \in Nat, NEW t \in Nat, f = t + 1
  PROVE  LineRange(f, t) = <<>>
<1>1. Run(LineRange(f, t), f, 0)
  BY RangeIsRun
<1>2. Run(<<>>, f, 0)
  BY DEF Run
<1> QED
  BY <1>1, <1>2, RunsEqual

\* The next line at the end of a range makes a range.
LEMMA RangeAppend ==
  ASSUME NEW f \in Nat, NEW t \in Nat, NEW l \in Nat, f <= t + 1, l = t + 1
  PROVE  Append(LineRange(f, t), l) = LineRange(f, l)
<1> DEFINE r == LineRange(f, t)
<1>1. PICK n \in Nat : n = t + 1 - f
  OBVIOUS
<1>2. Run(r, f, n)
  BY <1>1, RangeIsRun
<1>3. Run(LineRange(f, l), f, n + 1)
  BY <1>1, RangeIsRun
<1> HIDE DEF r
<1>4. /\ Append(r, l) \in Seq(Nat) /\ Len(Append(r, l)) = n + 1
      /\ \A i \in 1..n : Append(r, l)[i] = r[i]
      /\ Append(r, l)[n + 1] = l
  BY <1>2, AppendProperties DEF Run
<1>5. Run(Append(r, l), f, n + 1)
  BY <1>1, <1>2, <1>4 DEF Run
<1>6. Append(r, l) = LineRange(f, l)
  <2>1. n + 1 \in Nat
    OBVIOUS
  <2> QED
    BY <2>1, <1>3, <1>5, RunsEqual
<1> QED
  BY <1>6 DEF r

\* Without its first line a range is a range.
LEMMA RangeTail ==
  ASSUME NEW f \in Nat, NEW t \in Nat, f <= t
  PROVE  /\ LineRange(f, t) # <<>>
         /\ Head(LineRange(f, t)) = f
         /\ Tail(LineRange(f, t)) = LineRange(f + 1, t)
<1> DEFINE r == LineRange(f, t)
<1>1. PICK n \in Nat : n = t - f
  OBVIOUS
<1>2. Run(r, f, n + 1)
  BY <1>1, RangeIsRun
<1>3. Run(LineRange(f + 1, t), f + 1, n)
  BY <1>1, RangeIsRun
<1> HIDE DEF r
<1>4. r # <<>> /\ Head(r) = f
  BY <1>2 DEF Run
<1>5. /\ Tail(r) \in Seq(Nat) /\ Len(Tail(r)) = n
      /\ \A i \in 1..n : Tail(r)[i] = r[i + 1]
  BY <1>2, <1>4, HeadTailProperties DEF Run
<1>6. Run(Tail(r), f + 1, n)
  BY <1>2, <1>5 DEF Run
<1>7. Tail(r) = LineRange(f + 1, t)
  <2>1. f + 1 \in Nat
    OBVIOUS
  <2> QED
    BY <2>1, <1>3, <1>6, RunsEqual
<1> QED
  BY <1>4, <1>7 DEF r

\* A run behind a run makes a run.
LEMMA RunsConcat ==
  ASSUME NEW s, NEW u, NEW f \in Nat, NEW n \in Nat, NEW m \in Nat,
         Run(s, f, n), Run(u, f + n, m)
  PROVE  Run(s \o u, f, n + m)
<1>1. /\ s \o u \in Seq(Nat) /\ Len(s \o u) = n + m
      /\ \A i \in 1..n + m : (s \o u)[i] = IF i <= n THEN s[i] ELSE u[i - n]
  BY ConcatProperties DEF Run
<1>2. ASSUME NEW i \in 1..n + m PROVE (s \o u)[i] = f + i - 1
  <2>1. CASE i <= n
    BY <1>1, <2>1 DEF Run
  <2>2. CASE ~(i <= n)
    <3>1. i - n \in 1..m
      BY <2>2
    <3>2. u[i - n] = f + n + (i - n) - 1
      BY <3>1 DEF Run
    <3> QED
      BY <1>1, <2>2, <3>2
  <2> QED
    BY <2>1, <2>2
<1> QED
  BY <1>1, <1>2 DEF Run

\* A line between the lines before it and those after it makes a range.
LEMMA RangeAround ==
  ASSUME NEW f \in Nat, NEW l \in Nat \ {0}, NEW t \in Nat, f <= l, l <= t
  PROVE  LineRange(f, l - 1) \o <<l>> \o LineRange(l + 1, t) = LineRange(f, t)
<1>1. PICK n \in Nat : n = l - f
  OBVIOUS
<1>2. PICK m \in Nat : m = t - l
  OBVIOUS
<1> DEFINE a == LineRange(f, l - 1)
           b == LineRange(l + 1, t)
<1>3. Run(a, f, n)
  BY <1>1, RangeIsRun
<1>4. Run(b, l + 1, m)
  BY <1>2, RangeIsRun
<1>5. Run(LineRange(f, t), f, n + 1 + m)
  BY <1>1, <1>2, RangeIsRun
<1> HIDE DEF a, b
<1>6. Run(<<l>>, f + n, 1)
  BY <1>1 DEF Run
<1>7. Run(a \o <<l>>, f, n + 1)
  BY <1>3, <1>6, RunsConcat
<1>8. f + (n + 1) = l + 1
  BY <1>1
<1>9. Run((a \o <<l>>) \o b, f, n + 1 + m)
  BY <1>4, <1>7, <1>8, RunsConcat
<1>10. (a \o <<l>>) \o b = LineRange(f, t)
  <2>1. n + 1 + m \in Nat
    OBVIOUS
  <2> QED
    BY <2>1, <1>5, <1>9, RunsEqual
<1> QED
  BY <1>10 DEF a, b

-----------------------------------------------------------------------------
\* What is returned: lines of fs_tail, entries of fs_list and fs_find, matches of
\* fs_grep.
Found == Nat \cup Seq(Nat) \cup (Nat \X Nat \X Seq(Nat))

ShapeInv ==
    /\ tree \in Trees /\ query \in Queries
    /\ phase \in {"check", "walk", "file", "done"}
    /\ at \in 1..Len(Entries) + 1
    /\ found \in Seq(Found)
    /\ truncated \in BOOLEAN /\ error \in BOOLEAN
    /\ phase = "check" => found = <<>> /\ last = 0 /\ prev = <<>>
    /\ phase = "file" => query.tool \in {"grep", "tail"}

\* The limit is reached at most, and not while fs_grep is in a file.
LimitInv ==
    /\ Len(found) <= query.limit
    /\ phase = "file" /\ query.tool = "grep" => Len(found) < query.limit

\* The three parts of the window are the ranges around the current line, and the
\* last line that was read is the last one of the window.
First(l) == IF l > query.context THEN l - query.context ELSE 1
GrepInv ==
    phase = "file" /\ query.tool = "grep" =>
        /\ at <= Len(Entries)
        /\ curr \in 1..Len(Lines)
        /\ last = Least(Len(Lines), curr + query.context)
        /\ prev = LineRange(First(curr), curr - 1)
        /\ lookahead = LineRange(curr + 1, last)

\* The deque of fs_tail is the last lines of those that were read.
Oldest(n) == IF n > query.limit THEN n - query.limit + 1 ELSE 1
TailInv ==
    query.tool = "tail" =>
        /\ phase # "walk" /\ at = 1
        /\ phase = "file" =>
              /\ tree.target = "file" /\ query.limit # 0
              /\ last \in 0..Len(Lines)
              /\ prev = LineRange(Oldest(last), last)
        /\ TailAsDefined

SearchInv == ShapeInv /\ LimitInv /\ GrepInv /\ TailInv

-----------------------------------------------------------------------------
\* What the assumptions say of the tree and the query of a call.
LEMMA InputFacts ==
  ASSUME tree \in Trees, query \in Queries
  PROVE  /\ Len(Entries) \in Nat
         /\ \A i \in 1..Len(Entries) :
               Entries[i].lines \in Seq(BOOLEAN) /\ Len(Entries[i].lines) \in Nat
         /\ tree.target # "directory" => Len(Entries) = 1
         /\ query.limit \in Nat /\ query.context \in Nat
         /\ query.tool \in {"list", "find", "grep", "tail"}
<1>1. Tree(tree) /\ Query(query)
  BY TreeAssumption, QueryAssumption
<1>2. \A i \in 1..Len(Entries) : Entry(Entries[i])
  BY <1>1 DEF Tree, Entries
<1>3. \A i \in 1..Len(Entries) :
         Entries[i].lines \in Seq(BOOLEAN) /\ Len(Entries[i].lines) \in Nat
  <2> SUFFICES ASSUME NEW i \in 1..Len(Entries)
               PROVE  Entries[i].lines \in Seq(BOOLEAN) /\ Len(Entries[i].lines) \in Nat
    OBVIOUS
  <2>1. Entries[i].lines \in Seq(BOOLEAN)
    BY <1>2 DEF Entry
  <2> QED
    BY <2>1, LenProperties
<1> QED
  BY <1>1, <1>3 DEF Tree, Query, Entries

\* The iterator only moves forward, by one entry or to one outside of the current.
LEMMA FollowingForward ==
  ASSUME ShapeInv, at <= Len(Entries), NEW descend \in BOOLEAN
  PROVE  Following(descend) \in at + 1..Len(Entries) + 1
<1> DEFINE outside == {j \in at + 1..Len(Entries) : Entries[j].depth <= Current.depth}
<1>1. at \in Nat /\ Len(Entries) \in Nat
  BY InputFacts DEF ShapeInv
<1>2. CASE descend
  BY <1>1, <1>2 DEF Following
<1>3. CASE ~descend /\ outside = {}
  BY <1>1, <1>3 DEF Following
<1>4. CASE ~descend /\ outside # {}
  <2>1. Following(descend) = CHOOSE j \in outside : \A k \in outside : j <= k
    BY <1>4, Zenon DEF Following
  <2>2. outside \in SUBSET Nat /\ outside \subseteq at + 1..Len(Entries)
    BY <1>1
  <2> HIDE DEF outside
  <2>3. Following(descend) \in outside
    BY <1>4, <2>1, <2>2, LeastChosen
  <2>4. Following(descend) \in at + 1..Len(Entries)
    BY <2>2, <2>3, Zenon
  <2> QED
    BY <1>1, <2>4
<1> QED
  BY <1>2, <1>3, <1>4

\* The next entry is later, or past the end.
LEMMA FollowingInRange ==
  ASSUME ShapeInv, at <= Len(Entries), NEW descend \in BOOLEAN
  PROVE  Following(descend) \in 1..Len(Entries) + 1
<1>1. at \in Nat /\ at >= 1 /\ Len(Entries) \in Nat
  BY InputFacts DEF ShapeInv
<1>2. Following(descend) \in at + 1..Len(Entries) + 1
  BY FollowingForward
<1> QED
  BY <1>1, <1>2

\* The walk stays within the entries, or is done.
LEMMA AdvanceForward ==
  ASSUME ShapeInv, phase = "walk", at <= Len(Entries), Advance
  PROVE  /\ at' \in 1..Len(Entries) + 1
         /\ phase' \in {"walk", "done"} /\ error' \in BOOLEAN
<1>1. at \in Nat /\ at >= 1 /\ Len(Entries) \in Nat /\ error \in BOOLEAN
  BY InputFacts DEF ShapeInv
<1>2. Following(Recursive) \in 1..Len(Entries) + 1
  <2>1. Recursive \in BOOLEAN
    BY DEF Recursive
  <2> QED
    BY <2>1, FollowingInRange
<1>3. CASE Recursive /\ Current.kind = "denied"
  BY <1>1, <1>3 DEF Advance, Throw, ShapeInv
<1>4. CASE ~(Recursive /\ Current.kind = "denied")
  BY <1>1, <1>2, <1>4 DEF Advance
<1> QED
  BY <1>3, <1>4

-----------------------------------------------------------------------------
\* The invariant holds at the start.
LEMMA InitSearch == Init => SearchInv
<1> SUFFICES ASSUME Init PROVE SearchInv
  OBVIOUS
<1>1. ShapeInv
  <2>1. at \in 1..Len(Entries) + 1
    <3>1. Len(Entries) \in Nat /\ at = 1
      BY InputFacts DEF Init
    <3> QED
      BY <3>1
  <2>2. found \in Seq(Found)
    BY EmptySeq DEF Init
  <2> QED
    BY <2>1, <2>2, Zenon DEF Init, ShapeInv
<1>2. LimitInv
  BY InputFacts DEF Init, LimitInv
<1>3. GrepInv /\ TailInv
  BY DEF Init, GrepInv, TailInv, TailAsDefined
<1> QED
  BY <1>1, <1>2, <1>3 DEF SearchInv

\* The window of fs_grep is the context of its line.
LEMMA WindowOfRanges ==
  ASSUME ShapeInv, GrepInv, phase = "file", query.tool = "grep"
  PROVE  /\ at \in Nat /\ curr \in Nat \ {0} /\ last \in Nat
         /\ First(curr) \in Nat \ {0} /\ First(curr) <= curr /\ curr <= last
         /\ last <= Len(Lines) /\ Len(Lines) \in Nat
         /\ prev \o <<curr>> \o lookahead = LineRange(First(curr), last)
         /\ prev \o <<curr>> \o lookahead \in Seq(Nat)
<1>1. /\ at \in 1..Len(Entries) /\ at \in Nat /\ query.context \in Nat
      /\ Len(Lines) \in Nat
  <2>1. at \in 1..Len(Entries) /\ at \in Nat /\ query.context \in Nat
    BY InputFacts DEF ShapeInv, GrepInv
  <2> QED
    BY <2>1, InputFacts DEF ShapeInv, Lines, Current
<1>2. /\ curr \in 1..Len(Lines) /\ last = Least(Len(Lines), curr + query.context)
      /\ prev = LineRange(First(curr), curr - 1) /\ lookahead = LineRange(curr + 1, last)
  BY DEF GrepInv
<1>3. curr \in Nat \ {0} /\ First(curr) \in Nat \ {0} /\ First(curr) <= curr
  BY <1>1, <1>2 DEF First
<1>4. last \in Nat /\ curr <= last /\ last <= Len(Lines)
  BY <1>1, <1>2 DEF Least
<1>5. prev \o <<curr>> \o lookahead = LineRange(First(curr), last)
  <2>1. LineRange(First(curr), curr - 1) \o <<curr>> \o LineRange(curr + 1, last)
          = LineRange(First(curr), last)
    BY <1>3, <1>4, RangeAround
  <2> QED
    BY <1>2, <2>1
<1>6. LineRange(First(curr), last) \in Seq(Nat)
  <2>1. PICK n \in Nat : n = last + 1 - First(curr)
    BY <1>2, <1>3, <1>4
  <2> QED
    BY <1>3, <1>4, <2>1, RangeIsRun DEF Run
<1> QED
  BY <1>1, <1>2, <1>3, <1>4, <1>5, <1>6

\* The window around the next line is what the window around a line becomes.
LEMMA WindowStep ==
  ASSUME ShapeInv, GrepInv, phase = "file", query.tool = "grep", UNCHANGED input, Slide
  PROVE  GrepInv'
<1>1. /\ at <= Len(Entries) /\ query.context \in Nat
      /\ Len(Lines) \in Nat /\ curr \in Nat \ {0} /\ last \in Nat
      /\ curr <= last /\ last <= Len(Lines)
      /\ last = Least(Len(Lines), curr + query.context)
      /\ First(curr) \in Nat \ {0} /\ First(curr) <= curr
      /\ prev = LineRange(First(curr), curr - 1)
      /\ lookahead = LineRange(curr + 1, last)
  BY WindowOfRanges, InputFacts DEF ShapeInv, GrepInv
<1>2. prev' = LineRange(First(curr + 1), curr)
  <2> DEFINE longer == Append(prev, curr)
  <2>1. longer = LineRange(First(curr), curr)
    <3>1. /\ curr - 1 \in Nat /\ curr \in Nat /\ First(curr) \in Nat
          /\ First(curr) <= (curr - 1) + 1 /\ curr = (curr - 1) + 1
      BY <1>1
    <3>2. Append(LineRange(First(curr), curr - 1), curr) = LineRange(First(curr), curr)
      BY <3>1, RangeAppend
    <3> QED
      BY <1>1, <3>2
  <2>2. Len(longer) = curr + 1 - First(curr)
    <3>1. PICK n \in Nat : n = curr + 1 - First(curr)
      BY <1>1
    <3>2. Run(LineRange(First(curr), curr), First(curr), n)
      BY <1>1, <3>1, RangeIsRun
    <3> QED
      BY <2>1, <3>1, <3>2 DEF Run
  <2>3. prev' = IF Len(longer) > query.context THEN Tail(longer) ELSE longer
    BY DEF Slide
  <2> HIDE DEF longer
  <2>4. CASE curr > query.context
    <3>1. /\ First(curr) = curr - query.context /\ First(curr + 1) = First(curr) + 1
          /\ Len(longer) > query.context
      BY <1>1, <2>2, <2>4, SMTT(30) DEF First
    <3>2. Tail(LineRange(First(curr), curr)) = LineRange(First(curr) + 1, curr)
      BY <1>1, RangeTail
    <3> QED
      BY <2>1, <2>3, <3>1, <3>2
  <2>5. CASE ~(curr > query.context)
    <3>1. First(curr) = 1 /\ First(curr + 1) = 1 /\ ~(Len(longer) > query.context)
      BY <1>1, <2>2, <2>5 DEF First
    <3> QED
      BY <2>1, <2>3, <3>1
  <2> QED
    BY <2>4, <2>5
<1> DEFINE Moved == /\ curr' = curr + 1 /\ curr + 1 <= Len(Lines)
                    /\ last' = Least(Len(Lines), curr + 1 + query.context)
                    /\ lookahead' = LineRange(curr + 2, last')
                    /\ UNCHANGED <<phase, at>>
<1>3. CASE Moved
  <2>1. at' = at /\ tree' = tree /\ query' = query /\ Len(Lines)' = Len(Lines)
        /\ Len(Entries)' = Len(Entries)
    BY <1>3 DEF input, Lines, Current, Entries
  <2>2. First(curr)' = First(curr + 1)
    BY <1>3, <2>1 DEF First
  <2>3. curr' - 1 = curr /\ curr' + 1 = curr + 2
    BY <1>1, <1>3
  <2>4. prev' = LineRange(First(curr)', curr' - 1)
    BY <1>2, <2>2, <2>3
  <2>5. lookahead' = LineRange(curr' + 1, last')
    BY <1>3, <2>3
  <2>6. last' = Least(Len(Lines)', curr' + query'.context)
    BY <1>3, <2>1
  <2>7. at' <= Len(Entries)' /\ curr' \in 1..Len(Lines)'
    BY <1>1, <1>3, <2>1
  <2> QED
    BY <2>4, <2>5, <2>6, <2>7 DEF GrepInv
<1>4. CASE lookahead # <<>>
  <2>1. curr + 1 <= last
    BY <1>1, <1>4, EmptyRange
  <2>2. Head(lookahead) = curr + 1 /\ Tail(lookahead) = LineRange(curr + 2, last)
    <3>1. curr + 1 \in Nat /\ last \in Nat /\ (curr + 1) + 1 = curr + 2
      BY <1>1
    <3>2. /\ Head(LineRange(curr + 1, last)) = curr + 1
          /\ Tail(LineRange(curr + 1, last)) = LineRange((curr + 1) + 1, last)
      BY <2>1, <3>1, RangeTail
    <3> QED
      BY <1>1, <3>1, <3>2
  <2>3. curr' = curr + 1 /\ UNCHANGED <<phase, at>>
    BY <1>4, <2>2 DEF Slide
  <2>4. CASE last < Len(Lines)
    <3>1. lookahead' = Append(LineRange(curr + 2, last), last + 1) /\ last' = last + 1
      BY <1>4, <2>2, <2>4 DEF Slide
    <3>2. /\ curr + 2 \in Nat /\ last \in Nat /\ last + 1 \in Nat
          /\ curr + 2 <= last + 1
      BY <1>1, <2>1
    <3>3. lookahead' = LineRange(curr + 2, last')
      BY <3>1, <3>2, RangeAppend
    <3>4. last' = Least(Len(Lines), curr + 1 + query.context)
      <4>1. last = curr + query.context /\ curr + 1 + query.context = last + 1
        BY <1>1, <2>4, SMTT(30) DEF Least
      <4> QED
        BY <1>1, <2>4, <3>1, <4>1 DEF Least
    <3> QED
      BY <1>1, <1>3, <2>1, <2>3, <3>3, <3>4
  <2>5. CASE ~(last < Len(Lines))
    <3>1. lookahead' = LineRange(curr + 2, last) /\ last' = last
      BY <1>4, <2>2, <2>5 DEF Slide
    <3>2. last = Least(Len(Lines), curr + 1 + query.context)
      BY <1>1, <2>5 DEF Least
    <3> QED
      BY <1>1, <1>3, <2>1, <2>3, <3>1, <3>2
  <2> QED
    BY <2>4, <2>5
<1>5. CASE lookahead = <<>> /\ last < Len(Lines)
  <2>1. last = curr
    <3> SUFFICES ASSUME curr + 1 <= last PROVE FALSE
      BY <1>1
    <3>1. lookahead # <<>>
      BY <1>1, RangeTail
    <3> QED
      BY <1>5, <3>1
  <2>2. ReadWindow(last + 1) /\ UNCHANGED <<phase, at>>
    BY <1>5 DEF Slide
  <2>3. /\ curr' = curr + 1 /\ last' = Least(Len(Lines), curr + 1 + query.context)
        /\ lookahead' = LineRange(curr + 1 + 1, last')
    BY <2>1, <2>2, Zenon DEF ReadWindow
  <2>4. curr + 1 + 1 = curr + 2 /\ curr + 1 <= Len(Lines)
    BY <1>1, <1>5, <2>1
  <2> QED
    BY <1>3, <2>2, <2>3, <2>4
<1>6. CASE lookahead = <<>> /\ ~(last < Len(Lines))
  BY <1>6 DEF Slide, LeaveFile, GrepInv
<1> QED
  BY <1>4, <1>5, <1>6

-----------------------------------------------------------------------------
\* One round of search_file keeps all parts of the invariant.
LEMMA GrepLineStep ==
  ASSUME SearchInv, GrepLine
  PROVE  SearchInv'
<1>1. /\ ShapeInv /\ LimitInv /\ GrepInv /\ phase = "file" /\ query.tool = "grep"
      /\ UNCHANGED input /\ UNCHANGED truncated /\ UNCHANGED error
  BY DEF SearchInv, GrepLine
<1>2. /\ tree' = tree /\ query' = query /\ Entries' = Entries
      /\ query.limit \in Nat /\ Len(Entries) \in Nat /\ at \in 1..Len(Entries) + 1
      /\ at <= Len(Entries) /\ found \in Seq(Found) /\ Len(found) \in Nat
      /\ Len(found) < query.limit
  <2>1. tree' = tree /\ query' = query /\ Entries' = Entries
    BY <1>1 DEF input, Entries
  <2>2. query.limit \in Nat /\ Len(Entries) \in Nat
    BY <1>1, InputFacts DEF ShapeInv
  <2>3. found \in Seq(Found) /\ at \in 1..Len(Entries) + 1
    BY <1>1 DEF ShapeInv
  <2> QED
    BY <1>1, <2>1, <2>2, <2>3, LenProperties DEF LimitInv, GrepInv
<1>3. found' \in Seq(Found) /\ Len(found') \in Nat /\ Len(found') <= query.limit
  <2>1. CASE Lines[curr]
    <3> DEFINE match == <<at, curr, prev \o <<curr>> \o lookahead>>
    <3>1. match \in Found
      <4>1. at \in Nat /\ curr \in Nat /\ prev \o <<curr>> \o lookahead \in Seq(Nat)
        BY <1>1, WindowOfRanges
      <4> QED
        BY <4>1 DEF Found
    <3>2. found' = Append(found, match)
      BY <2>1 DEF GrepLine
    <3> HIDE DEF match
    <3>3. found' \in Seq(Found) /\ Len(found') = Len(found) + 1
      BY <1>2, <3>1, <3>2, AppendProperties
    <3> QED
      BY <1>2, <3>3
  <2>2. CASE ~Lines[curr]
    BY <1>2, <2>2 DEF GrepLine
  <2> QED
    BY <2>1, <2>2
<1>4. CASE LeaveFile
  <2>1. Recursive \in BOOLEAN
    BY DEF Recursive
  <2>2. Following(Recursive) \in 1..Len(Entries) + 1
    BY <1>1, <1>2, <2>1, FollowingInRange
  <2>3. phase' = "walk" /\ at' \in 1..Len(Entries)' + 1
    BY <1>2, <1>4, <2>2 DEF LeaveFile
  <2>4. ShapeInv'
    BY <1>1, <1>2, <1>3, <2>3 DEF ShapeInv
  <2>5. LimitInv' /\ GrepInv' /\ TailInv'
    BY <1>1, <1>2, <1>3, <2>3 DEF LimitInv, GrepInv, TailInv
  <2> QED
    BY <2>4, <2>5 DEF SearchInv
<1>5. CASE ~LeaveFile
  <2>1. Slide /\ Len(found') < query.limit
    BY <1>2, <1>3, <1>5 DEF GrepLine
  <2>2. GrepInv'
    BY <1>1, <2>1, WindowStep
  <2>3. UNCHANGED <<phase, at>>
    BY <1>5, <2>1 DEF Slide
  <2>4. ShapeInv'
    BY <1>1, <1>2, <1>3, <2>3 DEF ShapeInv
  <2>5. LimitInv' /\ TailInv'
    BY <1>1, <1>2, <1>3, <2>1, <2>3 DEF LimitInv, TailInv
  <2> QED
    BY <2>2, <2>4, <2>5 DEF SearchInv
<1> QED
  BY <1>4, <1>5

\* fs_grep opens a file: the window of its first line.
LEMMA GrepOpenStep ==
  ASSUME SearchInv, GrepOpen
  PROVE  SearchInv'
<1>1. /\ ShapeInv /\ LimitInv /\ phase = "walk" /\ query.tool = "grep" /\ ~Full
      /\ at <= Len(Entries) /\ Lines # <<>> /\ phase' = "file" /\ prev' = <<>>
      /\ ReadWindow(1) /\ UNCHANGED <<input, at, found, truncated, error>>
  BY DEF SearchInv, GrepOpen, AtEntry
<1>2. /\ tree' = tree /\ query' = query /\ Entries' = Entries /\ Lines' = Lines
      /\ at' = at /\ found' = found
  BY <1>1 DEF input, Entries, Lines, Current
<1>3. /\ query.limit \in Nat /\ query.context \in Nat /\ at \in 1..Len(Entries)
      /\ Lines \in Seq(BOOLEAN) /\ Len(Lines) \in Nat /\ Len(found) \in Nat
  <2>1. query.limit \in Nat /\ query.context \in Nat /\ at \in 1..Len(Entries)
    BY <1>1, InputFacts DEF ShapeInv
  <2>2. Lines \in Seq(BOOLEAN) /\ Len(Lines) \in Nat
    BY <1>1, <2>1, InputFacts DEF ShapeInv, Lines, Current
  <2> QED
    BY <1>1, <2>1, <2>2, LenProperties DEF ShapeInv
<1>4. Len(Lines) >= 1
  BY <1>1, <1>3, EmptySeq
<1>5. GrepInv'
  <2>1. /\ curr' = 1 /\ last' = Least(Len(Lines), 1 + query.context)
        /\ lookahead' = LineRange(1 + 1, last')
    BY <1>1, Zenon DEF ReadWindow
  <2>2. First(1)' = 1
    BY <1>2, <1>3 DEF First
  <2>3. LineRange(1, 0) = <<>>
    BY EmptyRange
  <2> QED
    BY <1>1, <1>2, <1>3, <1>4, <2>1, <2>2, <2>3 DEF GrepInv
<1>6. ShapeInv'
  BY <1>1, <1>2 DEF ShapeInv
<1>7. LimitInv' /\ TailInv'
  BY <1>1, <1>2, <1>3 DEF LimitInv, TailInv, Full
<1> QED
  BY <1>5, <1>6, <1>7 DEF SearchInv

\* One round of the loop of fs_tail.
LEMMA TailLineStep ==
  ASSUME SearchInv, TailLine
  PROVE  SearchInv'
<1>1. /\ ShapeInv /\ LimitInv /\ TailInv /\ phase = "file" /\ query.tool = "tail"
      /\ last < Len(Lines) /\ last' = last + 1
      /\ UNCHANGED <<input, phase, at, curr, lookahead, found, truncated, error>>
  BY DEF SearchInv, TailLine
<1>2. /\ tree' = tree /\ query' = query /\ Entries' = Entries /\ Lines' = Lines
      /\ at' = at /\ found' = found /\ phase' = phase
  BY <1>1 DEF input, Entries, Lines, Current
<1>3. /\ at = 1 /\ tree.target = "file" /\ query.limit # 0 /\ last \in 0..Len(Lines)
      /\ prev = LineRange(Oldest(last), last)
  BY <1>1 DEF TailInv
<1>4. query.limit \in Nat \ {0} /\ Len(Lines) \in Nat /\ last \in Nat
  <2>1. Len(Entries) = 1 /\ query.limit \in Nat
    BY <1>1, <1>3, InputFacts DEF ShapeInv
  <2>2. Len(Lines) \in Nat
    BY <1>1, <1>3, <2>1, InputFacts DEF ShapeInv, Lines, Current
  <2> QED
    BY <1>3, <2>1, <2>2
<1>5. prev' = LineRange(Oldest(last + 1), last + 1)
  <2> DEFINE longer == Append(prev, last + 1)
  <2>1. /\ Oldest(last) \in Nat /\ Oldest(last) <= last + 1
        /\ last \in Nat /\ last + 1 \in Nat
    BY <1>4 DEF Oldest
  <2>2. longer = LineRange(Oldest(last), last + 1)
    <3>1. Append(LineRange(Oldest(last), last), last + 1) = LineRange(Oldest(last), last + 1)
      BY <2>1, RangeAppend
    <3> QED
      BY <1>3, <3>1
  <2>3. Len(longer) = last + 2 - Oldest(last)
    <3>1. PICK n \in Nat : n = last + 2 - Oldest(last)
      BY <1>4, <2>1
    <3>2. Run(LineRange(Oldest(last), last + 1), Oldest(last), n)
      BY <1>4, <2>1, <3>1, RangeIsRun
    <3> QED
      BY <2>2, <3>1, <3>2 DEF Run
  <2>4. prev' = IF Len(longer) > query.limit THEN Tail(longer) ELSE longer
    BY DEF TailLine
  <2> HIDE DEF longer
  <2>5. CASE last >= query.limit
    <3>1. Len(longer) > query.limit /\ Oldest(last + 1) = Oldest(last) + 1
      BY <1>4, <2>3, <2>5 DEF Oldest
    <3>2. Tail(LineRange(Oldest(last), last + 1)) = LineRange(Oldest(last) + 1, last + 1)
      BY <2>1, RangeTail
    <3> QED
      BY <2>2, <2>4, <3>1, <3>2
  <2>6. CASE ~(last >= query.limit)
    <3>1. ~(Len(longer) > query.limit) /\ Oldest(last + 1) = 1 /\ Oldest(last) = 1
      BY <1>4, <2>3, <2>6 DEF Oldest
    <3> QED
      BY <2>2, <2>4, <3>1
  <2> QED
    BY <2>5, <2>6
<1>6. ShapeInv'
  BY <1>1, <1>2 DEF ShapeInv
<1>7. LimitInv' /\ GrepInv'
  BY <1>1, <1>2 DEF LimitInv, GrepInv
<1>8. TailInv'
  <2>1. Oldest(last)' = Oldest(last + 1)
    BY <1>1, <1>2 DEF Oldest
  <2>2. prev' = LineRange(Oldest(last)', last')
    BY <1>1, <1>5, <2>1
  <2>3. last' \in 0..Len(Lines)'
    BY <1>1, <1>2, <1>4
  <2>4. TailAsDefined'
    BY <1>1, <1>2 DEF TailAsDefined
  <2> QED
    BY <1>1, <1>2, <1>3, <2>2, <2>3, <2>4 DEF TailInv
<1> QED
  BY <1>6, <1>7, <1>8 DEF SearchInv

\* fs_tail returns its deque.
LEMMA TailEndStep ==
  ASSUME SearchInv, TailEnd
  PROVE  SearchInv'
<1>1. /\ ShapeInv /\ LimitInv /\ TailInv /\ phase = "file" /\ query.tool = "tail"
      /\ last = Len(Lines) /\ found' = prev /\ phase' = "done"
      /\ truncated' = (last > Len(prev)) /\ UNCHANGED <<input, at, window, error>>
  BY DEF SearchInv, TailEnd, Finish
<1>2. /\ tree' = tree /\ query' = query /\ Entries' = Entries /\ Lines' = Lines
      /\ at' = at /\ last' = last
  BY <1>1 DEF input, window, Entries, Lines, Current
<1>3. /\ at = 1 /\ tree.target = "file" /\ prev = LineRange(Oldest(last), last)
  BY <1>1 DEF TailInv
<1>4. query.limit \in Nat /\ last \in Nat
  <2>1. Len(Entries) = 1 /\ query.limit \in Nat
    BY <1>1, <1>3, InputFacts DEF ShapeInv
  <2> QED
    BY <1>1, <1>3, <2>1, InputFacts DEF ShapeInv, Lines, Current
<1>5. /\ found' \in Seq(Found) /\ Len(found') <= query.limit
      /\ Len(prev) = last + 1 - Oldest(last)
  <2>1. Oldest(last) \in Nat /\ Oldest(last) <= last + 1
    BY <1>4 DEF Oldest
  <2>2. PICK n \in Nat : n = last + 1 - Oldest(last)
    BY <1>4, <2>1
  <2>3. Run(prev, Oldest(last), n)
    BY <1>3, <1>4, <2>1, <2>2, RangeIsRun
  <2>4. prev \in Seq(Nat) /\ Len(prev) = n
    BY <2>3 DEF Run
  <2>5. Nat \subseteq Found
    BY DEF Found
  <2>6. prev \in Seq(Found)
    BY <2>4, <2>5, SeqMonotonic
  <2>7. n <= query.limit
    BY <1>4, <2>2 DEF Oldest
  <2> QED
    BY <1>1, <2>2, <2>4, <2>6, <2>7
<1>6. ShapeInv'
  BY <1>1, <1>2, <1>5 DEF ShapeInv
<1>7. LimitInv' /\ GrepInv'
  BY <1>1, <1>2, <1>5 DEF LimitInv, GrepInv
<1>8. TailInv'
  <2>1. (last > Len(prev)) <=> (last > query.limit)
    BY <1>4, <1>5 DEF Oldest
  <2>2. TailAsDefined'
    BY <1>1, <1>2, <1>3, <2>1 DEF TailAsDefined, Oldest
  <2> QED
    BY <1>1, <1>2, <1>3, <2>2 DEF TailInv
<1> QED
  BY <1>6, <1>7, <1>8 DEF SearchInv

\* The steps of the walk leave the window alone.
LEMMA WalkStep ==
  ASSUME SearchInv, SkipIgnored \/ LookFails \/ GrepBreak \/ GrepSkip \/ EndOfWalk
  PROVE  SearchInv'
<1>1. /\ ShapeInv /\ LimitInv /\ TailInv /\ phase = "walk"
      /\ UNCHANGED <<input, window, found>>
  BY DEF SearchInv, SkipIgnored, LookFails, GrepBreak, GrepSkip, EndOfWalk, AtEntry
<1>2. /\ tree' = tree /\ query' = query /\ Entries' = Entries /\ found' = found
      /\ query.tool # "tail"
  BY <1>1 DEF input, Entries, TailInv
<1>3. /\ at' \in 1..Len(Entries) + 1 /\ phase' \in {"walk", "done"}
      /\ error' \in BOOLEAN /\ truncated' \in BOOLEAN
  <2>1. at \in 1..Len(Entries) + 1 /\ error \in BOOLEAN /\ truncated \in BOOLEAN
    BY <1>1 DEF ShapeInv
  <2>2. CASE SkipIgnored
    <3>1. at <= Len(Entries)
      BY <2>2 DEF SkipIgnored, AtEntry
    <3>2. Following(FALSE) \in 1..Len(Entries) + 1
      BY <1>1, <3>1, FollowingInRange
    <3>3. at' = Following(FALSE) /\ UNCHANGED <<phase, error, truncated>>
      BY <2>2 DEF SkipIgnored
    <3> QED
      BY <1>1, <2>1, <3>2, <3>3
  <2>3. CASE GrepSkip
    <3>1. at <= Len(Entries) /\ Advance /\ truncated' = truncated
      BY <2>3 DEF GrepSkip, AtEntry
    <3> QED
      BY <1>1, <2>1, <3>1, AdvanceForward
  <2>4. CASE GrepBreak
    BY <2>1, <2>4 DEF GrepBreak, Finish
  <2>5. CASE EndOfWalk
    <3>1. /\ phase' = "done" /\ truncated' = (query.tool = "grep" /\ Full)
          /\ at' = at /\ error' = error
      BY <2>5, Zenon DEF EndOfWalk, Finish
    <3> QED
      BY <2>1, <3>1
  <2>6. CASE LookFails
    BY <2>1, <2>6 DEF LookFails, Throw
  <2> QED
    BY <2>2, <2>3, <2>4, <2>5, <2>6
<1>4. ShapeInv'
  BY <1>1, <1>2, <1>3 DEF ShapeInv
<1>5. LimitInv' /\ GrepInv' /\ TailInv'
  BY <1>1, <1>2, <1>3 DEF LimitInv, GrepInv, TailInv
<1> QED
  BY <1>4, <1>5 DEF SearchInv

\* A listed entry keeps the limit.
LEMMA OfferStep ==
  ASSUME SearchInv, Offer
  PROVE  SearchInv'
<1>1. /\ ShapeInv /\ LimitInv /\ phase = "walk" /\ at <= Len(Entries)
      /\ query.tool \in {"list", "find"} /\ UNCHANGED <<input, window>>
  BY DEF SearchInv, Offer, AtEntry
<1>2. tree' = tree /\ query' = query /\ Entries' = Entries
  BY <1>1 DEF input, Entries
<1>3. /\ query.limit \in Nat /\ Len(found) \in Nat /\ found \in Seq(Found)
      /\ Len(found) <= query.limit /\ at \in Nat /\ at \in 1..Len(Entries) + 1
      /\ truncated \in BOOLEAN /\ error \in BOOLEAN
  BY <1>1, InputFacts, LenProperties DEF ShapeInv, LimitInv
<1>4. \/ Advance /\ found' = found /\ truncated' = truncated
      \/ Finish(TRUE) /\ UNCHANGED <<at, found, error>>
      \/ Throw /\ UNCHANGED <<at, found, truncated>>
      \/ ~Full /\ Advance /\ found' = Append(found, <<at>>) /\ truncated' = truncated
  BY DEF Offer
<1>5. found' \in Seq(Found) /\ Len(found') <= query.limit
  <2>1. CASE found' = found
    BY <1>3, <2>1
  <2>2. CASE ~Full /\ found' = Append(found, <<at>>)
    <3>1. <<at>> \in Found
      BY <1>3 DEF Found
    <3>2. found' \in Seq(Found) /\ Len(found') = Len(found) + 1
      BY <1>3, <2>2, <3>1, AppendProperties
    <3> QED
      BY <1>3, <2>2, <3>2 DEF Full
  <2> QED
    BY <1>4, <2>1, <2>2
<1>6. /\ at' \in 1..Len(Entries) + 1 /\ phase' \in {"walk", "done"}
      /\ error' \in BOOLEAN /\ truncated' \in BOOLEAN
  <2>1. CASE Advance /\ truncated' = truncated
    BY <1>1, <1>3, <2>1, AdvanceForward
  <2>2. CASE Finish(TRUE) /\ UNCHANGED <<at, found, error>>
    BY <1>3, <2>2 DEF Finish
  <2>3. CASE Throw /\ UNCHANGED <<at, found, truncated>>
    BY <1>3, <2>3 DEF Throw
  <2> QED
    BY <1>4, <2>1, <2>2, <2>3
<1>7. ShapeInv'
  BY <1>1, <1>2, <1>5, <1>6 DEF ShapeInv
<1>8. LimitInv' /\ GrepInv' /\ TailInv'
  BY <1>1, <1>2, <1>5, <1>6 DEF LimitInv, GrepInv, TailInv
<1> QED
  BY <1>7, <1>8 DEF SearchInv

\* The checks of a request begin the walk with nothing found.
LEMMA CheckStep ==
  ASSUME SearchInv, Check
  PROVE  SearchInv'
<1>1. /\ ShapeInv /\ LimitInv /\ TailInv /\ phase = "check"
      /\ found = <<>> /\ last = 0 /\ prev = <<>>
      /\ UNCHANGED <<input, at, window, found, truncated>>
  BY DEF SearchInv, Check, ShapeInv
<1>2. /\ tree' = tree /\ query' = query /\ Entries' = Entries /\ Lines' = Lines
      /\ at' = at /\ last' = last /\ prev' = prev /\ found' = found
  BY <1>1 DEF input, window, Entries, Lines, Current
<1>3. \/ phase' = "done" /\ error' = TRUE
      \/ /\ Accepted /\ error' = error
         /\ phase' = IF query.tool = "tail" THEN "file" ELSE "walk"
  BY DEF Check, Throw
<1>4. ShapeInv'
  BY <1>1, <1>2, <1>3 DEF ShapeInv
<1>5. LimitInv' /\ GrepInv'
  BY <1>1, <1>2, <1>3 DEF LimitInv, GrepInv
<1>6. ASSUME query.tool = "tail" PROVE TailInv'
  <2>1. at = 1
    BY <1>1, <1>6 DEF TailInv
  <2>2. CASE error' = TRUE /\ phase' = "done"
    BY <1>1, <1>2, <2>1, <2>2 DEF TailInv, TailAsDefined
  <2>3. CASE Accepted /\ phase' = "file"
    <3>1. tree.target = "file" /\ query.limit # 0
      BY <1>6, <2>3 DEF Accepted
    <3>2. query.limit \in Nat /\ Len(Lines) \in Nat
      <4>1. Len(Entries) = 1 /\ query.limit \in Nat
        BY <1>1, <3>1, InputFacts DEF ShapeInv
      <4> QED
        BY <1>1, <2>1, <4>1, InputFacts DEF ShapeInv, Lines, Current
    <3>3. last' \in 0..Len(Lines)'
      BY <1>1, <1>2, <3>2
    <3>4. prev' = LineRange(Oldest(last)', last')
      <4>1. Oldest(last)' = 1
        BY <1>1, <1>2, <3>2 DEF Oldest
      <4>2. LineRange(1, 0) = <<>>
        BY EmptyRange
      <4> QED
        BY <1>1, <1>2, <4>1, <4>2
    <3> QED
      BY <1>2, <2>1, <2>3, <3>1, <3>3, <3>4 DEF TailInv, TailAsDefined
  <2> QED
    BY <1>3, <1>6, <2>2, <2>3
<1>7. ASSUME query.tool # "tail" PROVE TailInv'
  BY <1>2, <1>7 DEF TailInv
<1> QED
  BY <1>4, <1>5, <1>6, <1>7 DEF SearchInv

-----------------------------------------------------------------------------
\* The invariant of the search tools: what the phase says of the window and of what
\* was found.
THEOREM SearchCorrect == Spec => []SearchInv
<1>1. Init => SearchInv
  BY InitSearch
<1>2. SearchInv /\ [Next]_vars => SearchInv'
  <2> SUFFICES ASSUME SearchInv, [Next]_vars PROVE SearchInv'
    OBVIOUS
  <2>1. CASE Check
    BY <2>1, CheckStep
  <2>2. CASE SkipIgnored \/ LookFails \/ GrepBreak \/ GrepSkip \/ EndOfWalk
    BY <2>2, WalkStep
  <2>3. CASE Offer
    BY <2>3, OfferStep
  <2>4. CASE GrepOpen
    BY <2>4, GrepOpenStep
  <2>5. CASE GrepLine
    BY <2>5, GrepLineStep
  <2>6. CASE TailLine
    BY <2>6, TailLineStep
  <2>7. CASE TailEnd
    BY <2>7, TailEndStep
  <2>8. CASE UNCHANGED vars
    <3>1. /\ tree' = tree /\ query' = query /\ phase' = phase /\ at' = at
          /\ found' = found /\ truncated' = truncated /\ error' = error
          /\ last' = last /\ prev' = prev /\ curr' = curr /\ lookahead' = lookahead
      BY <2>8 DEF vars, input, window
    <3>2. ShapeInv' /\ LimitInv' /\ TailInv'
      BY <3>1 DEF SearchInv, ShapeInv, LimitInv, TailInv, TailAsDefined, Oldest,
                  Entries, Lines, Current
    <3>3. GrepInv'
      BY <3>1 DEF SearchInv, GrepInv, First, Entries, Lines, Current
    <3> QED
      BY <3>2, <3>3 DEF SearchInv
  <2> QED
    BY <2>1, <2>2, <2>3, <2>4, <2>5, <2>6, <2>7, <2>8 DEF Next
<1> QED
  BY <1>1, <1>2, PTL DEF Spec

\* Every variable keeps its type, and no tool returns more than its limit.
THEOREM SearchTypes == Spec => []TypeOK
<1>1. SearchInv => TypeOK
  <2> SUFFICES ASSUME SearchInv PROVE TypeOK
    OBVIOUS
  <2>1. ShapeInv /\ LimitInv /\ GrepInv /\ TailInv
    BY DEF SearchInv
  <2>2. ASSUME phase = "file" PROVE at <= Len(Entries) /\ last <= Len(Lines)
    <3>1. CASE query.tool = "grep"
      BY <2>1, <2>2, <3>1, WindowOfRanges DEF GrepInv
    <3>2. CASE query.tool = "tail"
      <4>1. Len(Entries) = 1 /\ at = 1 /\ last \in 0..Len(Lines)
        BY <2>1, <2>2, <3>2, InputFacts DEF ShapeInv, TailInv
      <4> QED
        BY <2>1, <4>1, InputFacts DEF ShapeInv, Lines, Current
    <3>3. CASE query.tool \notin {"grep", "tail"}
      BY <2>1, <2>2, <3>3 DEF ShapeInv
    <3> QED
      BY <3>1, <3>2, <3>3
  <2> QED
    BY <2>1, <2>2 DEF ShapeInv, LimitInv, TypeOK
<1> QED
  BY <1>1, SearchCorrect, PTL

\* fs_grep's window is the context of its current line: for files of any length and
\* any number of context lines, whatever lines match before.
THEOREM WindowCorrect == Spec => []WindowIsContext
<1>1. SearchInv => WindowIsContext
  <2> SUFFICES ASSUME SearchInv, phase = "file", query.tool = "grep"
               PROVE  prev \o <<curr>> \o lookahead = ContextOf(at, curr)
    BY DEF WindowIsContext
  <2>1. /\ ShapeInv /\ GrepInv /\ last = Least(Len(Lines), curr + query.context)
    BY DEF SearchInv, GrepInv
  <2>2. prev \o <<curr>> \o lookahead = LineRange(First(curr), last)
    BY <2>1, WindowOfRanges
  <2>3. ContextOf(at, curr) = LineRange(First(curr), Least(Len(Lines), curr + query.context))
    BY Zenon DEF ContextOf, First, Lines, Current
  <2> QED
    BY <2>1, <2>2, <2>3
<1> QED
  BY <1>1, SearchCorrect, PTL

\* fs_tail returns the last lines of a file, in order, and tells whether there were
\* more: for files of any length and any limit.
THEOREM TailCorrect == Spec => []TailAsDefined
<1>1. SearchInv => TailAsDefined
  BY DEF SearchInv, TailInv, TailAsDefined
<1> QED
  BY <1>1, SearchCorrect, PTL
-----------------------------------------------------------------------------
\* Chain(c), as a function that its own values define.
IsChain(c, k, f) == f = [j \in 0..k |-> IF j = 0 THEN <<>> ELSE f[j - 1] \o c[j]]

\* There is such a function: by the least number up to which there is none.
LEMMA ChainExists ==
  ASSUME NEW c, Len(c) \in Nat
  PROVE  \E f : IsChain(c, Len(c), f)
<1> DEFINE T == {k \in Nat : k <= Len(c) /\ ~ \E f : IsChain(c, k, f)}
<1> SUFFICES ASSUME T # {} PROVE FALSE
  OBVIOUS
<1>1. PICK k \in T : \A j \in T : k <= j
  BY LeastExists
<1>2. IsChain(c, 0, [j \in 0..0 |-> <<>>])
  BY DEF IsChain
<1>3. k # 0
  BY <1>2
<1>4. PICK f : IsChain(c, k - 1, f)
  <2>1. k - 1 \in Nat /\ k - 1 \notin T
    BY <1>1, <1>3
  <2> QED
    BY <2>1
<1>5. \A j \in 0..k - 1 : f[j] = IF j = 0 THEN <<>> ELSE f[j - 1] \o c[j]
  BY <1>4 DEF IsChain
<1>6. PICK g : g = [j \in 0..k |-> IF j = k THEN f[k - 1] \o c[k] ELSE f[j]]
  OBVIOUS
<1>7. /\ g = [j \in 0..k |-> g[j]] /\ g[k] = f[k - 1] \o c[k]
      /\ \A j \in 0..k - 1 : g[j] = f[j]
  BY <1>3, <1>6
<1>8. ASSUME NEW j \in 0..k PROVE g[j] = IF j = 0 THEN <<>> ELSE g[j - 1] \o c[j]
  <2>1. CASE j = 0
    <3>1. 0 \in 0..k - 1
      BY <1>3
    <3>2. g[0] = f[0] /\ f[0] = <<>>
      BY <1>5, <1>7, <3>1
    <3> QED
      BY <2>1, <3>2
  <2>2. CASE j \in 1..k - 1
    <3>1. j - 1 \in 0..k - 1 /\ j \in 0..k - 1 /\ j # 0
      BY <2>2
    <3> QED
      BY <1>5, <1>7, <3>1
  <2>3. CASE j = k
    <3>1. k - 1 \in 0..k - 1
      BY <1>3
    <3> QED
      BY <1>3, <1>7, <2>3, <3>1
  <2> QED
    BY <2>1, <2>2, <2>3
<1>9. [j \in 0..k |-> g[j]] = [j \in 0..k |-> IF j = 0 THEN <<>> ELSE g[j - 1] \o c[j]]
  BY <1>8
<1> QED
  BY <1>7, <1>9 DEF IsChain

\* Each value of a chain is the one before it and the sequence at its place.
LEMMA ChainStep ==
  ASSUME NEW c, Len(c) \in Nat
  PROVE  /\ Chain(c)[0] = <<>>
         /\ \A j \in 1..Len(c) : Chain(c)[j] = Chain(c)[j - 1] \o c[j]
<1>1. \E f : f = [j \in 0..Len(c) |-> IF j = 0 THEN <<>> ELSE f[j - 1] \o c[j]]
  BY ChainExists DEF IsChain
<1>2. PICK f : f = Chain(c)
  OBVIOUS
<1>3. f = [j \in 0..Len(c) |-> IF j = 0 THEN <<>> ELSE f[j - 1] \o c[j]]
  BY <1>1, <1>2, Zenon DEF Chain
<1>4. f[0] = <<>>
  BY <1>3
<1>5. ASSUME NEW j \in 1..Len(c) PROVE f[j] = f[j - 1] \o c[j]
  <2>1. j \in 0..Len(c) /\ j # 0
    OBVIOUS
  <2> QED
    BY <1>3, <2>1
<1> QED
  BY <1>2, <1>4, <1>5

\* What is chained so far stays at the beginning, and what follows is of later places.
Extends(s, u, c, j, m) ==
  /\ Len(u) <= Len(s) /\ \A i \in 1..Len(u) : s[i] = u[i]
  /\ \A i \in Len(u) + 1..Len(s) : \E k \in j + 1..m : \E l \in 1..Len(c[k]) : s[i] = c[k][l]

\* A chain of sequences of a set is one.
LEMMA ChainTyped ==
  ASSUME NEW S, NEW c \in Seq(Seq(S))
  PROVE  \A j \in 0..Len(c) : Chain(c)[j] \in Seq(S)
<1> DEFINE T == {j \in Nat : j <= Len(c) /\ Chain(c)[j] \notin Seq(S)}
<1>1. Len(c) \in Nat /\ \A j \in 1..Len(c) : c[j] \in Seq(S)
  BY ElementOfSeq, LenProperties
<1> SUFFICES ASSUME T # {} PROVE FALSE
  BY <1>1, SMTT(30)
<1>2. PICK j \in T : \A k \in T : j <= k
  BY LeastExists
<1>3. j # 0
  <2>1. Chain(c)[0] \in Seq(S)
    BY <1>1, ChainStep, EmptySeq
  <2> QED
    BY <2>1
<1>4. Chain(c)[j - 1] \in Seq(S)
  <2>1. j - 1 \in Nat /\ j - 1 \notin T /\ j - 1 <= Len(c)
    BY <1>1, <1>2, <1>3
  <2> QED
    BY <2>1
<1>5. j \in 1..Len(c)
  BY <1>1, <1>3
<1>6. Chain(c)[j - 1] \o c[j] \in Seq(S)
  BY <1>1, <1>4, <1>5, ConcatProperties
<1> QED
  BY <1>1, <1>5, <1>6, ChainStep

\* A chain up to a later place extends it.
LEMMA ChainExtends ==
  ASSUME NEW S, NEW c \in Seq(Seq(S)), NEW j \in 0..Len(c), NEW m \in j..Len(c)
  PROVE  Extends(Chain(c)[m], Chain(c)[j], c, j, m)
<1> DEFINE C == Chain(c)
           T == {k \in Nat : j <= k /\ k <= Len(c) /\ ~Extends(C[k], C[j], c, j, k)}
<1>1. Len(c) \in Nat /\ \A k \in 1..Len(c) : c[k] \in Seq(S) /\ Len(c[k]) \in Nat
  BY ElementOfSeq, LenProperties
<1>2. \A k \in 0..Len(c) : C[k] \in Seq(S) /\ Len(C[k]) \in Nat
  BY ChainTyped, LenProperties
<1> SUFFICES ASSUME T # {} PROVE FALSE
  BY <1>1
<1>3. PICK k \in T : \A i \in T : k <= i
  BY LeastExists
<1>4. k # j
  BY <1>1, <1>2 DEF Extends
<1>5. k \in 1..Len(c) /\ k - 1 \in j..Len(c) /\ k - 1 \in 0..Len(c)
  BY <1>1, <1>3, <1>4
<1>6. Extends(C[k - 1], C[j], c, j, k - 1)
  <2>1. k - 1 \notin T
    BY <1>1, <1>3
  <2> QED
    BY <1>1, <1>5, <2>1
<1>7. C[k] = C[k - 1] \o c[k]
  BY <1>1, <1>5, ChainStep
<1> HIDE DEF C
<1>8. PICK x, y, z : x = C[k - 1] /\ y = c[k] /\ z = C[k]
  OBVIOUS
<1>9. /\ x \in Seq(S) /\ y \in Seq(S) /\ z = x \o y
      /\ Len(x) \in Nat /\ Len(y) \in Nat /\ Len(C[j]) \in Nat
  BY <1>1, <1>2, <1>5, <1>7, <1>8
<1>10. /\ Len(z) = Len(x) + Len(y)
       /\ \A i \in 1..Len(x) + Len(y) : z[i] = IF i <= Len(x) THEN x[i] ELSE y[i - Len(x)]
  BY <1>9, ConcatProperties
<1>11. /\ Len(C[j]) <= Len(x) /\ \A i \in 1..Len(C[j]) : x[i] = C[j][i]
       /\ \A i \in Len(C[j]) + 1..Len(x) :
             \E n \in j + 1..k - 1 : \E l \in 1..Len(c[n]) : x[i] = c[n][l]
  BY <1>6, <1>8, ZenonT(30) DEF Extends
<1>12. Len(C[j]) <= Len(z) /\ \A i \in 1..Len(C[j]) : z[i] = C[j][i]
  BY <1>9, <1>10, <1>11
<1>13. ASSUME NEW i \in Len(C[j]) + 1..Len(z)
       PROVE  \E n \in j + 1..k : \E l \in 1..Len(c[n]) : z[i] = c[n][l]
  <2>1. CASE i <= Len(x)
    <3>1. z[i] = x[i] /\ i \in Len(C[j]) + 1..Len(x)
      BY <1>9, <1>10, <2>1
    <3>2. PICK n \in j + 1..k - 1 : \E l \in 1..Len(c[n]) : x[i] = c[n][l]
      BY <1>11, <3>1
    <3>3. n \in j + 1..k
      BY <1>5, <3>2
    <3> QED
      BY <3>1, <3>2, <3>3
  <2>2. CASE ~(i <= Len(x))
    <3>1. z[i] = y[i - Len(x)] /\ i - Len(x) \in 1..Len(y)
      BY <1>9, <1>10, <2>2
    <3>2. k \in j + 1..k
      BY <1>3, <1>4, <1>5
    <3> QED
      BY <1>8, <3>1, <3>2
  <2> QED
    BY <2>1, <2>2
<1>14. Extends(C[k], C[j], c, j, k)
  BY <1>8, <1>12, <1>13 DEF Extends
<1> QED
  BY <1>14

\* Where the places between have nothing the chain is the same.
LEMMA ChainSame ==
  ASSUME NEW S, NEW c \in Seq(Seq(S)), NEW j \in 0..Len(c), NEW m \in j..Len(c),
         \A k \in j + 1..m : c[k] = <<>>
  PROVE  Chain(c)[m] = Chain(c)[j]
<1> DEFINE s == Chain(c)[m]
           u == Chain(c)[j]
<1>1. s \in Seq(S) /\ u \in Seq(S) /\ Len(s) \in Nat /\ Len(u) \in Nat
  <2>1. Len(c) \in Nat
    BY LenProperties
  <2>2. m \in 0..Len(c)
    BY <2>1
  <2> QED
    BY <2>2, ChainTyped, LenProperties
<1>2. Extends(s, u, c, j, m)
  BY ChainExtends
<1> HIDE DEF s, u
<1>3. \A k \in j + 1..m : 1..Len(c[k]) = {}
  BY EmptySeq
<1>4. /\ Len(u) <= Len(s) /\ \A i \in 1..Len(u) : s[i] = u[i]
      /\ \A i \in Len(u) + 1..Len(s) : \E k \in j + 1..m : \E l \in 1..Len(c[k]) : s[i] = c[k][l]
  BY <1>2 DEF Extends
<1>5. Len(s) = Len(u)
  <2> SUFFICES ASSUME Len(u) < Len(s) PROVE FALSE
    BY <1>1, <1>4
  <2>1. Len(s) \in Len(u) + 1..Len(s)
    BY <1>1
  <2> QED
    BY <1>3, <1>4, <2>1
<1>6. s = u
  BY <1>1, <1>4, <1>5, SeqEqual
<1> QED
  BY <1>6 DEF s, u

\* The first n of s.
LEMMA FirstOfIs ==
  ASSUME NEW S, NEW s \in Seq(S), NEW u \in Seq(S), NEW n \in Nat,
         Len(u) <= Len(s), \A i \in 1..Len(u) : s[i] = u[i],
         Len(u) = n \/ (Len(u) = Len(s) /\ Len(u) <= n)
  PROVE  FirstOf(s, n) = u
<1>1. Len(s) \in Nat /\ Len(u) \in Nat
  BY LenProperties
<1>2. Least(n, Len(s)) = Len(u)
  BY <1>1 DEF Least
<1>3. \A i \in 1..Len(u) : s[i] \in S
  BY ElementOfSeq
<1>4. PICK m : m = Len(u)
  OBVIOUS
<1>5. /\ SubSeq(s, 1, m) \in Seq(S)
      /\ Len(SubSeq(s, 1, m)) = IF 1 <= m THEN m - 1 + 1 ELSE 0
      /\ \A i \in 1..m - 1 + 1 : SubSeq(s, 1, m)[i] = s[1 + i - 1]
  BY <1>1, <1>3, <1>4, SubSeqProperties
<1>6. /\ Len(SubSeq(s, 1, m)) = Len(u)
      /\ \A i \in 1..Len(u) : SubSeq(s, 1, m)[i] = u[i]
  BY <1>1, <1>4, <1>5
<1>7. SubSeq(s, 1, m) = u
  BY <1>5, <1>6, SeqEqual
<1> QED
  BY <1>2, <1>4, <1>7 DEF FirstOf

\* Of the first n of s, when they are fewer than n, none is missing.
LEMMA FirstOfAll ==
  ASSUME NEW S, NEW s \in Seq(S), NEW n \in Nat
  PROVE  /\ FirstOf(s, n) \in Seq(S) /\ Len(FirstOf(s, n)) <= n
         /\ Len(FirstOf(s, n)) <= Len(s)
         /\ \A i \in 1..Len(FirstOf(s, n)) : s[i] = FirstOf(s, n)[i]
         /\ Len(FirstOf(s, n)) < n => FirstOf(s, n) = s
<1>1. PICK m : m = Least(n, Len(s))
  OBVIOUS
<1>2. Len(s) \in Nat /\ m \in 0..Len(s) /\ m <= n /\ (m < n => m = Len(s))
  BY <1>1, LenProperties DEF Least
<1>3. \A i \in 1..m : s[i] \in S
  BY <1>2, ElementOfSeq
<1>4. PICK u : u = SubSeq(s, 1, m)
  OBVIOUS
<1>5. /\ u \in Seq(S) /\ Len(u) = IF 1 <= m THEN m - 1 + 1 ELSE 0
      /\ \A i \in 1..m - 1 + 1 : u[i] = s[1 + i - 1]
  BY <1>2, <1>3, <1>4, SubSeqProperties
<1>6. Len(u) = m /\ \A i \in 1..m : u[i] = s[i]
  BY <1>2, <1>5
<1>7. m < n => u = s
  BY <1>2, <1>5, <1>6, SeqEqual
<1> QED
  BY <1>1, <1>2, <1>4, <1>5, <1>6, <1>7 DEF FirstOf
-----------------------------------------------------------------------------
\* What is known of every entry.
LEMMA EntryFacts ==
  ASSUME tree \in Trees
  PROVE  /\ Len(Entries) \in Nat /\ DOMAIN Entries = 1..Len(Entries)
         /\ \A i \in 1..Len(Entries) :
               /\ Entries[i].depth \in Nat \ {0}
               /\ Entries[i].lines \in Seq(BOOLEAN) /\ Len(Entries[i].lines) \in Nat
               /\ Entries[i].kind # "file" => Entries[i].lines = <<>>
         /\ 1 <= Len(Entries) => Entries[1].depth = 1
<1>1. Tree(tree)
  BY TreeAssumption
<1>2. \A i \in 1..Len(Entries) : Entry(Entries[i])
  BY <1>1 DEF Tree, Entries
<1>3. 1 <= Len(Entries) => Entries # <<>>
  BY EmptySeq
<1>4. ASSUME NEW i \in 1..Len(Entries)
      PROVE  /\ Entries[i].depth \in Nat \ {0}
             /\ Entries[i].lines \in Seq(BOOLEAN) /\ Len(Entries[i].lines) \in Nat
             /\ Entries[i].kind # "file" => Entries[i].lines = <<>>
  BY <1>2, LenProperties DEF Entry
<1> QED
  BY <1>1, <1>3, <1>4 DEF Tree, Entries

Skips(n) == n = Following(FALSE)

\* Following(FALSE) passes what is below the current entry, and nothing else.
LEMMA FollowingPasses ==
  ASSUME ShapeInv, at <= Len(Entries), NEW n, Skips(n)
  PROVE  /\ n \in at + 1..Len(Entries) + 1
         /\ \A j \in at + 1..n - 1 : Entries[j].depth > Current.depth
         /\ n <= Len(Entries) => Entries[n].depth <= Current.depth
<1>1. PICK N, d : N = Len(Entries) /\ d = Current.depth
  OBVIOUS
<1> DEFINE outside == {j \in at + 1..N : Entries[j].depth <= d}
<1>2. n \in at + 1..N + 1
  BY <1>1, FollowingForward DEF Skips
<1>3. /\ at \in Nat /\ at \in 1..N /\ N \in Nat
      /\ d \in Nat /\ \A j \in 1..N : Entries[j].depth \in Nat
  BY <1>1, EntryFacts DEF ShapeInv, Current
<1>4. n = IF outside = {} THEN N + 1 ELSE CHOOSE j \in outside : \A k \in outside : j <= k
  <2> DEFINE below == {j \in at + 1..Len(Entries) : Entries[j].depth <= Current.depth}
  <2>1. n = IF below = {} THEN Len(Entries) + 1
            ELSE CHOOSE j \in below : \A k \in below : j <= k
    BY Zenon DEF Following, Skips
  <2>2. below = outside
    BY <1>1
  <2> HIDE DEF below, outside
  <2> QED
    BY <1>1, <2>1, <2>2
<1>5. \/ n = N + 1 /\ \A j \in at + 1..N : ~(Entries[j].depth <= d)
      \/ /\ n \in at + 1..N /\ Entries[n].depth <= d
         /\ \A k \in at + 1..N : Entries[k].depth <= d => n <= k
  <2>1. CASE outside = {}
    BY <1>4, <2>1
  <2>2. CASE outside # {}
    <3>1. outside \in SUBSET Nat
      BY <1>3
    <3>2. n \in outside /\ \A k \in outside : n <= k
      <4> HIDE DEF outside
      <4> QED
        BY <1>4, <2>2, <3>1, LeastChosen
    <3> QED
      BY <3>2
  <2> QED
    BY <2>1, <2>2
<1> HIDE DEF outside
<1>6. ASSUME NEW j \in at + 1..n - 1 PROVE Entries[j].depth > d
  <2>1. j \in at + 1..N /\ j \in 1..N /\ j < n
    BY <1>2, <1>3
  <2>2. ~(Entries[j].depth <= d)
    BY <1>2, <1>3, <1>5, <2>1
  <2>3. Entries[j].depth \in Nat
    BY <1>3, <2>1
  <2> QED
    BY <1>3, <2>2, <2>3
<1>7. n <= N => Entries[n].depth <= d
  BY <1>3, <1>5
<1> QED
  BY <1>1, <1>2, <1>6, <1>7

\* Where a walk can be: not below an ignored directory, or at the top.
Reached(p) ==
  p <= Len(Entries) =>
    IF Recursive
      THEN \A i \in 1..p - 1 : Entries[i].kind = "ignored" => ~Below(p, i)
      ELSE Entries[p].depth = 1

\* Where the iterator goes from an entry.
Goes(n) == IF Recursive /\ Current.kind = "ignored" THEN Skips(n)
           ELSE n = Following(Recursive)

\* The entries a walk stops at, but for the ignored ones, are those that are visited,
\* and it passes no other that is.
LEMMA Onward ==
  ASSUME ShapeInv, at <= Len(Entries), Reached(at), NEW n, Goes(n)
  PROVE  /\ n \in at + 1..Len(Entries) + 1
         /\ Reached(n)
         /\ Visited(at) <=> ~(Recursive /\ Current.kind = "ignored")
         /\ \A j \in at + 1..n - 1 : ~Visited(j)
<1>1. /\ at \in Nat \ {0} /\ at \in 1..Len(Entries) /\ Len(Entries) \in Nat
      /\ DOMAIN Entries = 1..Len(Entries) /\ Current = Entries[at]
      /\ \A j \in 1..Len(Entries) : Entries[j].depth \in Nat \ {0}
  BY EntryFacts DEF ShapeInv, Current
<1>2. CASE Recursive /\ Current.kind = "ignored"
  <2>1. Skips(n)
    BY <1>2 DEF Goes
  <2>2. /\ n \in at + 1..Len(Entries) + 1
        /\ \A j \in at + 1..n - 1 : Entries[j].depth > Current.depth
        /\ n <= Len(Entries) => Entries[n].depth <= Current.depth
    BY <2>1, FollowingPasses
  <2>3. ~Visited(at)
    BY <1>1, <1>2 DEF Visited
  <2>4. ASSUME NEW j \in at + 1..n - 1 PROVE ~Visited(j)
    <3>1. \A k \in at + 1..j : k \in at + 1..n - 1
      BY <1>1, <2>2
    <3>2. Below(j, at)
      BY <1>1, <2>2, <3>1 DEF Below
    <3> QED
      BY <1>1, <1>2, <3>2 DEF Visited
  <2>5. Reached(n)
    <3> SUFFICES ASSUME n <= Len(Entries), NEW i \in 1..n - 1, Entries[i].kind = "ignored",
                        Below(n, i)
                 PROVE  FALSE
      BY <1>2 DEF Reached
    <3>1. /\ n \in Nat /\ i \in 1..Len(Entries) /\ Entries[n].depth > Entries[i].depth
          /\ \A k \in i + 1..n : Entries[k].depth > Entries[i].depth
      BY <1>1, <2>2 DEF Below
    <3>2. CASE i < at
      <4>1. Below(at, i)
        BY <1>1, <2>2, <3>1, <3>2 DEF Below
      <4> QED
        BY <1>1, <1>2, <3>2, <4>1 DEF Reached
    <3>3. CASE i = at
      BY <1>1, <2>2, <3>1, <3>3
    <3>4. CASE i > at
      <4>1. Entries[i].depth > Current.depth
        BY <1>1, <2>2, <3>4
      <4> QED
        BY <1>1, <2>2, <3>1, <4>1
    <3> QED
      BY <1>1, <3>1, <3>2, <3>3, <3>4
  <2> QED
    BY <1>2, <2>2, <2>3, <2>4, <2>5
<1>3. CASE Recursive /\ Current.kind # "ignored"
  <2>1. n = at + 1
    BY <1>3 DEF Goes, Following
  <2>2. ASSUME NEW i \in 1..at, Entries[i].kind = "ignored"
        PROVE  i # at /\ ~Below(at, i)
    <3>1. i # at
      BY <1>1, <1>3, <2>2
    <3> QED
      BY <1>1, <1>3, <2>2, <3>1 DEF Reached
  <2>3. Visited(at)
    <3> SUFFICES ASSUME NEW i \in DOMAIN Entries, Entries[i].kind = "ignored"
                 PROVE  i # at /\ ~Below(at, i)
      BY <1>3 DEF Visited
    <3>1. CASE i <= at
      BY <1>1, <2>2, <3>1
    <3>2. CASE i > at
      BY <1>1, <3>2 DEF Below
    <3> QED
      BY <1>1, <3>1, <3>2
  <2>4. Reached(n)
    <3> SUFFICES ASSUME n <= Len(Entries), NEW i \in 1..n - 1, Entries[i].kind = "ignored",
                        Below(n, i)
                 PROVE  FALSE
      BY <1>3 DEF Reached
    <3>1. i \in 1..at
      BY <1>1, <2>1
    <3>2. i < at
      BY <1>1, <2>2, <3>1
    <3>3. Below(at, i)
      BY <1>1, <2>1, <3>2 DEF Below
    <3> QED
      BY <2>2, <3>1, <3>3
  <2> QED
    BY <1>1, <1>3, <2>1, <2>3, <2>4
<1>4. CASE ~Recursive
  <2>1. Skips(n) /\ Current.depth = 1
    BY <1>1, <1>4 DEF Goes, Skips, Following, Reached
  <2>2. /\ n \in at + 1..Len(Entries) + 1
        /\ \A j \in at + 1..n - 1 : Entries[j].depth > Current.depth
        /\ n <= Len(Entries) => Entries[n].depth <= Current.depth
    BY <2>1, FollowingPasses
  <2>3. n <= Len(Entries) => Entries[n].depth = 1
    <3> SUFFICES ASSUME n <= Len(Entries) PROVE Entries[n].depth = 1
      OBVIOUS
    <3>1. n \in 1..Len(Entries)
      BY <1>1, <2>2
    <3>2. Entries[n].depth \in Nat \ {0} /\ Entries[n].depth <= 1
      BY <1>1, <2>1, <2>2, <3>1
    <3> QED
      BY <3>2
  <2>4. ASSUME NEW j \in at + 1..n - 1 PROVE ~Visited(j)
    <3>1. Entries[j].depth > 1
      BY <2>1, <2>2
    <3> QED
      BY <1>4, <3>1 DEF Visited
  <2>5. Visited(at) /\ Reached(n)
    BY <1>1, <1>4, <2>1, <2>3 DEF Visited, Reached
  <2> QED
    BY <1>4, <2>2, <2>4, <2>5
<1> QED
  BY <1>2, <1>3, <1>4
-----------------------------------------------------------------------------
\* The offers of a walk, entry by entry.
LEMMA OffersTyped ==
  ASSUME tree \in Trees
  PROVE  /\ Offers \in Seq(Seq(Found)) /\ Len(Offers) = Len(Entries) /\ Len(Entries) \in Nat
         /\ \A j \in 1..Len(Entries) : Offers[j] = IF Offered(j) THEN << <<j>> >> ELSE <<>>
<1>1. PICK N \in Nat : N = Len(Entries)
  BY EntryFacts
<1>2. \A j \in 1..N : << <<j>> >> \in Seq(Found) /\ <<>> \in Seq(Found)
  BY DEF Found
<1>3. Offers = [j \in 1..N |-> IF Offered(j) THEN << <<j>> >> ELSE <<>>]
  BY <1>1, Zenon DEF Offers
<1>4. Offers \in [1..N -> Seq(Found)]
  BY <1>2, <1>3
<1>5. Offers \in Seq(Seq(Found))
  BY <1>4, SeqDef
<1>6. Len(Offers) = N
  BY <1>4, <1>5, LenProperties
<1> QED
  BY <1>1, <1>3, <1>5, <1>6

\* What fs_list and fs_find have at an entry, and what they are to answer.
Fails(j) == Blocks(j) \/ Breaks(j)
Listed(p, f) == /\ Reached(p) /\ f = Chain(Offers)[p - 1]
                /\ \A j \in 1..p - 1 : ~Fails(j)
More == Len(Candidates) > query.limit
Stop == IF More THEN Candidates[query.limit + 1][1] ELSE Len(Entries) + 1
Answered(f, e, t) == /\ e <=> \E j \in DOMAIN Entries : \/ Blocks(j) /\ j <= Stop
                                                        \/ Breaks(j) /\ j < Stop
                     /\ ~e => f = FirstOf(Candidates, query.limit) /\ (t <=> More)
WalkInv ==
  query.tool \in {"list", "find"} =>
      /\ phase # "file"
      /\ phase = "check" => at = 1 /\ ~error /\ ~truncated
      /\ phase = "walk" => ~error /\ ~truncated /\ Listed(at, found)
      /\ phase = "done" /\ Accepted => Answered(found, error, truncated)

\* Nothing is offered between an entry and the next.
LEMMA ListedOn ==
  ASSUME ShapeInv, at <= Len(Entries), Reached(at), NEW n, Goes(n), ~Fails(at),
         \A j \in 1..at - 1 : ~Fails(j)
  PROVE  Listed(n, Chain(Offers)[at])
<1>1. /\ n \in at + 1..Len(Entries) + 1 /\ Reached(n)
      /\ \A j \in at + 1..n - 1 : ~Visited(j)
  BY Onward
<1>2. PICK N : N = Len(Entries)
  OBVIOUS
<1>3. /\ at \in 1..N /\ N \in Nat /\ Offers \in Seq(Seq(Found)) /\ Len(Offers) = N
      /\ \A j \in 1..N : Offers[j] = IF Offered(j) THEN << <<j>> >> ELSE <<>>
  BY <1>2, OffersTyped DEF ShapeInv
<1>4. \A j \in at + 1..n - 1 : Offers[j] = <<>>
  <2> SUFFICES ASSUME NEW j \in at + 1..n - 1 PROVE Offers[j] = <<>>
    OBVIOUS
  <2>1. ~Offered(j)
    BY <1>1 DEF Offered
  <2>2. j \in 1..N
    BY <1>1, <1>2, <1>3
  <2> QED
    BY <1>3, <2>1, <2>2
<1>5. at \in 0..Len(Offers) /\ n - 1 \in at..Len(Offers)
  BY <1>1, <1>2, <1>3
<1>6. Chain(Offers)[n - 1] = Chain(Offers)[at]
  BY <1>3, <1>4, <1>5, ChainSame
<1>7. \A j \in 1..n - 1 : ~Fails(j)
  <2>1. \A j : ~Visited(j) => ~Fails(j)
    BY DEF Fails, Blocks, Breaks, Offered
  <2> QED
    BY <1>1, <1>3, <2>1
<1> QED
  BY <1>1, <1>6, <1>7 DEF Listed

\* The offer of an entry is added to those before it.
LEMMA OfferAdds ==
  ASSUME ShapeInv, at <= Len(Entries)
  PROVE  /\ Chain(Offers)[at - 1] \in Seq(Found) /\ Chain(Offers)[at] \in Seq(Found)
         /\ ~Offered(at) => Chain(Offers)[at] = Chain(Offers)[at - 1]
         /\ Offered(at) => Chain(Offers)[at] = Append(Chain(Offers)[at - 1], <<at>>)
<1>1. /\ at \in 1..Len(Offers) /\ Offers \in Seq(Seq(Found)) /\ Len(Offers) \in Nat
      /\ Offers[at] = IF Offered(at) THEN << <<at>> >> ELSE <<>>
      /\ at - 1 \in 0..Len(Offers) /\ at \in 0..Len(Offers)
  BY OffersTyped DEF ShapeInv
<1>2. Chain(Offers)[at] = Chain(Offers)[at - 1] \o Offers[at]
  BY <1>1, ChainStep
<1>3. Chain(Offers)[at - 1] \in Seq(Found) /\ Chain(Offers)[at] \in Seq(Found)
  BY <1>1, ChainTyped
<1>4. ~Offered(at) => Chain(Offers)[at] = Chain(Offers)[at - 1]
  BY <1>1, <1>2, <1>3, ConcatEmptySeq
<1>5. Offered(at) => Chain(Offers)[at] = Append(Chain(Offers)[at - 1], <<at>>)
  <2>1. <<at>> \in Found
    BY <1>1 DEF Found
  <2>2. \A s \in Seq(Found) : s \o << <<at>> >> = Append(s, <<at>>)
    BY <2>1, AppendIsConcat
  <2> QED
    BY <1>1, <1>2, <1>3, <2>2
<1> QED
  BY <1>3, <1>4, <1>5

\* What is listed up to an entry, against all that qualifies.
LEMMA CandidatesAfter ==
  ASSUME ShapeInv, NEW p \in 0..Len(Entries), NEW s, s = Chain(Offers)[p]
  PROVE  /\ s \in Seq(Found) /\ Candidates \in Seq(Found)
         /\ Len(s) \in Nat /\ Len(Candidates) \in Nat
         /\ Len(s) <= Len(Candidates) /\ \A i \in 1..Len(s) : Candidates[i] = s[i]
         /\ \A i \in Len(s) + 1..Len(Candidates) : Candidates[i][1] > p
         /\ \A i \in 1..Len(Candidates) : Candidates[i][1] \in 1..Len(Entries)
<1>1. PICK N : N = Len(Entries)
  OBVIOUS
<1>2. /\ N \in Nat /\ Offers \in Seq(Seq(Found)) /\ Len(Offers) = N
      /\ p \in 0..N /\ N \in p..N
      /\ \A j \in 1..N : Offers[j] = IF Offered(j) THEN << <<j>> >> ELSE <<>>
  BY <1>1, OffersTyped DEF ShapeInv
<1>3. Candidates = Chain(Offers)[N]
  BY <1>1 DEF Candidates
<1>4. s \in Seq(Found) /\ Candidates \in Seq(Found) /\ Chain(Offers)[0] = <<>>
  <2>1. 0 \in 0..N /\ N \in 0..N
    BY <1>2
  <2> QED
    BY <1>2, <1>3, <2>1, ChainTyped, ChainStep
<1>5. Len(s) \in Nat /\ Len(Candidates) \in Nat
  BY <1>4, LenProperties
<1>6. Extends(Candidates, s, Offers, p, N) /\ Extends(Candidates, <<>>, Offers, 0, N)
  <2>1. 0 \in 0..N /\ N \in 0..N
    BY <1>2
  <2> QED
    BY <1>2, <1>3, <1>4, <2>1, ChainExtends
<1>7. \A k \in 1..N : \A l \in 1..Len(Offers[k]) : Offers[k][l] = <<k>>
  <2> SUFFICES ASSUME NEW k \in 1..N, NEW l \in 1..Len(Offers[k])
               PROVE  Offers[k][l] = <<k>>
    OBVIOUS
  <2>1. Offers[k] = << <<k>> >>
    BY <1>2
  <2> QED
    BY <2>1
<1>8. ASSUME NEW i \in Len(s) + 1..Len(Candidates) PROVE Candidates[i][1] > p
  <2>1. PICK k \in p + 1..N : \E l \in 1..Len(Offers[k]) : Candidates[i] = Offers[k][l]
    BY <1>6 DEF Extends
  <2>2. k \in 1..N /\ k > p
    BY <1>2
  <2>3. Candidates[i] = <<k>>
    BY <1>7, <2>1, <2>2
  <2> QED
    BY <2>2, <2>3
<1>9. ASSUME NEW i \in 1..Len(Candidates) PROVE Candidates[i][1] \in 1..N
  <2>1. i \in Len(<<>>) + 1..Len(Candidates)
    BY EmptySeq
  <2>2. PICK k \in 0 + 1..N : \E l \in 1..Len(Offers[k]) : Candidates[i] = Offers[k][l]
    BY <1>6, <2>1 DEF Extends
  <2>3. k \in 1..N
    BY <1>2
  <2>4. Candidates[i] = <<k>>
    BY <1>7, <2>2, <2>3
  <2> QED
    BY <2>3, <2>4
<1>10. Len(s) <= Len(Candidates) /\ \A i \in 1..Len(s) : Candidates[i] = s[i]
  BY <1>6 DEF Extends
<1> QED
  BY <1>1, <1>4, <1>5, <1>8, <1>9, <1>10
\* The limit is reached, and another entry qualifies.
LEMMA FullAnswer ==
  ASSUME ShapeInv, at <= Len(Entries), Listed(at, found), Offered(at),
         ~Blocks(at), Len(found) = query.limit
  PROVE  Answered(found, FALSE, TRUE)
<1>1. PICK n, N : n = Len(found) /\ N = Len(Entries)
  OBVIOUS
<1>2. PICK u : u = Append(found, <<at>>)
  OBVIOUS
<1>3. /\ at \in 1..N /\ N \in Nat /\ n \in Nat /\ found \in Seq(Found) /\ <<at>> \in Found
      /\ DOMAIN Entries = 1..N
  BY <1>1, EntryFacts, LenProperties DEF ShapeInv, Found
<1>4. Len(u) = n + 1 /\ u[n + 1] = <<at>> /\ \A i \in 1..n : u[i] = found[i]
  BY <1>1, <1>2, <1>3, AppendProperties
<1>5. u = Chain(Offers)[at]
  BY <1>2, OfferAdds DEF Listed
<1>6. /\ Candidates \in Seq(Found) /\ Len(Candidates) \in Nat /\ Len(u) <= Len(Candidates)
      /\ \A i \in 1..Len(u) : Candidates[i] = u[i]
  <2>1. at \in 0..Len(Entries)
    BY <1>1, <1>3
  <2> QED
    BY <1>5, <2>1, CandidatesAfter
<1>7. /\ Len(Candidates) > n /\ Candidates[n + 1] = <<at>>
      /\ \A i \in 1..n : Candidates[i] = found[i]
  BY <1>3, <1>4, <1>6
<1>8. More /\ Stop = at
  BY <1>1, <1>7 DEF More, Stop
<1>9. \A j \in DOMAIN Entries : ~(Blocks(j) /\ j <= Stop) /\ ~(Breaks(j) /\ j < Stop)
  <2>1. \A j \in 1..at - 1 : ~Blocks(j) /\ ~Breaks(j)
    BY DEF Listed, Fails
  <2>2. \A j \in 1..N : j = at \/ j > at \/ j \in 1..at - 1
    BY <1>3
  <2> QED
    BY <1>3, <1>8, <2>1, <2>2
<1>10. FirstOf(Candidates, query.limit) = found
  BY <1>1, <1>3, <1>6, <1>7, FirstOfIs
<1> QED
  BY <1>8, <1>9, <1>10 DEF Answered

\* An entry costs the answer, and the limit is not passed before it.
LEMMA ThrowAnswer ==
  ASSUME ShapeInv, NEW p \in 0..Len(Entries),
         (p > 0 /\ Breaks(p)) \/ (p < Len(Entries) /\ Blocks(p + 1)),
         NEW u, u = Chain(Offers)[p], Len(u) <= query.limit, NEW f, NEW t
  PROVE  Answered(f, TRUE, t)
<1>1. PICK N, n : N = Len(Entries) /\ n = query.limit
  OBVIOUS
<1>2. p \in 0..N /\ N \in Nat /\ n \in Nat /\ DOMAIN Entries = 1..N
  BY <1>1, InputFacts, EntryFacts DEF ShapeInv
<1>3. /\ Len(u) \in Nat /\ Len(Candidates) \in Nat
      /\ \A i \in Len(u) + 1..Len(Candidates) : Candidates[i][1] > p
  BY CandidatesAfter
<1>4. Stop > p
  <2>1. CASE More
    <3>1. n + 1 \in Len(u) + 1..Len(Candidates)
      BY <1>1, <1>2, <1>3, <2>1 DEF More
    <3> QED
      BY <1>1, <1>3, <2>1, <3>1 DEF Stop
  <2>2. CASE ~More
    BY <1>1, <1>2, <2>2 DEF Stop
  <2> QED
    BY <2>1, <2>2
<1>5. p < Stop /\ p + 1 <= Stop
  <2>1. Stop \in Int
    <3>1. CASE More
      <4>1. n + 1 \in 1..Len(Candidates)
        BY <1>1, <1>2, <1>3, <3>1 DEF More
      <4>2. \A i \in 1..Len(Candidates) : Candidates[i][1] \in 1..N
        <5>1. 0 \in 0..Len(Entries)
          BY <1>1, <1>2
        <5> QED
          BY <1>1, <5>1, CandidatesAfter
      <4> QED
        BY <1>1, <1>2, <3>1, <4>1, <4>2 DEF Stop
    <3>2. CASE ~More
      BY <1>1, <1>2, <3>2 DEF Stop
    <3> QED
      BY <3>1, <3>2
  <2> QED
    BY <1>2, <1>4, <2>1
<1>6. CASE p > 0 /\ Breaks(p)
  BY <1>2, <1>5, <1>6 DEF Answered
<1>7. CASE p < Len(Entries) /\ Blocks(p + 1)
  BY <1>1, <1>2, <1>5, <1>7 DEF Answered
<1> QED
  BY <1>6, <1>7

\* The walk is at its end.
LEMMA EndAnswer ==
  ASSUME ShapeInv, at = Len(Entries) + 1, Listed(at, found), Len(found) <= query.limit
  PROVE  Answered(found, FALSE, FALSE)
<1>1. PICK N : N = Len(Entries)
  OBVIOUS
<1>2. /\ N \in Nat /\ at = N + 1 /\ DOMAIN Entries = 1..N /\ found \in Seq(Found)
      /\ Len(found) \in Nat /\ query.limit \in Nat
  BY <1>1, EntryFacts, InputFacts, LenProperties DEF ShapeInv
<1>3. found = Candidates
  <2>1. at - 1 = N
    BY <1>2
  <2> QED
    BY <1>1, <2>1 DEF Listed, Candidates
<1>4. ~More /\ Stop = N + 1
  BY <1>1, <1>2, <1>3 DEF More, Stop
<1>5. \A j \in DOMAIN Entries : ~(Blocks(j) /\ j <= Stop) /\ ~(Breaks(j) /\ j < Stop)
  BY <1>2, <1>4 DEF Listed, Fails
<1>6. FirstOf(Candidates, query.limit) = found
  BY <1>2, <1>3, FirstOfIs
<1> QED
  BY <1>4, <1>5, <1>6 DEF Answered

\* What the input alone decides does not change.
LEMMA InputStays ==
  ASSUME UNCHANGED input
  PROVE  /\ tree' = tree /\ query' = query /\ Entries' = Entries
         /\ Recursive' = Recursive /\ (Accepted' <=> Accepted)
         /\ \A j : /\ Visited(j)' <=> Visited(j)
                   /\ Offered(j)' <=> Offered(j)
                   /\ Blocks(j)' <=> Blocks(j)
                   /\ Breaks(j)' <=> Breaks(j)
                   /\ Fails(j)' <=> Fails(j)
                   /\ Reached(j)' <=> Reached(j)
         /\ Offers' = Offers /\ Candidates' = Candidates
<1>1. tree' = tree /\ query' = query
  BY DEF input
<1>2. Entries' = Entries /\ Recursive' = Recursive
  BY <1>1 DEF Entries, Recursive
<1>3. Accepted' <=> Accepted
  BY <1>1, <1>2 DEF Accepted
<1>4. \A j, i : Below(j, i)' <=> Below(j, i)
  BY <1>2 DEF Below
<1>5. \A j : Visited(j)' <=> Visited(j)
  BY <1>2, <1>4 DEF Visited
<1>6. \A j : /\ Offered(j)' <=> Offered(j)
             /\ Blocks(j)' <=> Blocks(j)
             /\ Breaks(j)' <=> Breaks(j)
             /\ Fails(j)' <=> Fails(j)
  <2>1. \A j : Offered(j)' <=> Offered(j)
    BY <1>1, <1>2, <1>5 DEF Offered
  <2>2. \A j : Blocks(j)' <=> Blocks(j)
    BY <1>1, <1>2, <1>5 DEF Blocks, Unseen
  <2>3. \A j : Breaks(j)' <=> Breaks(j)
    BY <1>1, <1>2, <1>5, <2>1 DEF Breaks, NoStat
  <2> QED
    BY <2>1, <2>2, <2>3 DEF Fails
<1>7. \A j : Reached(j)' <=> Reached(j)
  BY <1>2, <1>4 DEF Reached
<1>8. Offers' = Offers
  <2>1. Offers' = [j \in 1..Len(Entries) |-> IF Offered(j)' THEN << <<j>> >> ELSE <<>>]
    BY <1>2 DEF Offers
  <2> QED
    BY <1>6, <2>1 DEF Offers
<1>9. Candidates' = Candidates
  BY <1>2, <1>8 DEF Candidates
<1> QED
  BY <1>1, <1>2, <1>3, <1>5, <1>6, <1>7, <1>8, <1>9
\* An entry is offered, or not, and the iterator goes on from it.
LEMMA OfferedStep ==
  ASSUME ShapeInv, LimitInv, phase = "walk", at <= Len(Entries), Listed(at, found),
         ~error, ~truncated, Visited(at), ~Unseen(Current), Offered(at) => ~NoStat(Current),
         UNCHANGED input, Advance,
         truncated' = truncated, found' = Chain(Offers)[at], Len(found') <= query.limit,
         query.tool \in {"list", "find"}
  PROVE  WalkInv'
<1>1. CASE Recursive /\ Current.kind = "denied"
  <2>1. Breaks(at) /\ at \in 0..Len(Entries) /\ at > 0
    BY <1>1, EntryFacts DEF Breaks, Current, ShapeInv
  <2>2. PICK f, t : f = found' /\ t = truncated'
    OBVIOUS
  <2>3. Answered(f, TRUE, t)
    BY <2>1, <2>2, ThrowAnswer
  <2>4. phase' = "done" /\ error' = TRUE
    BY <1>1 DEF Advance, Throw
  <2>5. Answered(found, error, truncated)'
    BY <2>2, <2>3, <2>4, InputStays DEF Answered, Stop, More
  <2> QED
    BY <2>4, <2>5 DEF WalkInv
<1>2. CASE ~(Recursive /\ Current.kind = "denied")
  <2>1. at' = Following(Recursive) /\ phase' = phase /\ error' = error
    BY <1>2 DEF Advance
  <2>2. PICK n : n = at'
    OBVIOUS
  <2>3. ~Fails(at) /\ Reached(at) /\ \A j \in 1..at - 1 : ~Fails(j)
    BY <1>2 DEF Fails, Blocks, Breaks, Current, Listed
  <2>4. ~(Recursive /\ Current.kind = "ignored")
    <3>1. PICK m : Goes(m)
      BY DEF Goes, Skips
    <3> QED
      BY <2>3, <3>1, Onward
  <2>5. Goes(n)
    BY <2>1, <2>2, <2>4 DEF Goes
  <2>6. Listed(n, Chain(Offers)[at])
    BY <2>3, <2>5, ListedOn
  <2>7. Listed(at, found)'
    BY <2>2, <2>6, InputStays DEF Listed
  <2> QED
    BY <2>1, <2>7 DEF WalkInv
<1> QED
  BY <1>1, <1>2

\* Every step keeps what fs_list and fs_find have.
LEMMA WalkNext ==
  ASSUME SearchInv, WalkInv, [Next]_vars
  PROVE  WalkInv'
<1> SUFFICES ASSUME query'.tool \in {"list", "find"} PROVE WalkInv'
  BY DEF WalkInv
<1>1. UNCHANGED input
  BY DEF Next, vars, Check, SkipIgnored, LookFails, Offer, GrepBreak, GrepSkip, GrepOpen, GrepLine,
     TailLine, TailEnd, EndOfWalk
<1>2. /\ ShapeInv /\ LimitInv /\ query.tool \in {"list", "find"} /\ phase # "file"
      /\ phase = "check" => at = 1 /\ ~error /\ ~truncated
      /\ phase = "walk" => ~error /\ ~truncated /\ Listed(at, found)
      /\ phase = "done" /\ Accepted => Answered(found, error, truncated)
  BY <1>1, InputStays DEF SearchInv, WalkInv
<1>3. Len(found) <= query.limit /\ query.limit \in Nat /\ found \in Seq(Found)
  BY <1>2, InputFacts DEF LimitInv, ShapeInv
<1>4. CASE UNCHANGED <<phase, at, found, truncated, error>>
  BY <1>1, <1>2, <1>4, InputStays DEF WalkInv, Listed, Answered, Stop, More
<1>5. CASE Check
  <2>1. /\ phase = "check" /\ at = 1 /\ at' = at /\ found' = found /\ found = <<>>
        /\ truncated' = truncated /\ ~error /\ ~truncated
    BY <1>2, <1>5 DEF Check, ShapeInv
  <2>2. CASE ~Accepted
    BY <1>1, <1>5, <2>1, <2>2, InputStays DEF Check, Throw, WalkInv
  <2>3. CASE Accepted
    <3>1. phase' = "walk" /\ error' = error
      BY <1>2, <1>5, <2>3 DEF Check
    <3>2. Listed(1, <<>>)
      <4>1. Reached(1)
        BY <1>2, EntryFacts DEF ShapeInv, Reached
      <4>2. Chain(Offers)[0] = <<>>
        BY <1>2, OffersTyped, ChainStep DEF ShapeInv
      <4> QED
        BY <4>1, <4>2 DEF Listed
    <3>3. Listed(at, found)'
      BY <1>1, <2>1, <3>2, InputStays DEF Listed
    <3> QED
      BY <2>1, <3>1, <3>3 DEF WalkInv
  <2> QED
    BY <2>2, <2>3
<1>6. CASE SkipIgnored
  <2>1. /\ phase = "walk" /\ at <= Len(Entries) /\ Recursive /\ Current.kind = "ignored"
        /\ at' = Following(FALSE) /\ UNCHANGED <<phase, found, truncated, error>>
    BY <1>6 DEF SkipIgnored, AtEntry
  <2>2. PICK n : n = at'
    OBVIOUS
  <2>3. Goes(n) /\ Reached(at) /\ \A j \in 1..at - 1 : ~Fails(j)
    BY <1>2, <2>1, <2>2 DEF Goes, Skips, Listed
  <2>4. ~Visited(at) /\ ~Fails(at)
    <3>1. ~Visited(at)
      BY <1>2, <2>1, <2>3, Onward
    <3> QED
      BY <3>1 DEF Fails, Blocks, Breaks, Offered
  <2>5. Listed(n, Chain(Offers)[at])
    BY <1>2, <2>1, <2>3, <2>4, ListedOn
  <2>6. Chain(Offers)[at] = found
    BY <1>2, <2>1, <2>4, OfferAdds DEF Offered, Listed
  <2>7. Listed(at, found)'
    BY <1>1, <2>1, <2>2, <2>5, <2>6, InputStays DEF Listed
  <2> QED
    BY <1>2, <2>1, <2>7 DEF WalkInv
<1>7. CASE Offer
  <2>1. /\ phase = "walk" /\ at <= Len(Entries) /\ ~error /\ ~truncated /\ Listed(at, found)
        /\ ~(Recursive /\ Current.kind = "ignored") /\ ~Unseen(Current)
    BY <1>2, <1>7 DEF Offer, AtEntry
  <2>2. Visited(at)
    <3>1. PICK n : Goes(n)
      BY DEF Goes, Skips
    <3> QED
      BY <1>2, <2>1, <3>1, Onward DEF Listed
  <2>3. CASE query.tool = "find" /\ ~Current.hit
    <3>1. Advance /\ found' = found /\ truncated' = truncated
      BY <1>7, <2>3 DEF Offer
    <3>2. ~Offered(at)
      BY <2>3 DEF Offered, Current
    <3>3. found' = Chain(Offers)[at]
      BY <1>2, <2>1, <3>1, <3>2, OfferAdds DEF Listed
    <3> QED
      BY <1>1, <1>2, <1>3, <2>1, <2>2, <3>1, <3>2, <3>3, OfferedStep
  <2>4. CASE ~(query.tool = "find" /\ ~Current.hit)
    <3>1. Offered(at)
      BY <2>2, <2>4 DEF Offered, Current
    <3>2. CASE Full
      <4>1. /\ phase' = "done" /\ truncated' = TRUE /\ UNCHANGED <<at, found, error>>
        BY <1>7, <2>4, <3>2 DEF Offer, Finish
      <4>2. Len(found) = query.limit
        BY <1>3, <3>2, LenProperties DEF Full
      <4>3. Answered(found, FALSE, TRUE)
        <5>1. ~Blocks(at)
          BY <2>1 DEF Blocks, Current
        <5> QED
          BY <1>2, <2>1, <3>1, <4>2, <5>1, FullAnswer
      <4>4. Answered(found, error, truncated)'
        <5>1. error' = FALSE
          BY <1>2, <2>1, <4>1 DEF ShapeInv
        <5> QED
          BY <1>1, <4>1, <4>3, <5>1, InputStays DEF Answered, Stop, More
      <4> QED
        BY <4>1, <4>4 DEF WalkInv
    <3>3. CASE ~Full
      <4>1. PICK u, t : u = Append(found, <<at>>) /\ t = truncated
        OBVIOUS
      <4>2. u = Chain(Offers)[at]
        BY <1>2, <2>1, <3>1, <4>1, OfferAdds DEF Listed
      <4>3. Len(u) <= query.limit
        <5>1. <<at>> \in Found
          BY <1>2 DEF ShapeInv, Found
        <5>2. Len(u) = Len(found) + 1 /\ Len(found) \in Nat
          BY <1>3, <4>1, <5>1, AppendProperties, LenProperties
        <5> QED
          BY <1>3, <3>3, <5>2 DEF Full
      <4>4. CASE NoStat(Current)
        <5>1. phase' = "done" /\ error' = TRUE /\ UNCHANGED <<at, found, truncated>>
          BY <1>7, <2>4, <3>3, <4>4 DEF Offer, Throw
        <5>2. Breaks(at) /\ at \in 0..Len(Entries) /\ at > 0
          BY <1>2, <2>1, <3>1, <4>4, EntryFacts DEF Breaks, Current, ShapeInv
        <5>3. PICK f : f = found
          OBVIOUS
        <5>4. Answered(f, TRUE, t)
          BY <1>2, <4>2, <4>3, <5>2, ThrowAnswer
        <5>5. Answered(found, error, truncated)'
          BY <1>1, <4>1, <5>1, <5>3, <5>4, InputStays DEF Answered, Stop, More
        <5> QED
          BY <5>1, <5>5 DEF WalkInv
      <4>5. CASE ~NoStat(Current)
        <5>1. Advance /\ found' = u /\ truncated' = truncated
          BY <1>7, <2>4, <3>3, <4>1, <4>5 DEF Offer
        <5> QED
          BY <1>1, <1>2, <2>1, <2>2, <4>2, <4>3, <4>5, <5>1, OfferedStep
      <4> QED
        BY <4>4, <4>5
    <3> QED
      BY <3>2, <3>3
  <2> QED
    BY <2>3, <2>4
<1>8. CASE EndOfWalk
  <2>1. /\ phase = "walk" /\ at > Len(Entries) /\ phase' = "done" /\ truncated' = FALSE
        /\ UNCHANGED <<at, found, error>>
    BY <1>2, <1>8 DEF EndOfWalk, Finish
  <2>2. at = Len(Entries) + 1
    BY <1>2, <2>1, EntryFacts DEF ShapeInv
  <2>3. Answered(found, FALSE, FALSE)
    BY <1>2, <1>3, <2>1, <2>2, EndAnswer
  <2>4. Answered(found, error, truncated)'
    <3>1. error' = FALSE
      BY <1>2, <2>1 DEF ShapeInv
    <3> QED
      BY <1>1, <2>1, <2>3, <3>1, InputStays DEF Answered, Stop, More
  <2> QED
    BY <2>1, <2>4 DEF WalkInv
<1>9. CASE LookFails
  <2>1. /\ phase = "walk" /\ at <= Len(Entries) /\ Listed(at, found) /\ Unseen(Current)
        /\ phase' = "done" /\ error' = TRUE /\ UNCHANGED <<at, found, truncated>>
    BY <1>2, <1>9 DEF LookFails, AtEntry, Throw
  <2>2. Visited(at)
    <3>1. ~(Recursive /\ Current.kind = "ignored")
      BY <1>2, <2>1 DEF Unseen
    <3>2. PICK n : Goes(n)
      BY DEF Goes, Skips
    <3> QED
      BY <1>2, <2>1, <3>1, <3>2, Onward DEF Listed
  <2>3. PICK p, u, f, t : p = at - 1 /\ u = Chain(Offers)[p] /\ f = found /\ t = truncated
    OBVIOUS
  <2>4. p \in 0..Len(Entries) /\ p < Len(Entries) /\ p + 1 = at /\ Blocks(p + 1)
    <3>1. at \in 1..Len(Entries) /\ Len(Entries) \in Nat /\ Blocks(at)
      BY <1>2, <2>1, <2>2, EntryFacts DEF ShapeInv, Blocks, Current
    <3> QED
      BY <2>3, <3>1
  <2>5. Len(u) <= query.limit
    BY <1>3, <2>1, <2>3 DEF Listed
  <2>6. Answered(f, TRUE, t)
    BY <1>2, <2>3, <2>4, <2>5, ThrowAnswer
  <2>7. Answered(found, error, truncated)'
    BY <1>1, <2>1, <2>3, <2>6, InputStays DEF Answered, Stop, More
  <2> QED
    BY <2>1, <2>7 DEF WalkInv
<1>10. ~GrepBreak /\ ~GrepSkip /\ ~GrepOpen /\ ~GrepLine /\ ~TailLine /\ ~TailEnd
  BY <1>2 DEF GrepBreak, GrepSkip, GrepOpen, GrepLine, TailLine, TailEnd
<1> QED
  BY <1>4, <1>5, <1>6, <1>7, <1>8, <1>9, <1>10 DEF Next, vars

\* fs_list and fs_find return the first entries that qualify, in the order of the walk,
\* and tell whether there are more, or fail at the first directory, link or entry that
\* cannot be opened, followed or looked at before the limit: for any tree and any limit.
THEOREM WalkCorrect == Spec => []WalkAsDefined
<1>1. Init => WalkInv
  BY DEF Init, WalkInv
<1>2. SearchInv /\ WalkInv /\ [Next]_vars => WalkInv'
  BY WalkNext
<1>3. WalkInv => WalkAsDefined
  BY Zenon DEF WalkInv, WalkAsDefined, Answered, Stop, More
<1> QED
  BY <1>1, <1>2, <1>3, SearchCorrect, PTL DEF Spec
-----------------------------------------------------------------------------
\* The context of a line is a sequence of line numbers.
LEMMA ContextTyped ==
  ASSUME tree \in Trees, query \in Queries, NEW j \in 1..Len(Entries),
         NEW l \in 1..Len(Entries[j].lines)
  PROVE  ContextOf(j, l) \in Seq(Nat)
<1>1. PICK f, t : f = First(l) /\ t = Least(Len(Entries[j].lines), l + query.context)
  OBVIOUS
<1>2. /\ l \in Nat /\ query.context \in Nat /\ Len(Entries[j].lines) \in Nat
      /\ l <= Len(Entries[j].lines) /\ l >= 1
  BY InputFacts
<1>3. f \in Nat /\ f >= 1 /\ f <= l
  BY <1>1, <1>2 DEF First
<1>4. t \in Nat /\ l <= t
  BY <1>1, <1>2 DEF Least
<1>5. PICK n \in Nat : n = t + 1 - f
  BY <1>3, <1>4
<1>6. LineRange(f, t) \in Seq(Nat)
  BY <1>3, <1>4, <1>5, RangeIsRun DEF Run
<1>7. ContextOf(j, l) = LineRange(f, t)
  BY <1>1, Zenon DEF ContextOf, First
<1> QED
  BY <1>6, <1>7

\* The matches of an entry, line by line.
LEMMA MatchesTyped ==
  ASSUME tree \in Trees, query \in Queries, NEW j \in 1..Len(Entries)
  PROVE  /\ Matches(j) \in Seq(Seq(Found)) /\ Len(Matches(j)) = Len(Entries[j].lines)
         /\ Len(Entries[j].lines) \in Nat
         /\ \A l \in 1..Len(Entries[j].lines) :
               Matches(j)[l] = IF Entries[j].lines[l] THEN << <<j, l, ContextOf(j, l)>> >>
                               ELSE <<>>
<1>1. PICK L \in Nat : L = Len(Entries[j].lines)
  BY InputFacts
<1>2. ASSUME NEW l \in 1..L PROVE << <<j, l, ContextOf(j, l)>> >> \in Seq(Found)
  <2>1. j \in Nat /\ l \in Nat /\ ContextOf(j, l) \in Seq(Nat)
    BY <1>1, ContextTyped, InputFacts
  <2>2. <<j, l, ContextOf(j, l)>> \in Found
    BY <2>1 DEF Found
  <2> QED
    BY <2>2
<1>3. Matches(j) = [l \in 1..L |-> IF Entries[j].lines[l] THEN << <<j, l, ContextOf(j, l)>> >>
                                   ELSE <<>>]
  BY <1>1, Zenon DEF Matches
<1>4. Matches(j) \in [1..L -> Seq(Found)]
  <2>1. <<>> \in Seq(Found)
    BY EmptySeq
  <2> QED
    BY <1>2, <1>3, <2>1
<1>5. Matches(j) \in Seq(Seq(Found))
  BY <1>4, SeqDef
<1>6. Len(Matches(j)) = L
  BY <1>4, <1>5, LenProperties
<1> QED
  BY <1>1, <1>3, <1>5, <1>6

\* The hits of a walk, entry by entry.
LEMMA HitsTyped ==
  ASSUME tree \in Trees, query \in Queries
  PROVE  /\ Hits \in Seq(Seq(Found)) /\ Len(Hits) = Len(Entries) /\ Len(Entries) \in Nat
         /\ \A j \in 1..Len(Entries) :
               Hits[j] = IF Visited(j) THEN Chain(Matches(j))[Len(Entries[j].lines)] ELSE <<>>
<1>1. PICK N \in Nat : N = Len(Entries)
  BY EntryFacts
<1>2. ASSUME NEW j \in 1..N PROVE Chain(Matches(j))[Len(Entries[j].lines)] \in Seq(Found)
  <2>1. /\ Matches(j) \in Seq(Seq(Found)) /\ Len(Matches(j)) = Len(Entries[j].lines)
        /\ Len(Entries[j].lines) \in Nat
    BY <1>1, MatchesTyped
  <2>2. Len(Entries[j].lines) \in 0..Len(Matches(j))
    BY <2>1
  <2> QED
    BY <2>1, <2>2, ChainTyped
<1>3. Hits = [j \in 1..N |-> IF Visited(j) THEN Chain(Matches(j))[Len(Entries[j].lines)]
                             ELSE <<>>]
  BY <1>1, Zenon DEF Hits
<1>4. Hits \in [1..N -> Seq(Found)]
  <2>1. <<>> \in Seq(Found)
    BY EmptySeq
  <2> QED
    BY <1>2, <1>3, <2>1
<1>5. Hits \in Seq(Seq(Found))
  BY <1>4, SeqDef
<1>6. Len(Hits) = N
  BY <1>4, <1>5, LenProperties
<1> QED
  BY <1>1, <1>3, <1>5, <1>6

\* The hits up to an entry are among all hits.
LEMMA HitsUpTo ==
  ASSUME ShapeInv, NEW p \in 0..Len(Entries), NEW s, s = Chain(Hits)[p]
  PROVE  /\ s \in Seq(Found) /\ AllHits \in Seq(Found)
         /\ Len(s) \in Nat /\ Len(AllHits) \in Nat
         /\ Len(s) <= Len(AllHits) /\ \A i \in 1..Len(s) : AllHits[i] = s[i]
         /\ p = Len(Entries) => s = AllHits
<1>1. PICK N : N = Len(Entries)
  OBVIOUS
<1>2. /\ N \in Nat /\ Hits \in Seq(Seq(Found)) /\ Len(Hits) = N
      /\ p \in 0..N /\ N \in p..N /\ N \in 0..N
  BY <1>1, HitsTyped DEF ShapeInv
<1>3. AllHits = Chain(Hits)[N]
  BY <1>1 DEF AllHits
<1>4. s \in Seq(Found) /\ AllHits \in Seq(Found)
  BY <1>2, <1>3, ChainTyped
<1>5. Extends(AllHits, s, Hits, p, N)
  BY <1>2, <1>3, ChainExtends
<1> QED
  BY <1>1, <1>3, <1>4, <1>5, LenProperties DEF Extends

\* There are no hits between an entry and the next.
LEMMA HitsOn ==
  ASSUME ShapeInv, at <= Len(Entries), Reached(at), NEW n, Goes(n)
  PROVE  /\ Reached(n) /\ n \in at + 1..Len(Entries) + 1
         /\ Chain(Hits)[n - 1] = Chain(Hits)[at]
<1>1. /\ n \in at + 1..Len(Entries) + 1 /\ Reached(n)
      /\ \A j \in at + 1..n - 1 : ~Visited(j)
  BY Onward
<1>2. PICK N : N = Len(Entries)
  OBVIOUS
<1>3. /\ at \in 1..N /\ N \in Nat /\ Hits \in Seq(Seq(Found)) /\ Len(Hits) = N
      /\ \A j \in 1..N : ~Visited(j) => Hits[j] = <<>>
  BY <1>2, HitsTyped DEF ShapeInv
<1>4. \A j \in at + 1..n - 1 : Hits[j] = <<>>
  <2> SUFFICES ASSUME NEW j \in at + 1..n - 1 PROVE Hits[j] = <<>>
    OBVIOUS
  <2>1. j \in 1..N
    BY <1>1, <1>2, <1>3
  <2> QED
    BY <1>1, <1>3, <2>1
<1>5. at \in 0..Len(Hits) /\ n - 1 \in at..Len(Hits)
  BY <1>1, <1>2, <1>3
<1>6. Chain(Hits)[n - 1] = Chain(Hits)[at]
  BY <1>3, <1>4, <1>5, ChainSame
<1> QED
  BY <1>1, <1>6

\* The hits of the entries before one, and its matches up to a line.
UpTo(p, l, s) == s = Chain(Hits)[p - 1] \o Chain(Matches(p))[l]

\* The matches of an entry up to a line, behind the hits before the entry, begin the hits
\* up to the entry.
LEMMA MatchesUpTo ==
  ASSUME ShapeInv, at <= Len(Entries), Visited(at), NEW l \in 0..Len(Lines),
         NEW s, UpTo(at, l, s), NEW u, u = Chain(Hits)[at]
  PROVE  /\ s \in Seq(Found) /\ u \in Seq(Found) /\ Len(s) \in Nat /\ Len(u) \in Nat
         /\ Len(s) <= Len(u) /\ \A i \in 1..Len(s) : u[i] = s[i]
         /\ l = Len(Lines) => s = u
<1>1. PICK N, L : N = Len(Entries) /\ L = Len(Entries[at].lines)
  OBVIOUS
<1>2. PICK h, m, w : h = Chain(Hits)[at - 1] /\ m = Chain(Matches(at))[l]
                     /\ w = Chain(Matches(at))[L]
  OBVIOUS
<1>3. /\ at \in 1..N /\ N \in Nat /\ Hits \in Seq(Seq(Found)) /\ Len(Hits) = N
      /\ Hits[at] = w /\ at - 1 \in 0..N /\ at \in 0..N
  BY <1>1, <1>2, HitsTyped DEF ShapeInv
<1>4. /\ Matches(at) \in Seq(Seq(Found)) /\ Len(Matches(at)) = L /\ L \in Nat
      /\ l \in 0..L /\ L \in l..L /\ L \in 0..L
  BY <1>1, <1>3, MatchesTyped DEF ShapeInv, Lines, Current
<1>5. h \in Seq(Found) /\ u \in Seq(Found) /\ u = h \o w
  BY <1>2, <1>3, ChainTyped, ChainStep
<1>6. m \in Seq(Found) /\ w \in Seq(Found) /\ Extends(w, m, Matches(at), l, L)
  BY <1>2, <1>4, ChainTyped, ChainExtends
<1>7. Len(m) <= Len(w) /\ \A i \in 1..Len(m) : w[i] = m[i]
  BY <1>6 DEF Extends
<1>8. s = h \o m
  BY <1>2 DEF UpTo
<1>9. /\ s \in Seq(Found) /\ Len(s) = Len(h) + Len(m)
      /\ \A i \in 1..Len(h) + Len(m) : s[i] = IF i <= Len(h) THEN h[i] ELSE m[i - Len(h)]
  BY <1>5, <1>6, <1>8, ConcatProperties
<1>10. /\ Len(u) = Len(h) + Len(w)
       /\ \A i \in 1..Len(h) + Len(w) : u[i] = IF i <= Len(h) THEN h[i] ELSE w[i - Len(h)]
  BY <1>5, <1>6, ConcatProperties
<1>11. Len(h) \in Nat /\ Len(m) \in Nat /\ Len(w) \in Nat
  BY <1>5, <1>6, LenProperties
<1>12. ASSUME NEW i \in 1..Len(s) PROVE u[i] = s[i]
  <2>1. CASE i <= Len(h)
    <3>1. i \in 1..Len(h) + Len(m) /\ i \in 1..Len(h) + Len(w)
      BY <1>7, <1>9, <1>11, <2>1
    <3> QED
      BY <1>9, <1>10, <2>1, <3>1
  <2>2. CASE ~(i <= Len(h))
    <3>1. i - Len(h) \in 1..Len(m) /\ i \in 1..Len(h) + Len(w)
      BY <1>7, <1>9, <1>11, <2>2
    <3> QED
      BY <1>7, <1>9, <1>10, <2>2, <3>1
  <2> QED
    BY <2>1, <2>2
<1>13. Len(s) \in Nat /\ Len(u) \in Nat /\ Len(s) <= Len(u)
  BY <1>7, <1>9, <1>10, <1>11
<1>14. l = Len(Lines) => s = u
  <2>1. l = Len(Lines) => m = w
    BY <1>1, <1>2 DEF Lines, Current
  <2> QED
    BY <1>5, <1>8, <2>1
<1> QED
  BY <1>5, <1>9, <1>12, <1>13, <1>14
-----------------------------------------------------------------------------
\* What fs_grep has between two entries, in an entry before one of its lines, and what
\* it is to answer.
GrepAt(p, f) == Reached(p) /\ f = FirstOf(Chain(Hits)[p - 1], query.limit)
InFile(p, l, f) == Reached(p) /\ Visited(p) /\ UpTo(p, l - 1, f)
Result(f, cut) == f = FirstOf(AllHits, query.limit) /\ (~cut => f = AllHits)
GrepWalkInv ==
  query.tool = "grep" =>
      /\ phase = "check" => at = 1
      /\ phase = "walk" => GrepAt(at, found)
      /\ phase = "file" => InFile(at, curr, found)
      /\ phase = "done" /\ ~error => Result(found, truncated)

\* What the lines of the input decide does not change.
LEMMA HitsStay ==
  ASSUME UNCHANGED input
  PROVE  /\ \A j : Matches(j)' = Matches(j)
         /\ Hits' = Hits /\ AllHits' = AllHits
         /\ \A p, l, f : UpTo(p, l, f)' <=> UpTo(p, l, f)
<1>1. /\ tree' = tree /\ query' = query /\ Entries' = Entries
      /\ \A j : Visited(j)' <=> Visited(j)
  BY InputStays
<1>2. \A j, l : ContextOf(j, l)' = ContextOf(j, l)
  BY <1>1 DEF ContextOf
<1>3. \A j : Matches(j)' = Matches(j)
  BY <1>1, <1>2 DEF Matches
<1>4. Hits' = [j \in 1..Len(Entries) |->
                  IF Visited(j)' THEN Chain(Matches(j)')[Len(Entries[j].lines)] ELSE <<>>]
  BY <1>1 DEF Hits
<1>5. Hits' = Hits
  BY <1>1, <1>3, <1>4 DEF Hits
<1>6. ASSUME NEW p, NEW l, NEW f PROVE UpTo(p, l, f)' <=> UpTo(p, l, f)
  BY <1>3, <1>5, Zenon DEF UpTo
<1> QED
  BY <1>1, <1>3, <1>5, <1>6 DEF AllHits

\* A walk goes on from a visited entry as the iterator does.
LEMMA GoesOn ==
  ASSUME ShapeInv, at <= Len(Entries), Reached(at), NEW n, n = Following(Recursive),
         ~(Recursive /\ Current.kind = "ignored")
  PROVE  Goes(n) /\ Visited(at)
<1>1. Goes(n)
  BY DEF Goes
<1> QED
  BY <1>1, Onward

\* The walk goes on from an entry with the hits up to it.
LEMMA GrepOn ==
  ASSUME ShapeInv, at <= Len(Entries), Reached(at), NEW n, Goes(n),
         NEW f, f = FirstOf(Chain(Hits)[at], query.limit)
  PROVE  GrepAt(n, f)
BY HitsOn DEF GrepAt

\* An entry without matching lines adds no hits.
LEMMA NoHits ==
  ASSUME ShapeInv, at <= Len(Entries), ~Visited(at) \/ Lines = <<>>
  PROVE  Chain(Hits)[at] = Chain(Hits)[at - 1]
<1>1. PICK N : N = Len(Entries)
  OBVIOUS
<1>2. /\ at \in 1..N /\ N \in Nat /\ Hits \in Seq(Seq(Found)) /\ Len(Hits) = N
      /\ Hits[at] = IF Visited(at) THEN Chain(Matches(at))[Len(Lines)] ELSE <<>>
  BY <1>1, HitsTyped DEF ShapeInv, Lines, Current
<1>3. Hits[at] = <<>>
  <2>1. CASE ~Visited(at)
    BY <1>2, <2>1
  <2>2. CASE Visited(at)
    <3>1. Len(Lines) = 0
      BY <2>2, EmptySeq
    <3>2. Len(Matches(at)) \in Nat
      BY <1>1, <1>2, MatchesTyped DEF ShapeInv
    <3>3. Chain(Matches(at))[0] = <<>>
      BY <3>2, ChainStep
    <3> QED
      BY <1>2, <2>2, <3>1, <3>3
  <2> QED
    BY <2>1, <2>2
<1>4. at - 1 \in 0..Len(Hits) /\ at \in at - 1..Len(Hits) /\ \A k \in (at - 1) + 1..at : k = at
  BY <1>2
<1>5. \A k \in (at - 1) + 1..at : Hits[k] = <<>>
  BY <1>3, <1>4
<1> QED
  BY <1>2, <1>4, <1>5, ChainSame

\* When the limit is reached, no later entry changes the answer.
LEMMA FullHits ==
  ASSUME ShapeInv, NEW p \in 0..Len(Entries), NEW f,
         f = FirstOf(Chain(Hits)[p], query.limit), Len(f) >= query.limit
  PROVE  FirstOf(AllHits, query.limit) = f
<1>1. PICK n : n = query.limit
  OBVIOUS
<1>2. n \in Nat
  BY <1>1, InputFacts DEF ShapeInv
<1>3. PICK s : s = Chain(Hits)[p]
  OBVIOUS
<1>4. /\ s \in Seq(Found) /\ AllHits \in Seq(Found) /\ Len(s) \in Nat
      /\ Len(AllHits) \in Nat /\ Len(s) <= Len(AllHits)
      /\ \A i \in 1..Len(s) : AllHits[i] = s[i]
  BY <1>3, HitsUpTo
<1>5. /\ f \in Seq(Found) /\ Len(f) <= n /\ Len(f) <= Len(s)
      /\ \A i \in 1..Len(f) : s[i] = f[i]
  BY <1>1, <1>2, <1>3, <1>4, FirstOfAll
<1>6. Len(f) \in Nat
  BY <1>5, LenProperties
<1>7. Len(f) = n /\ Len(f) <= Len(AllHits) /\ \A i \in 1..Len(f) : AllHits[i] = f[i]
  BY <1>1, <1>2, <1>4, <1>5, <1>6
<1> QED
  BY <1>1, <1>2, <1>4, <1>5, <1>7, FirstOfIs

\* A line is followed by the next, or was the last.
LEMMA SlideForms ==
  ASSUME ShapeInv, GrepInv, phase = "file", query.tool = "grep", Slide
  PROVE  \/ curr' = curr + 1 /\ UNCHANGED <<phase, at>>
         \/ LeaveFile /\ curr = Len(Lines)
<1>1. /\ curr \in Nat \ {0} /\ last \in Nat /\ Len(Lines) \in Nat
      /\ curr <= last /\ last <= Len(Lines) /\ lookahead = LineRange(curr + 1, last)
  BY WindowOfRanges DEF GrepInv
<1>2. CASE curr + 1 <= last
  <2>1. curr + 1 \in Nat /\ last \in Nat
    BY <1>1
  <2>2. /\ LineRange(curr + 1, last) # <<>> /\ Head(LineRange(curr + 1, last)) = curr + 1
    BY <1>2, <2>1, RangeTail
  <2> QED
    BY <1>1, <2>2 DEF Slide
<1>3. CASE ~(curr + 1 <= last)
  <2>1. last = curr /\ curr + 1 = last + 1
    BY <1>1, <1>3
  <2>2. lookahead = <<>>
    BY <1>1, <2>1, EmptyRange
  <2>3. CASE last < Len(Lines)
    BY <2>1, <2>2, <2>3 DEF Slide, ReadWindow
  <2>4. CASE ~(last < Len(Lines))
    BY <1>1, <2>1, <2>2, <2>4 DEF Slide
  <2> QED
    BY <2>3, <2>4
<1> QED
  BY <1>2, <1>3

\* A file is left at its last line or at the limit, with the hits up to it.
LEMMA FileLeft ==
  ASSUME ShapeInv, at <= Len(Entries), Visited(at), NEW l \in 0..Len(Lines),
         NEW s, UpTo(at, l, s), Len(s) <= query.limit,
         l = Len(Lines) \/ Len(s) >= query.limit
  PROVE  s = FirstOf(Chain(Hits)[at], query.limit)
<1>1. PICK n, u : n = query.limit /\ u = Chain(Hits)[at]
  OBVIOUS
<1>2. n \in Nat
  BY <1>1, InputFacts DEF ShapeInv
<1>3. /\ s \in Seq(Found) /\ u \in Seq(Found) /\ Len(s) \in Nat /\ Len(u) \in Nat
      /\ Len(s) <= Len(u) /\ \A i \in 1..Len(s) : u[i] = s[i]
      /\ l = Len(Lines) => s = u
  BY <1>1, MatchesUpTo
<1>4. Len(s) = n \/ (Len(s) = Len(u) /\ Len(s) <= n)
  BY <1>1, <1>2, <1>3
<1>5. FirstOf(u, n) = s
  BY <1>2, <1>3, <1>4, FirstOfIs
<1> QED
  BY <1>1, <1>5

\* One round of search_file adds the matches of its line.
LEMMA GrepLineAdds ==
  ASSUME ShapeInv, GrepInv, InFile(at, curr, found), GrepLine
  PROVE  UpTo(at, curr, found')
<1>1. phase = "file" /\ query.tool = "grep" /\ at <= Len(Entries)
  BY DEF GrepLine, GrepInv
<1>2. PICK L, e : L = Len(Lines) /\ e = Matches(at)[curr]
  OBVIOUS
<1>3. /\ at \in 1..Len(Entries) /\ at \in Nat /\ curr \in 1..L /\ L \in Nat
      /\ at - 1 \in 0..Len(Entries)
  BY <1>1, <1>2, WindowOfRanges, EntryFacts DEF ShapeInv, GrepInv
<1>4. /\ Matches(at) \in Seq(Seq(Found)) /\ Len(Matches(at)) = L
      /\ e = IF Lines[curr] THEN << <<at, curr, ContextOf(at, curr)>> >> ELSE <<>>
  BY <1>2, <1>3, MatchesTyped DEF ShapeInv, Lines, Current
<1>5. PICK h, m, w : /\ h = Chain(Hits)[at - 1] /\ m = Chain(Matches(at))[curr - 1]
                     /\ w = Chain(Matches(at))[curr]
  OBVIOUS
<1>6. curr - 1 \in 0..L /\ curr \in 0..L
  BY <1>3
<1>7. w = m \o e /\ m \in Seq(Found)
  BY <1>2, <1>3, <1>4, <1>5, <1>6, ChainStep, ChainTyped
<1>8. h \in Seq(Found)
  BY <1>3, <1>5, HitsUpTo
<1>9. found = h \o m
  BY <1>5 DEF InFile, UpTo
<1>10. CASE Lines[curr]
  <2>1. PICK x : x = <<at, curr, ContextOf(at, curr)>>
    OBVIOUS
  <2>2. prev \o <<curr>> \o lookahead = ContextOf(at, curr)
    <3>1. prev \o <<curr>> \o lookahead = LineRange(First(curr), last)
      BY <1>1, WindowOfRanges
    <3>2. ContextOf(at, curr)
            = LineRange(First(curr), Least(Len(Lines), curr + query.context))
      BY Zenon DEF ContextOf, First, Lines, Current
    <3>3. last = Least(Len(Lines), curr + query.context)
      BY <1>1 DEF GrepInv
    <3> QED
      BY <3>1, <3>2, <3>3
  <2>3. found' = Append(found, x)
    BY <1>10, <2>1, <2>2 DEF GrepLine
  <2>4. x \in Found
    <3>1. ContextOf(at, curr) \in Seq(Nat)
      BY <1>1, <2>2, WindowOfRanges
    <3> QED
      BY <1>3, <2>1, <3>1 DEF Found
  <2>5. e = <<x>> /\ <<x>> \in Seq(Found)
    BY <1>4, <1>10, <2>1, <2>4
  <2>6. h \o m \in Seq(Found)
    BY <1>7, <1>8, ConcatProperties
  <2>7. Append(found, x) = found \o <<x>>
    BY <1>9, <2>4, <2>6, AppendIsConcat
  <2>8. (h \o m) \o <<x>> = h \o (m \o <<x>>)
    BY <1>7, <1>8, <2>5, ConcatAssociative
  <2> QED
    BY <1>5, <1>7, <1>9, <2>3, <2>5, <2>7, <2>8 DEF UpTo
<1>11. CASE ~Lines[curr]
  <2>1. e = <<>> /\ found' = found
    BY <1>4, <1>11 DEF GrepLine
  <2>2. m \o <<>> = m
    BY <1>7, ConcatEmptySeq
  <2> QED
    BY <1>5, <1>7, <1>9, <2>1, <2>2 DEF UpTo
<1> QED
  BY <1>10, <1>11
\* Every step keeps what fs_grep has.
LEMMA GrepNext ==
  ASSUME SearchInv, GrepWalkInv, [Next]_vars
  PROVE  GrepWalkInv'
<1> SUFFICES ASSUME query'.tool = "grep" PROVE GrepWalkInv'
  BY DEF GrepWalkInv
<1>1. UNCHANGED input
  BY DEF Next, vars, Check, SkipIgnored, LookFails, Offer, GrepBreak, GrepSkip, GrepOpen, GrepLine,
     TailLine, TailEnd, EndOfWalk
<1>2. /\ ShapeInv /\ LimitInv /\ GrepInv /\ query.tool = "grep"
      /\ phase = "check" => at = 1
      /\ phase = "walk" => GrepAt(at, found)
      /\ phase = "file" => InFile(at, curr, found)
      /\ phase = "done" /\ ~error => Result(found, truncated)
  BY <1>1, InputStays DEF SearchInv, GrepWalkInv
<1>3. /\ Len(found) <= query.limit /\ query.limit \in Nat /\ found \in Seq(Found)
      /\ Len(found) \in Nat /\ Len(Entries) \in Nat /\ at \in 1..Len(Entries) + 1
  BY <1>2, InputFacts, LenProperties DEF LimitInv, ShapeInv
<1>4. ASSUME UNCHANGED vars PROVE GrepWalkInv'
  BY <1>1, <1>2, <1>4, InputStays, HitsStay
     DEF vars, window, GrepWalkInv, GrepAt, InFile, Result
<1>5. CASE Check
  <2>1. phase = "check" /\ at = 1 /\ at' = at /\ found' = found /\ found = <<>>
    BY <1>2, <1>5 DEF Check, ShapeInv
  <2>2. CASE ~Accepted
    BY <1>5, <2>2 DEF Check, Throw, GrepWalkInv
  <2>3. CASE Accepted
    <3>1. phase' = "walk"
      BY <1>2, <1>5, <2>3 DEF Check
    <3>2. GrepAt(1, <<>>)
      <4>1. Reached(1)
        BY <1>2, EntryFacts DEF ShapeInv, Reached
      <4>2. Chain(Hits)[0] = <<>>
        BY <1>2, HitsTyped, ChainStep DEF ShapeInv
      <4>3. FirstOf(<<>>, query.limit) = <<>>
        <5>1. PICK n, s : n = query.limit /\ s = <<>>
          OBVIOUS
        <5>2. n \in Nat /\ s \in Seq(Found) /\ Len(s) = 0
          BY <1>3, <5>1, EmptySeq
        <5>3. FirstOf(s, n) \in Seq(Found) /\ Len(FirstOf(s, n)) <= Len(s)
          BY <5>2, FirstOfAll
        <5>4. FirstOf(s, n) = <<>>
          BY <5>2, <5>3, EmptySeq
        <5> QED
          BY <5>1, <5>4
      <4> QED
        BY <4>1, <4>2, <4>3 DEF GrepAt
    <3>3. GrepAt(at, found)'
      BY <1>1, <2>1, <3>2, InputStays, HitsStay DEF GrepAt
    <3> QED
      BY <3>1, <3>3 DEF GrepWalkInv
  <2> QED
    BY <2>2, <2>3
<1>6. CASE SkipIgnored
  <2>1. /\ phase = "walk" /\ at <= Len(Entries) /\ Recursive /\ Current.kind = "ignored"
        /\ at' = Following(FALSE) /\ phase' = phase /\ found' = found
    BY <1>6 DEF SkipIgnored, AtEntry
  <2>2. PICK n, f : n = at' /\ f = found
    OBVIOUS
  <2>3. Goes(n) /\ Reached(at)
    BY <1>2, <2>1, <2>2 DEF Goes, Skips, GrepAt
  <2>4. ~Visited(at)
    BY <1>2, <2>1, <2>3, Onward
  <2>5. f = FirstOf(Chain(Hits)[at], query.limit)
    BY <1>2, <2>1, <2>2, <2>4, NoHits DEF GrepAt
  <2>6. GrepAt(n, f)
    BY <1>2, <2>1, <2>3, <2>5, GrepOn
  <2>7. GrepAt(at, found)'
    BY <1>1, <2>1, <2>2, <2>6, InputStays, HitsStay DEF GrepAt
  <2> QED
    BY <2>1, <2>7 DEF GrepWalkInv
<1>7. CASE GrepSkip
  <2>1. /\ phase = "walk" /\ at <= Len(Entries) /\ ~(Recursive /\ Current.kind = "ignored")
        /\ Current.kind # "file" \/ Lines = <<>>
        /\ Advance /\ found' = found
    BY <1>7 DEF GrepSkip, AtEntry
  <2>2. CASE Recursive /\ Current.kind = "denied"
    BY <2>1, <2>2 DEF Advance, Throw, GrepWalkInv
  <2>3. CASE ~(Recursive /\ Current.kind = "denied")
    <3>1. at' = Following(Recursive) /\ phase' = phase
      BY <2>1, <2>3 DEF Advance
    <3>2. PICK n, f : n = at' /\ f = found
      OBVIOUS
    <3>3. Reached(at)
      BY <1>2, <2>1 DEF GrepAt
    <3>4. Goes(n)
      BY <1>2, <2>1, <3>1, <3>2, <3>3, GoesOn
    <3>5. Lines = <<>>
      <4>1. at \in 1..Len(Entries)
        BY <1>3, <2>1
      <4> QED
        BY <1>2, <2>1, <4>1, EntryFacts DEF ShapeInv, Lines, Current
    <3>6. f = FirstOf(Chain(Hits)[at], query.limit)
      BY <1>2, <2>1, <3>2, <3>5, NoHits DEF GrepAt
    <3>7. GrepAt(n, f)
      BY <1>2, <2>1, <3>3, <3>4, <3>6, GrepOn
    <3>8. GrepAt(at, found)'
      BY <1>1, <2>1, <3>2, <3>7, InputStays, HitsStay DEF GrepAt
    <3> QED
      BY <2>1, <3>1, <3>8 DEF GrepWalkInv
  <2> QED
    BY <2>2, <2>3
<1>8. CASE GrepBreak
  <2>1. /\ phase = "walk" /\ at <= Len(Entries) /\ Full /\ phase' = "done"
        /\ truncated' = TRUE /\ UNCHANGED <<at, found, error>>
    BY <1>8 DEF GrepBreak, AtEntry, Finish
  <2>2. at - 1 \in 0..Len(Entries)
    BY <1>3, <2>1
  <2>3. PICK p, f : p = at - 1 /\ f = found
    OBVIOUS
  <2>4. FirstOf(AllHits, query.limit) = f
    BY <1>2, <2>1, <2>2, <2>3, FullHits DEF GrepAt, Full
  <2>5. Result(found, truncated)'
    BY <1>1, <2>1, <2>3, <2>4, HitsStay, InputStays DEF Result
  <2> QED
    BY <2>1, <2>5 DEF GrepWalkInv
<1>9. CASE GrepOpen
  <2>1. /\ phase = "walk" /\ at <= Len(Entries) /\ ~Full /\ Current.kind = "file"
        /\ phase' = "file" /\ at' = at /\ found' = found /\ curr' = 1
    BY <1>9 DEF GrepOpen, AtEntry, ReadWindow
  <2>2. Reached(at) /\ found = FirstOf(Chain(Hits)[at - 1], query.limit)
    BY <1>2, <2>1 DEF GrepAt
  <2>3. Visited(at)
    <3>1. PICK n : n = Following(Recursive)
      OBVIOUS
    <3> QED
      BY <1>2, <2>1, <2>2, <3>1, GoesOn
  <2>4. PICK h, n : h = Chain(Hits)[at - 1] /\ n = query.limit
    OBVIOUS
  <2>5. h \in Seq(Found)
    <3>1. at - 1 \in 0..Len(Entries)
      BY <1>3, <2>1
    <3> QED
      BY <1>2, <2>4, <3>1, HitsUpTo
  <2>6. found = h
    <3>1. n \in Nat /\ Len(FirstOf(h, n)) < n /\ found = FirstOf(h, n)
      BY <1>3, <2>1, <2>2, <2>4 DEF Full
    <3> QED
      BY <2>5, <3>1, FirstOfAll
  <2>7. UpTo(at, 0, found)
    <3>1. Len(Matches(at)) \in Nat
      <4>1. at \in 1..Len(Entries)
        BY <1>3, <2>1
      <4> QED
        BY <1>2, <4>1, MatchesTyped DEF ShapeInv
    <3>2. Chain(Matches(at))[0] = <<>>
      BY <3>1, ChainStep
    <3>3. h \o <<>> = h
      BY <2>5, ConcatEmptySeq
    <3> QED
      BY <2>4, <2>6, <3>2, <3>3 DEF UpTo
  <2>8. curr' - 1 = 0
    BY <2>1
  <2>9. InFile(at, curr, found)'
    BY <1>1, <2>1, <2>2, <2>3, <2>7, <2>8, InputStays, HitsStay DEF InFile
  <2> QED
    BY <2>1, <2>9 DEF GrepWalkInv
<1>10. CASE GrepLine
  <2>1. /\ phase = "file" /\ InFile(at, curr, found) /\ at <= Len(Entries)
        /\ Reached(at) /\ Visited(at) /\ curr \in 1..Len(Lines)
    BY <1>2, <1>10 DEF GrepLine, GrepInv, InFile
  <2>2. PICK f, l : f = found' /\ l = curr
    OBVIOUS
  <2>3. UpTo(at, l, f)
    BY <1>2, <1>10, <2>1, <2>2, GrepLineAdds
  <2>4. Len(f) <= query.limit
    <3>1. SearchInv'
      BY <1>10, GrepLineStep
    <3> QED
      BY <1>1, <2>2, <3>1 DEF SearchInv, LimitInv, input
  <2>5. l \in 0..Len(Lines) /\ l \in Nat
    BY <1>2, <2>1, <2>2, WindowOfRanges
  <2>6. \/ curr' = curr + 1 /\ UNCHANGED <<phase, at>>
        \/ LeaveFile /\ (l = Len(Lines) \/ Len(f) >= query.limit)
    <3>1. CASE Len(f) >= query.limit
      BY <1>10, <2>2, <3>1 DEF GrepLine
    <3>2. CASE ~(Len(f) >= query.limit)
      <4>1. Slide
        BY <1>10, <2>2, <3>2 DEF GrepLine
      <4> QED
        BY <1>2, <2>1, <2>2, <4>1, SlideForms
    <3> QED
      BY <3>1, <3>2
  <2>7. CASE curr' = curr + 1 /\ UNCHANGED <<phase, at>>
    <3>1. curr' - 1 = l
      BY <2>2, <2>5, <2>7
    <3>2. InFile(at, curr, found)'
      BY <1>1, <2>1, <2>2, <2>3, <2>7, <3>1, InputStays, HitsStay DEF InFile
    <3> QED
      BY <2>1, <2>7, <3>2 DEF GrepWalkInv
  <2>8. CASE LeaveFile /\ (l = Len(Lines) \/ Len(f) >= query.limit)
    <3>1. f = FirstOf(Chain(Hits)[at], query.limit)
      BY <1>2, <2>1, <2>3, <2>4, <2>5, <2>8, FileLeft
    <3>2. PICK n : n = Following(Recursive)
      OBVIOUS
    <3>3. at' = n /\ phase' = "walk"
      BY <2>8, <3>2 DEF LeaveFile
    <3>4. ~(Recursive /\ Current.kind = "ignored")
      <4>1. at \in DOMAIN Entries
        BY <1>2, <1>3, <2>1, EntryFacts DEF ShapeInv
      <4> QED
        BY <2>1, <4>1 DEF Visited, Current
    <3>5. Goes(n)
      BY <1>2, <2>1, <3>2, <3>4, GoesOn
    <3>6. GrepAt(n, f)
      BY <1>2, <2>1, <3>1, <3>5, GrepOn
    <3>7. GrepAt(at, found)'
      BY <1>1, <2>2, <3>3, <3>6, InputStays, HitsStay DEF GrepAt
    <3> QED
      BY <3>3, <3>7 DEF GrepWalkInv
  <2> QED
    BY <2>6, <2>7, <2>8
<1>11. CASE EndOfWalk
  <2>1. /\ phase = "walk" /\ at > Len(Entries) /\ phase' = "done" /\ found' = found
        /\ truncated' = (query.tool = "grep" /\ Full)
    BY <1>2, <1>11, Zenon DEF EndOfWalk, Finish
  <2>2. PICK h, n : h = AllHits /\ n = query.limit
    OBVIOUS
  <2>3. at - 1 = Len(Entries)
    BY <1>3, <2>1
  <2>4. h \in Seq(Found) /\ n \in Nat /\ found = FirstOf(h, n)
    <3>1. Len(Entries) \in 0..Len(Entries)
      BY <1>3
    <3>2. AllHits \in Seq(Found)
      BY <1>2, <3>1, HitsUpTo
    <3> QED
      BY <1>2, <1>3, <2>1, <2>2, <2>3, <3>2 DEF GrepAt, AllHits
  <2>5. ~Full => found = h
    <3>1. ~Full => Len(FirstOf(h, n)) < n
      BY <1>3, <2>2, <2>4 DEF Full
    <3> QED
      BY <2>4, <3>1, FirstOfAll
  <2>6. Result(found, truncated)'
    BY <1>1, <2>1, <2>2, <2>4, <2>5, HitsStay, InputStays DEF Result
  <2> QED
    BY <2>1, <2>6 DEF GrepWalkInv
<1>12. CASE LookFails
  BY <1>12 DEF LookFails, Throw, GrepWalkInv
<1>13. ~Offer /\ ~TailLine /\ ~TailEnd
  BY <1>2 DEF Offer, TailLine, TailEnd
<1> QED
  BY <1>4, <1>5, <1>6, <1>7, <1>8, <1>9, <1>10, <1>11, <1>12, <1>13 DEF Next

\* fs_grep, when it does not fail, returns the first matching lines of the files it
\* visits, each once and with its context, and all of them unless it says truncated, for
\* any tree, any files, any limit and any number of context lines.  It may say truncated
\* when nothing was left out.
THEOREM GrepCorrect == Spec => []GrepAsDefined
<1>1. Init => GrepWalkInv
  BY DEF Init, GrepWalkInv
<1>2. SearchInv /\ GrepWalkInv /\ [Next]_vars => GrepWalkInv'
  BY GrepNext
<1>3. GrepWalkInv => GrepAsDefined
  BY Zenon DEF GrepWalkInv, GrepAsDefined, Result
<1> QED
  BY <1>1, <1>2, <1>3, SearchCorrect, PTL DEF Spec
=============================================================================
