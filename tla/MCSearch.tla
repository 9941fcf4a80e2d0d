------------------------------- MODULE MCSearch -------------------------------
(***************************************************************************)
(* Search on small trees.                                                  *)
(***************************************************************************)
EXTENDS Search

E(depth, kind, hit, lines) == [depth |-> depth, kind |-> kind, hit |-> hit, lines |-> lines]
Dir(entries) == [target |-> "directory", entries |-> entries]
File(lines) == [target |-> "file", entries |-> <<E(1, "file", TRUE, lines)>>]
LinesUpTo(n) == UNION {[1..k -> BOOLEAN] : k \in 0..n}

\* Five entries: a directory of any kind at the first and at the third place, and
\* entries in them, beside them and after them; and four entries of which the second and
\* the fourth may be links that lead nowhere, or hidden where they are alone in theirs.
Shapes ==
    {<<1, 2, 2, 3, 1>>, <<1, 2, 1, 2, 2>>, <<1, 1, 1, 2, 2>>}
Walks ==
    {Dir([i \in 1..5 |-> E(s[i], IF i = 1 THEN k ELSE IF i = 3 THEN l ELSE "file",
                           i \in hits, <<>>)]) :
        s \in Shapes,
        k, l \in {"directory", "ignored", "denied"},
        hits \in SUBSET (1..5)}
Four(s, k, l, hits) ==
    Dir([i \in 1..4 |-> E(s[i], IF i = 2 THEN k ELSE IF i = 4 THEN l
                                ELSE IF s[i + 1] > s[i] THEN "directory" ELSE "file",
                          i \in hits, <<>>)])
Unlookable ==
    {Four(s, k, l, hits) :
        s \in {<<1, 2, 1, 2>>, <<1, 1, 1, 1>>, <<1, 2, 2, 2>>},
        k, l \in {"file", "loop", "denied"}, hits \in SUBSET (1..4)}
      \cup {Four(<<1, 2, 1, 2>>, k, l, hits) :
              k, l \in {"file", "loop", "hidden"}, hits \in SUBSET (1..4)}
      \cup {Dir([i \in 1..3 |-> E(1, "hidden", i \in hits, <<>>)]) : hits \in SUBSET (1..3)}
Alone(target) == [target |-> target, entries |-> <<E(1, "closed", TRUE, <<>>)>>]
WalkTrees ==
    Walks \cup Unlookable \cup {File(<<>>)} \cup {Alone(t) : t \in {"other", "denied"}}
WalkQueries ==
    {[tool |-> t, recursive |-> r, limit |-> n, context |-> 0] :
        t \in {"list", "find"}, r \in BOOLEAN, n \in {0, 1, 3, 5}}

\* A file of up to seven lines, and directories with two files of a few lines and
\* something that is not searched between them.
GrepTrees ==
    {File(ls) : ls \in LinesUpTo(7)}
      \cup {Dir(<<E(1, "file", TRUE, f), E(1, k, TRUE, <<>>), E(2, "file", TRUE, g)>>) :
              f \in LinesUpTo(3), g \in LinesUpTo(2),
              k \in {"closed", "directory", "ignored", "denied"}}
      \cup {Dir(<<E(1, "file", TRUE, f), E(1, "directory", TRUE, <<>>), E(2, k, TRUE, <<>>),
                 E(1, "file", TRUE, f)>>) :
              f \in LinesUpTo(2), k \in {"loop", "hidden"}}
      \cup {Alone(t) : t \in {"other", "denied"}}
GrepQueries ==
    {[tool |-> "grep", recursive |-> FALSE, limit |-> n, context |-> c] :
        n \in {0, 1, 2, 9}, c \in 0..3}
      \cup {[tool |-> "tail", recursive |-> FALSE, limit |-> n, context |-> 0] :
              n \in {0, 1, 2, 7}}

AllTrees == WalkTrees \cup GrepTrees
AllQueries == WalkQueries \cup GrepQueries
=============================================================================
