-------------------------------- MODULE MCPath --------------------------------
(***************************************************************************)
(* PathTree on small trees: a directory with a file and a link in it, a    *)
(* link to a directory, a link that leads nowhere, links that lead to each *)
(* other, a directory whose place may be taken by one with a link in it,   *)
(* also after a call has resolved a path through that place, and links to  *)
(* what is outside the root.                                               *)
(***************************************************************************)
EXTENDS PathTree

CONSTANT c1

A == <<"a">>
B == <<"b">>
D == <<"d">>
R(tool, p, q, recursive, overwrite, parents) ==
    [tool |-> tool, from |-> p, to |-> q, recursive |-> recursive, overwrite |-> overwrite,
     parents |-> parents, octal |-> <<4, 7, 5, 1>>]

RequestList ==
    << R("stat", A \o B, A, FALSE, FALSE, FALSE), R("chmod", A \o B, A, FALSE, FALSE, FALSE),
       R("mkdir", B \o B, A, FALSE, FALSE, FALSE), R("mkdir", D \o B, A, FALSE, FALSE, TRUE),
       R("mkdir", A \o A, A, FALSE, FALSE, TRUE),
       R("copy", A, D, FALSE, FALSE, TRUE), R("copy", A, D, TRUE, FALSE, TRUE),
       R("copy", A, B, TRUE, TRUE, TRUE), R("copy", A, A \o D, TRUE, FALSE, TRUE),
       R("copy", A \o A, D, FALSE, FALSE, FALSE), R("copy", B, A, FALSE, TRUE, TRUE),
       R("copy", A \o A, D \o B, TRUE, FALSE, TRUE), R("copy", A \o A, D \o B, TRUE, FALSE, FALSE),
       R("move", A, D, FALSE, FALSE, TRUE), R("move", A, D, FALSE, TRUE, TRUE),
       R("move", B, D, FALSE, FALSE, TRUE), R("move", A, B, FALSE, TRUE, TRUE),
       R("move", A, B, FALSE, FALSE, TRUE), R("move", A, A \o D, FALSE, FALSE, TRUE),
       R("move", A \o A, A, FALSE, TRUE, TRUE), R("move", B, A \o B, FALSE, TRUE, TRUE),
       R("remove", A, A, FALSE, FALSE, FALSE), R("remove", A, A, TRUE, FALSE, FALSE),
       R("remove", A \o B, A, TRUE, FALSE, FALSE), R("remove", B, A, FALSE, FALSE, FALSE),
       R("move", B, A \o A, FALSE, FALSE, TRUE),
       R("copy", B, A \o A \o B, FALSE, FALSE, TRUE),
       [R("chmod", B, A, FALSE, FALSE, FALSE) EXCEPT !.octal = <<0, 0, 7, 5, 1>>],
       R("remove", B \o B \o A, A, TRUE, FALSE, FALSE),
       R("copy", B \o A, D \o B \o D \o A, FALSE, FALSE, TRUE),
       R("move", D, A \o D, FALSE, TRUE, TRUE), R("move", A \o A, B, FALSE, TRUE, TRUE),
       [R("chmod", B, A, FALSE, FALSE, FALSE) EXCEPT !.octal = <<7, 8, 0>>],
       R("mkdir", A \o B \o D, A, FALSE, FALSE, TRUE),
       R("remove", <<"/", "..", "a", "..", "b", "a">>, A, TRUE, FALSE, FALSE),
       R("copy", B, <<"a", "..", "..">> \o A, FALSE, TRUE, TRUE) >>
\* Every request beside a stat, and those that act on the same directories at once.
Together == (DOMAIN RequestList) \X {1}
            \cup { <<30, 14>>, <<2, 23>>, <<4, 13>>, <<5, 23>>, <<7, 23>>, <<8, 15>>, <<8, 21>>,
                   <<10, 23>>, <<11, 15>>, <<12, 13>>, <<14, 16>>, <<15, 23>>, <<17, 23>>,
                   <<29, 17>> }
AllAsked ==
    {[c \in Calls |-> RequestList[IF c = c1 THEN p[1] ELSE p[2]]] : p \in Together}

\* The nodes of a tree at its paths, and nothing elsewhere.
Tree(nodes) == [p \in Paths |-> IF p = <<>> THEN NewDir
                                ELSE IF p \in DOMAIN nodes THEN nodes[p] ELSE Absent]
File(content) == Node("file", <<content>>, 420)
Link(p) == Node("link", p, 511)
AllTrees ==
    { Tree((A :> NewDir) @@ (A \o A :> File(1)) @@ (A \o B :> Link(B)) @@ (B :> File(2))),
      Tree((A :> NewDir) @@ (A \o A :> NewDir) @@ (A \o B :> Link(B)) @@ (B :> NewDir)
             @@ (B \o A :> File(2))),
      Tree((A :> Link(B)) @@ (B :> NewDir) @@ (B \o A :> File(1)) @@ (B \o B :> File(2))),
      Tree((A :> NewDir) @@ (A \o A :> File(1)) @@ (B :> Link(D))),
      Tree((A :> NewDir) @@ (A \o B :> Link(D)) @@ (D :> NewDir) @@ (D \o A :> File(1))
             @@ (B :> NewDir) @@ (B \o B :> NewDir) @@ (B \o B \o A :> File(2))),
      Tree((A :> NewDir) @@ (A \o B :> Link(<<Up>>)) @@ (<<Up>> :> NewDir)
             @@ (<<Up>> \o A :> File(1)) @@ (B :> Link(<<Up>> \o A))),
      Tree((A :> Link(B)) @@ (B :> Link(A)) @@ (D :> File(1))) }
=============================================================================
