------------------------------- MODULE MCPatch -------------------------------
(***************************************************************************)
(* PatchText on short texts over two letters.                              *)
(***************************************************************************)
EXTENDS PatchText

TextsUpTo(n) == UNION {[1..k -> Letters] : k \in 0..n}
AllTexts == TextsUpTo(4)

Op(kind, find, text, all) == [op |-> kind, find |-> find, text |-> text, all |-> all]

\* One operation of any kind, with needles and texts of at most two letters.
OneOp ==
    {<<Op(k, f, t, a)>> :
        k \in {"replace", "insert_before", "insert_after", "delete", "rename"},
        f \in TextsUpTo(2), t \in TextsUpTo(2), a \in BOOLEAN}

\* Two operations: the second searches what the first has made.
Needles == {<<>>, <<"a">>, <<"a", "b">>}
TwoOps ==
    {<<Op(k, f, <<"a">>, a), Op(l, g, <<"b">>, a)>> :
        k, l \in {"replace", "insert_after", "delete"},
        f, g \in Needles, a \in BOOLEAN}

AllOpLists == {<<>>} \cup OneOp \cup TwoOps

\* Texts with more than one match, and an insertion at all of them followed by a
\* replacement of the empty text.
RepeatedTexts == {t \in AllTexts : \E i, j \in DOMAIN t : i < j /\ t[i] = "a" /\ t[j] = "a"}
InsertAll ==
    {<<Op(k, <<"a">>, <<"b">>, TRUE), Op("replace", <<>>, <<"b">>, FALSE)>> :
        k \in {"insert_before", "insert_after"}}
=============================================================================
