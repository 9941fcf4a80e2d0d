-------------------------------- MODULE MCFile --------------------------------
(***************************************************************************)
(* FileRace with a file of three pieces, for three calls.                  *)
(***************************************************************************)
EXTENDS FileRace, TLC

Text == <<"a", "b", "c">>

PatchCall(edits) == [tool |-> "patch", edits |-> edits]
WriteCall(t, append) == [tool |-> "write", text |-> t, append |-> append]
ReadCall(i, n) == [tool |-> "read", offset |-> i, length |-> n]

\* Edits that match, that build on each other, that fail first, last, or only because
\* of an earlier one; single edits, none, one that writes zero bytes, one that looks for
\* the empty text; a write, appends; reads of a part, to the end with what is appended,
\* and beyond it.
Single == {PatchCall(<<<<"a", "A">>>>), PatchCall(<<<<"c", "C">>>>)}
AllCalls ==
    {PatchCall(<<<<e[1], "X">>, <<e[2], "Y">>>>) :
        e \in {<<"a", "b">>, <<"b", "X">>, <<"X", "a">>, <<"a", "z">>}}
      \cup Single \cup {PatchCall(<<>>)}
      \cup {PatchCall(<<<<"a", Hole>>>>), PatchCall(<<<<Nothing, "N">>, <<"b", "B">>>>)}
      \cup {WriteCall(<<"a", "b">>, FALSE)}
      \cup {WriteCall(t, TRUE) : t \in {<<"p", "q">>, <<"r", "s">>}}
      \cup {ReadCall(i, 2) : i \in {0, 1, 4}} \cup {ReadCall(2, 9), ReadCall(9, 9)}

\* Any call beside a short patch, a write, an append or a read, and one more that is
\* refused at once; two appends beside a patch or a read, and a patch beside an append
\* and a read.
Refused == ReadCall(9, 9)
Beside == {PatchCall(<<<<"c", "C">>>>), WriteCall(<<"a", "b">>, FALSE),
           WriteCall(<<"p", "q">>, TRUE), ReadCall(0, 2), ReadCall(4, 2), ReadCall(2, 9)}
Few == {PatchCall(<<<<"a", "A">>>>), WriteCall(<<"p", "q">>, TRUE),
        WriteCall(<<"r", "s">>, TRUE), ReadCall(2, 9)}
Mixed ==
    {f \in [Calls -> AllCalls] : \E c, d \in Calls : c # d /\ f[c] = Refused /\ f[d] \in Beside}
      \cup {f \in [Calls -> Few] : \A c, d \in Calls : f[c] = f[d] => c = d}
Symmetry == Permutations(Calls)
=============================================================================
