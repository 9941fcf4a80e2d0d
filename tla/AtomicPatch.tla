----------------------------- MODULE AtomicPatch -----------------------------
(***************************************************************************)
(* What fs_patch promises of one call: either every operation of the list  *)
(* finds its text, and the file is replaced by the edited text in one      *)
(* step, or the first operation that fails is the reason given and the     *)
(* file is untouched.  Texts are sequences; the edits are defined by a     *)
(* single scan of the text and not by positions found one after another.   *)
(***************************************************************************)
EXTENDS Naturals, Sequences

VARIABLES original, ops, file, result

atomicVars == <<original, ops, file, result>>

\* Where the needle n occurs in the text t.
Occurrences(t, n) ==
    {i \in 1..Len(t) + 1 : i + Len(n) <= Len(t) + 1
                           /\ SubSeq(t, i, i + Len(n) - 1) = n}
FirstOccurrence(t, n) ==
    CHOOSE i \in Occurrences(t, n) : \A j \in Occurrences(t, n) : i <= j

\* What is left of the text t from each position on when it is cut at its occurrences
\* of n, from the left and without overlap, and each is replaced by r; and how many
\* there are.
Scanned(t, n, r) ==
    LET from[i \in 1..Len(t) + 1] ==
          IF i > Len(t) THEN [text |-> <<>>, matches |-> 0]
          ELSE IF i \in Occurrences(t, n)
               THEN LET rest == from[i + Len(n)]
                    IN  [text |-> r \o rest.text, matches |-> 1 + rest.matches]
          ELSE LET rest == from[i + 1]
               IN  [text |-> <<t[i]>> \o rest.text, matches |-> rest.matches]
    IN  from
Rewritten(t, n, r) == Scanned(t, n, r)[1]

\* The text of o put in place of the first occurrence, before it or after it.
Spliced(t, n, r) ==
    LET i == FirstOccurrence(t, n)
    IN  SubSeq(t, 1, i - 1) \o r \o SubSeq(t, i + Len(n), Len(t))

Kinds == {"replace", "insert_before", "insert_after", "delete"}
Everywhere(o) == o.all /\ o.op \in {"replace", "delete"}

\* Why the operation o fails on t, or "ok".  Only a replacement of the first
\* match takes an empty needle: it matches at the start.
Outcome(o, t) ==
    IF o.op \notin Kinds THEN "unsupported"
    ELSE IF o.find = <<>> /\ (o.op # "replace" \/ o.all) THEN "empty find"
    ELSE IF Occurrences(t, o.find) = {} THEN "no match"
    ELSE "ok"

Put(o) ==
    CASE o.op = "replace" -> o.text
      [] o.op = "insert_before" -> o.text \o o.find
      [] o.op = "insert_after" -> o.find \o o.text
      [] OTHER -> <<>>

\* The text and the number of matches that o makes of t.
Edit(o, t) ==
    IF Everywhere(o) THEN Rewritten(t, o.find, Put(o))
    ELSE [text |-> Spliced(t, o.find, Put(o)), matches |-> 1]

\* What the first k operations make of the original, and the reason why one of
\* them fails.
Progress(t, os) ==
    LET step[k \in 0..Len(os)] ==
          IF k = 0 THEN [text |-> t, outcome |-> "ok", matches |-> <<>>]
          ELSE LET p == step[k - 1]  out == Outcome(os[k], p.text)
                   edit == Edit(os[k], p.text)
               IN  IF p.outcome # "ok" THEN p
                   ELSE IF out # "ok" THEN [p EXCEPT !.outcome = out]
                   ELSE [text |-> edit.text, outcome |-> "ok",
                         matches |-> Append(p.matches, edit.matches)]
    IN  step

AtomicInit ==
    /\ file = original
    /\ result = [is |-> "running", matches |-> <<>>]

Patch ==
    /\ result.is = "running"
    /\ LET end == Progress(original, ops)[Len(ops)] IN
       /\ IF end.outcome = "ok"
            THEN result' = [is |-> "patched", matches |-> end.matches]
            ELSE result' = [is |-> end.outcome, matches |-> <<>>]
       /\ file' = IF end.outcome = "ok" THEN end.text ELSE file
    /\ UNCHANGED <<original, ops>>

AtomicSpec == AtomicInit /\ [][Patch]_atomicVars
=============================================================================
