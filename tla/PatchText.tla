------------------------------ MODULE PatchText ------------------------------
(***************************************************************************)
(* The text operations of fs_patch (fs_patch.cpp with replace_single,      *)
(* replace_all, insert_relative and delete_single of support.cpp) as one   *)
(* call runs them: the file is read, the operations are applied in memory  *)
(* in their order, replace_all with one step for each round of its loop,   *)
(* and the edited text is written.  The call is alone and the disk works;  *)
(* FileRace has the other calls and the failures.                          *)
(***************************************************************************)
EXTENDS Naturals, Sequences

CONSTANTS
    Letters,
    Texts,      \* the texts a file may have
    OpLists     \* the lists of operations a call may carry

\* An operation as it is after require_string and optional_string: text is its
\* "replace" or its "content".
IsOperation(o) ==
    /\ DOMAIN o = {"op", "find", "text", "all"}
    /\ o.op \in STRING /\ o.all \in BOOLEAN
    /\ o.find \in Seq(Letters) /\ o.text \in Seq(Letters)

ASSUME TextAssumption == \A t \in Texts : t \in Seq(Letters)
ASSUME OperationAssumption ==
    \A os \in OpLists : /\ Len(os) \in Nat /\ DOMAIN os = 1..Len(os)
                        /\ \A i \in DOMAIN os : IsOperation(os[i])

VARIABLES
    original,   \* the text the call reads
    ops,        \* its operations
    file,       \* the file
    index,      \* the operation the loop has come to
    content,    \* the text in memory
    cursor,     \* of replace_all, 0 outside of its loop
    matches,    \* replacements of the operation so far
    applied,    \* the matches of the operations that are done
    result      \* what the call returned

vars == <<original, ops, file, index, content, cursor, matches, applied, result>>

Results == {"running", "patched", "no match", "empty find", "unsupported"}

TypeOK ==
    /\ original \in Texts /\ ops \in OpLists
    /\ file \in Seq(Letters) /\ content \in Seq(Letters)
    /\ index \in 1..Len(ops) + 1
    /\ cursor \in 0..Len(content) + 1
    /\ matches \in Nat /\ applied \in Seq(Nat)
    /\ result.is \in Results

Init ==
    /\ original \in Texts
    /\ ops \in OpLists
    /\ file = original
    /\ index = 1
    /\ content = original
    /\ cursor = 0
    /\ matches = 0
    /\ applied = <<>>
    /\ result = [is |-> "running", matches |-> <<>>]

-----------------------------------------------------------------------------
\* std::string's find(needle, from), replace and npos, with positions from 1 and
\* 0 for npos.  An empty needle is found where the search starts.
NotFound == 0
Find(t, n, from) ==
    LET at == {i \in from..Len(t) + 1 - Len(n) : SubSeq(t, i, i + Len(n) - 1) = n}
    IN  IF Len(n) > Len(t) \/ at = {} THEN NotFound
        ELSE CHOOSE i \in at : \A j \in at : i <= j
Replace(t, at, count, r) ==
    SubSeq(t, 1, at - 1) \o r \o SubSeq(t, at + count, Len(t))

Operation == ops[index]
Applying(kinds) ==
    /\ result.is = "running" /\ cursor = 0
    /\ index <= Len(ops) /\ Operation.op \in kinds

\* The operation matched n times: its result is kept and the next one is taken.
NextOperation(n) ==
    /\ applied' = Append(applied, n)
    /\ index' = index + 1
    /\ matches' = 0

Throw(why) ==
    /\ result' = [is |-> why, matches |-> <<>>]
    /\ UNCHANGED <<original, ops, file, index, content, cursor, matches, applied>>

\* replace_single: an empty needle is not refused.
replace_single ==
    /\ Applying({"replace"}) /\ ~Operation.all
    /\ LET at == Find(content, Operation.find, 1) IN
       /\ at # NotFound
       /\ content' = Replace(content, at, Len(Operation.find), Operation.text)
    /\ NextOperation(1)
    /\ UNCHANGED <<original, ops, file, cursor, result>>

\* delete_single.
delete_single ==
    /\ Applying({"delete"}) /\ ~Operation.all /\ Operation.find # <<>>
    /\ LET at == Find(content, Operation.find, 1) IN
       /\ at # NotFound
       /\ content' = Replace(content, at, Len(Operation.find), <<>>)
    /\ NextOperation(1)
    /\ UNCHANGED <<original, ops, file, cursor, result>>

\* Mutant: the text is always inserted before the match.
insert_before_only ==
    /\ Applying({"insert_before", "insert_after"}) /\ Operation.find # <<>>
    /\ LET at == Find(content, Operation.find, 1) IN
       /\ at # NotFound
       /\ content' = Replace(content, at, 0, Operation.text)
    /\ NextOperation(1)
    /\ UNCHANGED <<original, ops, file, cursor, result>>

\* insert_relative, for insert_before and insert_after; "all" is not looked at.
insert_relative ==
    /\ Applying({"insert_before", "insert_after"}) /\ Operation.find # <<>>
    /\ LET at == Find(content, Operation.find, 1)
           after == Operation.op = "insert_after"
       IN  /\ at # NotFound
           /\ content' = Replace(content,
                                 IF after THEN at + Len(Operation.find) ELSE at,
                                 0, Operation.text)
    /\ NextOperation(1)
    /\ UNCHANGED <<original, ops, file, cursor, result>>

\* replace_all, which also does a delete of all matches.
Replacing == result.is = "running" /\ cursor # 0
Replacement == IF Operation.op = "replace" THEN Operation.text ELSE <<>>

StartReplaceAll ==
    /\ Applying({"replace", "delete"}) /\ Operation.all /\ Operation.find # <<>>
    /\ cursor' = 1
    /\ UNCHANGED <<original, ops, file, index, content, matches, applied, result>>

\* Mutant: the search goes on where it was, at the match that is replaced.
ReplaceInPlace ==
    /\ Replacing
    /\ LET at == Find(content, Operation.find, cursor) IN
       /\ at # NotFound
       /\ content' = Replace(content, at, Len(Operation.find), Replacement)
       /\ cursor' = at
    /\ matches' = matches + 1
    /\ UNCHANGED <<original, ops, file, index, applied, result>>

ReplaceNext ==
    /\ Replacing
    /\ LET at == Find(content, Operation.find, cursor) IN
       /\ at # NotFound
       /\ content' = Replace(content, at, Len(Operation.find), Replacement)
       /\ cursor' = at + Len(Replacement)
    /\ matches' = matches + 1
    /\ UNCHANGED <<original, ops, file, index, applied, result>>

EndReplaceAll ==
    /\ Replacing
    /\ Find(content, Operation.find, cursor) = NotFound
    /\ matches # 0
    /\ cursor' = 0
    /\ NextOperation(matches)
    /\ UNCHANGED <<original, ops, file, content, result>>

\* No match, after the search of the one match or of all of them.
NoMatch ==
    /\ \/ /\ Applying({"replace", "insert_before", "insert_after", "delete"})
          /\ Operation.find # <<>>
          /\ ~(Operation.all /\ Operation.op \in {"replace", "delete"})
          /\ Find(content, Operation.find, 1) = NotFound
       \/ /\ Replacing /\ matches = 0
          /\ Find(content, Operation.find, cursor) = NotFound
    /\ Throw("no match")

EmptyFind ==
    /\ Applying({"replace", "insert_before", "insert_after", "delete"})
    /\ Operation.find = <<>>
    /\ Operation.op # "replace" \/ Operation.all
    /\ Throw("empty find")

Unsupported ==
    /\ result.is = "running" /\ cursor = 0 /\ index <= Len(ops)
    /\ Operation.op \notin {"replace", "insert_before", "insert_after", "delete"}
    /\ Throw("unsupported")

\* All operations are applied: the file is written and verified.
Write ==
    /\ result.is = "running" /\ cursor = 0 /\ index > Len(ops)
    /\ file' = content
    /\ result' = [is |-> "patched", matches |-> applied]
    /\ UNCHANGED <<original, ops, index, content, cursor, matches, applied>>

Next ==
    \/ replace_single \/ delete_single \/ insert_relative
    \/ StartReplaceAll \/ ReplaceNext \/ EndReplaceAll
    \/ NoMatch \/ EmptyFind \/ Unsupported \/ Write

Spec == Init /\ [][Next]_vars

-----------------------------------------------------------------------------
Atomic == INSTANCE AtomicPatch

\* One call is atomic: the file has the text that all operations make of the
\* original, as a scan of the text defines it, with the number of matches of
\* each; or it is untouched and the first operation that fails is the reason.
\* Operations see what those before them made.
ImplementsAtomicPatch == Atomic!AtomicSpec

\* Every round of replace_all leaves less text to search, also when the
\* replacement contains the needle: the loop ends, and it never replaces in its
\* own output.
ReplaceAllAdvances ==
    [][matches' > matches =>
          Len(content') - (cursor' - 1) < Len(content) - (cursor - 1)]_vars

\* What the schema of fs_patch says of the operations it takes: find "must be a
\* non-empty substring" (fs_patch.cpp:26), and all means "apply operation to ALL matches
\* in file" (fs_patch.cpp:38).  An insertion looks at the first match only, and a
\* replacement of one match takes an empty find.
AppliedAsSchema ==
    result.is = "patched" =>
        \A i \in DOMAIN ops :
            LET before == Atomic!Progress(original, ops)[i - 1].text
            IN  /\ ops[i].find # <<>>
                /\ ops[i].all => result.matches[i] =
                                     Atomic!Rewritten(before, ops[i].find, <<>>).matches
=============================================================================
