-------------------------------- MODULE Search --------------------------------
(***************************************************************************)
(* The tools that look for something: fs_list, fs_find, fs_grep, fs_tail.  *)
(* The first three walk a directory with an iterator, leave the version    *)
(* control directories out and stop at a limit; fs_grep goes through each  *)
(* file with a window of lines around the current one; fs_tail keeps the   *)
(* last lines of a file.  One step is one round of a loop.                 *)
(*                                                                         *)
(* Of an entry of the tree only its depth, its kind, whether fs_find takes *)
(* it (name and kind filter) and which of its lines match are modelled.    *)
(***************************************************************************)
EXTENDS Naturals, Sequences

CONSTANTS
    Trees,      \* what the path argument may name: see Tree
    Queries     \* the calls: see Query

\* A file is a readable regular file with text in it; a closed one is binary or
\* cannot be read; an ignored directory is .git, .hg or .svn; a denied one cannot
\* be opened.  A loop is a symbolic link that cannot be followed to its end: it leads
\* round in a circle, or through a directory that may not be searched.  A hidden file
\* is in a directory that may be read but not searched.
Kind == {"file", "closed", "directory", "ignored", "denied", "symlink", "loop", "hidden"}
Entry(e) ==
    /\ e.depth \in Nat \ {0} /\ e.kind \in Kind /\ e.hit \in BOOLEAN
    /\ e.lines \in Seq(BOOLEAN)
    /\ e.kind # "file" => e.lines = <<>>

\* A directory with the entries below it in the order of the iterator, or a file
\* or another thing, or a directory that cannot be opened, with itself as the only entry.
Tree(t) ==
    /\ t.target \in {"directory", "denied", "file", "other"}
    /\ t.target # "directory" => Len(t.entries) = 1
    /\ Len(t.entries) \in Nat /\ DOMAIN t.entries = 1..Len(t.entries)
    /\ \A i \in DOMAIN t.entries : Entry(t.entries[i])
    /\ t.entries # <<>> => t.entries[1].depth = 1
Query(q) ==
    /\ q.tool \in {"list", "find", "grep", "tail"}
    /\ q.recursive \in BOOLEAN /\ q.limit \in Nat /\ q.context \in Nat

ASSUME TreeAssumption == \A t \in Trees : Tree(t)
ASSUME QueryAssumption == \A q \in Queries : Query(q)

VARIABLES
    tree, query,
    phase,      \* where the call is
    at,         \* the entry the iterator is at
    last,       \* the last line that was read of the current file
    prev,       \* the lines before the current one, or the tail
    curr,       \* the current line
    lookahead,  \* the lines after it
    found,      \* the matches so far
    truncated,
    error       \* did the call throw?

input == <<tree, query>>
window == <<last, prev, curr, lookahead>>
vars == <<input, phase, at, window, found, truncated, error>>

Entries == tree.entries
Current == Entries[at]
Lines == Current.lines
Full == Len(found) >= query.limit
Recursive == tree.target = "directory" /\ (query.tool = "grep" \/ query.recursive)

TypeOK ==
    /\ tree \in Trees /\ query \in Queries
    /\ phase \in {"check", "walk", "file", "done"}
    /\ at \in 1..Len(Entries) + 1
    /\ phase = "file" => at <= Len(Entries) /\ last <= Len(Lines)
    /\ Len(found) <= query.limit
    /\ truncated \in BOOLEAN /\ error \in BOOLEAN

Init ==
    /\ tree \in Trees
    /\ query \in Queries
    /\ phase = "check"
    /\ at = 1
    /\ last = 0 /\ prev = <<>> /\ curr = 0 /\ lookahead = <<>>
    /\ found = <<>>
    /\ truncated = FALSE
    /\ error = FALSE

-----------------------------------------------------------------------------
Throw == phase' = "done" /\ error' = TRUE
Finish(cut) == phase' = "done" /\ truncated' = cut

\* The checks before the work: the target, which the iterator must be able to open, and
\* the number of lines of a tail.
Accepted ==
    CASE query.tool = "list" -> tree.target = "directory"
      [] query.tool = "find" -> tree.target # "denied"
      [] query.tool = "grep" -> tree.target \in {"directory", "file"}
      [] query.tool = "tail" -> tree.target = "file" /\ query.limit # 0

Check ==
    /\ phase = "check"
    /\ IF ~Accepted THEN Throw
       ELSE /\ phase' = (IF query.tool = "tail" THEN "file" ELSE "walk")
            /\ UNCHANGED error
    /\ UNCHANGED <<input, at, window, found, truncated>>

\* The next entry of the iterator, below the current one or past all of that.
Following(descend) ==
    LET outside == {j \in at + 1..Len(Entries) : Entries[j].depth <= Current.depth}
    IN  IF descend THEN at + 1
        ELSE IF outside = {} THEN Len(Entries) + 1
        ELSE CHOOSE j \in outside : \A k \in outside : j <= k

\* ++it.  It throws when it cannot open the directory it is at.
Advance ==
    IF Recursive /\ Current.kind = "denied"
      THEN Throw /\ UNCHANGED at
      ELSE at' = Following(Recursive) /\ UNCHANGED <<phase, error>>

AtEntry == phase = "walk" /\ at <= Len(Entries)

\* What throws before an entry is offered: is_directory, which follows a link, in the
\* recursive loops, and the relative path or the status that fs_find matches.
Unseen(e) ==
    \/ Recursive /\ e.kind = "loop"
    \/ query.tool = "find" /\ e.kind = "hidden"

\* What make_stat_object throws on: symlink_status of a hidden entry, and the relative
\* path of a link, which is that of the place it leads to.
NoStat(e) == e.kind \in {"loop", "hidden"}

LookFails ==
    /\ AtEntry /\ Unseen(Current)
    /\ query.tool = "grep" => ~Full
    /\ Throw
    /\ UNCHANGED <<input, at, window, found, truncated>>

\* Mutant: an ignored directory is not reported, but what is in it is.
EnterIgnored ==
    /\ AtEntry /\ Recursive /\ Current.kind = "ignored"
    /\ query.tool = "grep" => ~Full
    /\ at' = at + 1
    /\ UNCHANGED <<input, phase, window, found, truncated, error>>

\* disable_recursion_pending for an ignored directory, only in the recursive loops.
SkipIgnored ==
    /\ AtEntry /\ Recursive /\ Current.kind = "ignored"
    /\ query.tool = "grep" => ~Full
    /\ at' = Following(FALSE)
    /\ UNCHANGED <<input, phase, window, found, truncated, error>>

\* push_entry of fs_list, try_push_match of fs_find.
Offer ==
    /\ AtEntry /\ query.tool \in {"list", "find"}
    /\ ~(Recursive /\ Current.kind = "ignored") /\ ~Unseen(Current)
    /\ IF query.tool = "find" /\ ~Current.hit
         THEN Advance /\ UNCHANGED <<found, truncated>>
       ELSE IF Full
         THEN Finish(TRUE) /\ UNCHANGED <<at, found, error>>
       ELSE IF NoStat(Current)
         THEN Throw /\ UNCHANGED <<at, found, truncated>>
         ELSE Advance /\ found' = Append(found, <<at>>) /\ UNCHANGED truncated
    /\ UNCHANGED <<input, window>>

-----------------------------------------------------------------------------
\* fs_grep.

LineRange(from, to) == [i \in 1..(IF to < from THEN 0 ELSE to - from + 1) |-> from + i - 1]
Least(m, n) == IF m < n THEN m ELSE n

\* The current line, and the context_lines after it, are read.
ReadWindow(line) ==
    LET end == Least(Len(Lines), line + query.context)
    IN  curr' = line /\ lookahead' = LineRange(line + 1, end) /\ last' = end

GrepBreak ==
    /\ AtEntry /\ query.tool = "grep" /\ Full
    /\ Finish(TRUE)
    /\ UNCHANGED <<input, at, window, found, error>>

GrepSkip ==
    /\ AtEntry /\ query.tool = "grep" /\ ~Full
    /\ ~(Recursive /\ Current.kind = "ignored") /\ ~Unseen(Current)
    /\ Current.kind # "file" \/ Lines = <<>>
    /\ Advance
    /\ UNCHANGED <<input, window, found, truncated>>

GrepOpen ==
    /\ AtEntry /\ query.tool = "grep" /\ ~Full
    /\ Current.kind = "file" /\ Lines # <<>>
    /\ phase' = "file"
    /\ prev' = <<>>
    /\ ReadWindow(1)
    /\ UNCHANGED <<input, at, found, truncated, error>>

LeaveFile == phase' = "walk" /\ at' = Following(Recursive)

\* Mutant: the window of lines before the current one is trimmed before the
\* current one is added to it.
SlideEarly ==
    /\ prev' = Append(IF Len(prev) > query.context THEN Tail(prev) ELSE prev, curr)
    /\ IF lookahead # <<>>
         THEN /\ curr' = Head(lookahead)
              /\ IF last < Len(Lines)
                   THEN lookahead' = Append(Tail(lookahead), last + 1) /\ last' = last + 1
                   ELSE lookahead' = Tail(lookahead) /\ UNCHANGED last
              /\ UNCHANGED <<phase, at>>
       ELSE IF last < Len(Lines) THEN ReadWindow(last + 1) /\ UNCHANGED <<phase, at>>
       ELSE LeaveFile /\ UNCHANGED <<curr, lookahead, last>>

\* The window moves on by a line, or the file is at its end.
Slide ==
    /\ LET longer == Append(prev, curr)
       IN  prev' = IF Len(longer) > query.context THEN Tail(longer) ELSE longer
    /\ IF lookahead # <<>>
         THEN /\ curr' = Head(lookahead)
              /\ IF last < Len(Lines)
                   THEN lookahead' = Append(Tail(lookahead), last + 1) /\ last' = last + 1
                   ELSE lookahead' = Tail(lookahead) /\ UNCHANGED last
              /\ UNCHANGED <<phase, at>>
       ELSE IF last < Len(Lines) THEN ReadWindow(last + 1) /\ UNCHANGED <<phase, at>>
       ELSE LeaveFile /\ UNCHANGED <<curr, lookahead, last>>

\* Mutant: one match too many.
GrepLinePastLimit ==
    /\ phase = "file" /\ query.tool = "grep"
    /\ IF Lines[curr] THEN found' = Append(found, <<at, curr, prev \o <<curr>> \o lookahead>>)
                      ELSE UNCHANGED found
    /\ IF Len(found') > query.limit THEN LeaveFile /\ UNCHANGED window ELSE Slide
    /\ UNCHANGED <<input, truncated, error>>

\* One round of search_file.
GrepLine ==
    /\ phase = "file" /\ query.tool = "grep"
    /\ IF Lines[curr] THEN found' = Append(found, <<at, curr, prev \o <<curr>> \o lookahead>>)
                      ELSE UNCHANGED found
    /\ IF Len(found') >= query.limit THEN LeaveFile /\ UNCHANGED window ELSE Slide
    /\ UNCHANGED <<input, truncated, error>>

-----------------------------------------------------------------------------
\* Mutant: the deque is popped when it has as many lines as were asked for.
TailLineShort ==
    /\ phase = "file" /\ query.tool = "tail" /\ last < Len(Lines)
    /\ last' = last + 1
    /\ LET longer == Append(prev, last + 1)
       IN  prev' = IF Len(longer) >= query.limit THEN Tail(longer) ELSE longer
    /\ UNCHANGED <<input, phase, at, curr, lookahead, found, truncated, error>>

\* fs_tail: a line is read and the oldest is dropped.
TailLine ==
    /\ phase = "file" /\ query.tool = "tail" /\ last < Len(Lines)
    /\ last' = last + 1
    /\ LET longer == Append(prev, last + 1)
       IN  prev' = IF Len(longer) > query.limit THEN Tail(longer) ELSE longer
    /\ UNCHANGED <<input, phase, at, curr, lookahead, found, truncated, error>>

TailEnd ==
    /\ phase = "file" /\ query.tool = "tail" /\ last = Len(Lines)
    /\ found' = prev
    /\ Finish(last > Len(prev))
    /\ UNCHANGED <<input, at, window, error>>

\* The iterator is at its end: fs_grep reports truncation by the count alone.
EndOfWalk ==
    /\ phase = "walk" /\ at > Len(Entries)
    /\ Finish(query.tool = "grep" /\ Full)
    /\ UNCHANGED <<input, at, window, found, error>>

Next ==
    \/ Check \/ SkipIgnored \/ LookFails \/ Offer \/ GrepBreak \/ GrepSkip \/ GrepOpen
    \/ GrepLine \/ TailLine \/ TailEnd \/ EndOfWalk

Spec == Init /\ [][Next]_vars

-----------------------------------------------------------------------------
\* What the tools are to find, defined on the whole tree.

Below(j, i) == j > i /\ \A k \in i + 1..j : Entries[k].depth > Entries[i].depth
Visited(j) ==
    IF Recursive
      THEN \A i \in DOMAIN Entries :
              Entries[i].kind = "ignored" => i # j /\ ~Below(j, i)
      ELSE Entries[j].depth = 1
\* The sequences of c one after another, up to each of them.
Chain(c) == LET upto[j \in 0..Len(c)] == IF j = 0 THEN <<>> ELSE upto[j - 1] \o c[j]
            IN  upto
Offered(j) == Visited(j) /\ (query.tool = "find" => Entries[j].hit)
Offers == [j \in 1..Len(Entries) |-> IF Offered(j) THEN << <<j>> >> ELSE <<>>]
Candidates == Chain(Offers)[Len(Entries)]
FirstOf(s, n) == SubSeq(s, 1, Least(n, Len(s)))

\* The entries that cost the answer as soon as the walk comes to them, and those that
\* do when it goes on from them.
Blocks(j) == Visited(j) /\ Unseen(Entries[j])
Breaks(j) ==
    \/ Recursive /\ Visited(j) /\ Entries[j].kind = "denied"
    \/ Offered(j) /\ NoStat(Entries[j])

\* fs_list and fs_find return the first entries that qualify, in the order of the
\* walk, none of them in or below a version control directory of a recursive walk,
\* and say that the list is truncated exactly when there are more.  One directory that
\* cannot be opened, one link that cannot be followed or one entry that cannot be looked
\* at costs the whole answer, and nothing else does, unless the limit came first.
WalkAsDefined ==
    phase = "done" /\ query.tool \in {"list", "find"} /\ Accepted =>
        LET more == Len(Candidates) > query.limit
            stop == IF more THEN Candidates[query.limit + 1][1] ELSE Len(Entries) + 1
        IN  /\ error <=> \E j \in DOMAIN Entries : \/ Blocks(j) /\ j <= stop
                                                   \/ Breaks(j) /\ j < stop
            /\ ~error => /\ found = FirstOf(Candidates, query.limit)
                         /\ truncated <=> more

\* The context of a line: the lines around it in its file.
ContextOf(j, line) ==
    LET from == IF line > query.context THEN line - query.context ELSE 1
    IN  LineRange(from, Least(Len(Entries[j].lines), line + query.context))

\* fs_grep's window: the lines before and after the current one are the context
\* of the current one, at the start, in the middle and at the end of a file.
WindowIsContext ==
    phase = "file" /\ query.tool = "grep" =>
        prev \o <<curr>> \o lookahead = ContextOf(at, curr)

\* The matching lines of an entry with their contexts, and those of all entries.
Matches(j) == [l \in 1..Len(Entries[j].lines) |->
                  IF Entries[j].lines[l] THEN << <<j, l, ContextOf(j, l)>> >> ELSE <<>>]
Hits == [j \in 1..Len(Entries) |->
            IF Visited(j) THEN Chain(Matches(j))[Len(Entries[j].lines)] ELSE <<>>]
AllHits == Chain(Hits)[Len(Entries)]

\* fs_grep returns the first matching lines, each once, with its context, across
\* files of any length; unless it says truncated, those are all.
GrepAsDefined ==
    phase = "done" /\ query.tool = "grep" /\ ~error =>
        /\ found = FirstOf(AllHits, query.limit)
        /\ ~truncated => found = AllHits

\* fs_tail returns the last lines, in order, and says truncated when there were
\* more.
TailAsDefined ==
    phase = "done" /\ query.tool = "tail" /\ ~error =>
        LET n == Len(Lines) IN
        /\ found = LineRange(IF n > query.limit THEN n - query.limit + 1 ELSE 1, n)
        /\ truncated <=> n > query.limit
=============================================================================
