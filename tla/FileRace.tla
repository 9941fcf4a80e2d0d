------------------------------- MODULE FileRace -------------------------------
(***************************************************************************)
(* Tool calls on one file at the same time: fs_patch, fs_write and fs_read *)
(* (fs_patch.cpp, fs_write.cpp, fs_read.cpp).  The server takes no lock    *)
(* on a file: each worker opens, reads, truncates and writes it through    *)
(* streams of its own, one system call after the other.  The file is a     *)
(* sequence of pieces, a piece being what one read or write moves; what    *)
(* the text operations of fs_patch do to a text is the subject of          *)
(* PatchText, here an edit replaces one piece, or puts one in front where  *)
(* it looks for the empty text.  Opening, reading and writing may fail: no *)
(* permission, no descriptor left, a full disk, an error of the disk.      *)
(***************************************************************************)
EXTENDS Naturals, Sequences

CONSTANTS
    Calls,      \* the tool calls
    Requests,   \* what a call may ask for: see Request
    Asked,      \* who asks for what: functions from Calls to Requests
    Initial,    \* the pieces of the file at the start
    Hole,       \* a piece of zero bytes that a write past the end leaves
    Nothing,    \* the empty text, as an edit looks for it
    MayFail     \* may an open, a read or a write fail?

\* patch: every edit <<old, new>> in turn; write: the text, appended or not;
\* read: at most length pieces from offset on.
IsSequence(s) == s \in Seq({s[i] : i \in DOMAIN s})
Request(q) ==
    \/ q.tool = "patch" /\ IsSequence(q.edits)
    \/ q.tool = "write" /\ IsSequence(q.text) /\ q.append \in BOOLEAN
    \/ q.tool = "read" /\ q.offset \in Nat /\ q.length \in Nat

ASSUME RequestAssumption == \A q \in Requests : Request(q)
ASSUME FileAssumption ==
    Asked \subseteq [Calls -> Requests] /\ IsSequence(Initial) /\ MayFail \in BOOLEAN

VARIABLES
    file,       \* the pieces on disk
    request,    \* what each call was asked
    pc,         \* where it is
    pos,        \* the position of its open stream
    size,       \* of a read: where the file ended when it was opened
    text,       \* what it has read
    new,        \* what it is to write
    bad,        \* the streams it read that have failed, which nobody looks at
    result,     \* what it returned
    held        \* ghost: was the file new, and nothing else, after its open?

vars == <<file, request, pc, pos, size, text, new, bad, result, held>>

States == {"start", "reading", "edit", "open", "writing", "verify", "verifying",
           "done"}
Results == {"none", "ok", "no match", "error"}
Pieces == {Initial[i] : i \in DOMAIN Initial} \cup {Hole}
            \cup UNION {CASE q.tool = "patch" -> {q.edits[i][2] : i \in DOMAIN q.edits}
                          [] q.tool = "write" -> {q.text[i] : i \in DOMAIN q.text}
                          [] OTHER -> {} : q \in Requests}

\* Where the stream of a call starts to read.
Offset(c) == IF request[c].tool = "read" THEN request[c].offset ELSE 0

TypeOK ==
    /\ file \in Seq(Pieces)
    /\ request \in [Calls -> Requests]
    /\ pc \in [Calls -> States]
    /\ pos \in [Calls -> Nat \ {0}] /\ size \in [Calls -> Nat]
    /\ text \in [Calls -> Seq(Pieces)] /\ new \in [Calls -> Seq(Pieces)]
    /\ \A c \in Calls :
          /\ pc[c] = "writing" => pos[c] <= Len(new[c]) + 1
          /\ pc[c] \in {"reading", "verifying"} =>
                pos[c] = Offset(c) + Len(text[c]) + 1
    /\ bad \in [Calls -> SUBSET {"input", "verification"}]
    /\ result \in [Calls -> Results]
    /\ held \in [Calls -> BOOLEAN]

Init ==
    /\ file = Initial
    /\ request \in Asked
    /\ pc = [c \in Calls |-> "start"]
    /\ pos = [c \in Calls |-> 1]
    /\ size = [c \in Calls |-> 0]
    /\ text = [c \in Calls |-> <<>>]
    /\ new = [c \in Calls |-> <<>>]
    /\ bad = [c \in Calls |-> {}]
    /\ result = [c \in Calls |-> "none"]
    /\ held = [c \in Calls |-> FALSE]

-----------------------------------------------------------------------------
Goto(c, p) == pc' = [pc EXCEPT ![c] = p]
Return(c, r) == Goto(c, "done") /\ result' = [result EXCEPT ![c] = r]
Is(c, tool) == request[c].tool = tool
AtEnd(c) == pos[c] > Len(file)

\* The next piece of the file goes to text.
TakePiece(c) ==
    /\ text' = [text EXCEPT ![c] = Append(@, file[pos[c]])]
    /\ pos' = [pos EXCEPT ![c] = @ + 1]

\* A stream of c fails: what was read of it is all there is, as at its end.
Breaks(c, stream) == MayFail /\ bad' = [bad EXCEPT ![c] = @ \cup {stream}]

\* The file with a piece at position i, over a hole if it ends before.
WriteAt(f, i, piece) ==
    [k \in 1..(IF i > Len(f) THEN i ELSE Len(f)) |->
        IF k = i THEN piece ELSE IF k <= Len(f) THEN f[k] ELSE Hole]

\* fs_patch opens its input.  A stream that fails to open is not noticed: it
\* reads as an empty text.
PatchOpen(c) ==
    /\ Is(c, "patch") /\ pc[c] = "start"
    /\ \/ Goto(c, "reading") /\ UNCHANGED bad
       \/ Breaks(c, "input") /\ Goto(c, "edit")
    /\ UNCHANGED <<file, request, pos, size, text, new, result>>

\* A read that fails is not noticed either: what came before it is taken as the text.
PatchRead(c) ==
    /\ Is(c, "patch") /\ pc[c] = "reading"
    /\ \/ AtEnd(c) /\ Goto(c, "edit") /\ UNCHANGED <<text, pos, bad>>
       \/ ~AtEnd(c) /\ TakePiece(c) /\ UNCHANGED <<pc, bad>>
       \/ Breaks(c, "input") /\ Goto(c, "edit") /\ UNCHANGED <<text, pos>>
    /\ UNCHANGED <<file, request, size, new, result>>

\* An edit puts its new piece in place of the first old one; the empty text it finds
\* at the start, of an empty file too.  The edits of a list are applied in order, and
\* the text is lost when one finds nothing.
Failed == <<"failed">>
EditFirst(t, e) ==
    LET found == {i \in DOMAIN t : t[i] = e[1]}
    IN  IF t # Failed /\ e[1] = Nothing THEN <<e[2]>> \o t
        ELSE IF t = Failed \/ found = {} THEN Failed
        ELSE [t EXCEPT ![CHOOSE i \in found : \A j \in found : i <= j] = e[2]]
Edited(t, edits) ==
    LET upto[n \in 0..Len(edits)] ==
          IF n = 0 THEN t ELSE EditFirst(upto[n - 1], edits[n])
    IN  upto[Len(edits)]

\* Mutant: the edits found so far are kept when one finds nothing.
PatchEditPartly(c) ==
    /\ Is(c, "patch") /\ pc[c] = "edit"
    /\ LET whole == Edited(text[c], request[c].edits)
           part == Edited(text[c], <<request[c].edits[1]>>)
       IN  IF whole # Failed
             THEN /\ Goto(c, "open") /\ new' = [new EXCEPT ![c] = whole]
                  /\ UNCHANGED <<result, file>>
             ELSE /\ Return(c, "no match")
                  /\ file' = IF part # Failed THEN part ELSE file
                  /\ UNCHANGED new
    /\ UNCHANGED <<request, pos, size, text, bad>>

PatchEdit(c) ==
    /\ Is(c, "patch") /\ pc[c] = "edit"
    /\ LET whole == Edited(text[c], request[c].edits) IN
       IF whole # Failed
         THEN /\ Goto(c, "open") /\ new' = [new EXCEPT ![c] = whole]
              /\ UNCHANGED result
         ELSE Return(c, "no match") /\ UNCHANGED new
    /\ UNCHANGED <<file, request, pos, size, text, bad>>

\* fs_write has its text at once.
WriteStart(c) ==
    /\ Is(c, "write") /\ pc[c] = "start"
    /\ Goto(c, "open") /\ new' = [new EXCEPT ![c] = request[c].text]
    /\ UNCHANGED <<file, request, pos, size, text, result, bad>>

Appends(c) == Is(c, "write") /\ request[c].append

\* Both open with O_TRUNC, or with O_APPEND; an open that fails is reported.
OpenToWrite(c) ==
    /\ pc[c] = "open"
    /\ pos' = [pos EXCEPT ![c] = 1]
    /\ \/ /\ Goto(c, "writing") /\ UNCHANGED result
          /\ file' = IF Appends(c) THEN file ELSE <<>>
       \/ MayFail /\ Return(c, "error") /\ UNCHANGED file
    /\ UNCHANGED <<request, size, text, new, bad>>

\* Mutant: an append is a write at the end as it was when the file was opened.
WritePieceAtEnd(c) ==
    /\ pc[c] = "writing" /\ pos[c] <= Len(new[c])
    /\ IF Appends(c)
         THEN /\ file' = WriteAt(file, size[c] + pos[c], new[c][pos[c]])
              /\ size' = IF pos[c] = 1 THEN [size EXCEPT ![c] = Len(file)] ELSE size
         ELSE file' = WriteAt(file, pos[c], new[c][pos[c]]) /\ UNCHANGED size
    /\ pos' = [pos EXCEPT ![c] = @ + 1]
    /\ UNCHANGED <<request, pc, text, new, result, bad>>

\* A piece goes to the position of the stream, or with O_APPEND to the end.
WritePiece(c) ==
    /\ pc[c] = "writing" /\ pos[c] <= Len(new[c])
    /\ file' = IF Appends(c) THEN Append(file, new[c][pos[c]])
                             ELSE WriteAt(file, pos[c], new[c][pos[c]])
    /\ pos' = [pos EXCEPT ![c] = @ + 1]
    /\ UNCHANGED <<request, pc, size, text, new, result, bad>>

\* A write fails and the stream writes nothing more.  fs_patch looks at its
\* stream after the flush and throws; fs_write does not look and returns.
WriteFails(c) ==
    /\ MayFail /\ pc[c] = "writing" /\ pos[c] <= Len(new[c])
    /\ Return(c, IF Is(c, "patch") THEN "error" ELSE "ok")
    /\ UNCHANGED <<file, request, pos, size, text, new, bad>>

Written(c) ==
    /\ pc[c] = "writing" /\ pos[c] > Len(new[c])
    /\ IF Is(c, "patch") THEN Goto(c, "verify") /\ UNCHANGED result
                         ELSE Return(c, "ok")
    /\ UNCHANGED <<file, request, pos, size, text, new, bad>>

\* Mutant: the verification reads into the buffer that has the text already.
VerifyOpenOldBuffer(c) ==
    /\ pc[c] = "verify"
    /\ \/ /\ Goto(c, "verifying") /\ UNCHANGED <<result, text>>
          /\ pos' = [pos EXCEPT ![c] = 1]
       \/ MayFail /\ Return(c, "error") /\ UNCHANGED <<pos, text>>
    /\ UNCHANGED <<file, request, size, new, bad>>

\* The verification of fs_patch opens the file once more and reads it.
VerifyOpen(c) ==
    /\ pc[c] = "verify"
    /\ \/ /\ Goto(c, "verifying") /\ UNCHANGED result
          /\ pos' = [pos EXCEPT ![c] = 1] /\ text' = [text EXCEPT ![c] = <<>>]
       \/ MayFail /\ Return(c, "error") /\ UNCHANGED <<pos, text>>
    /\ UNCHANGED <<file, request, size, new, bad>>

\* Mutant: the lengths are compared, not the texts.
VerifyLength(c) ==
    /\ pc[c] = "verifying"
    /\ \/ /\ \/ AtEnd(c) /\ UNCHANGED bad
             \/ Breaks(c, "verification")
          /\ Return(c, IF Len(text[c]) = Len(new[c]) THEN "ok" ELSE "error")
          /\ UNCHANGED <<text, pos>>
       \/ ~AtEnd(c) /\ TakePiece(c) /\ UNCHANGED <<pc, result, bad>>
    /\ UNCHANGED <<file, request, size, new>>

Verify(c) ==
    /\ pc[c] = "verifying"
    /\ \/ /\ \/ AtEnd(c) /\ UNCHANGED bad
             \/ Breaks(c, "verification")
          /\ Return(c, IF text[c] = new[c] THEN "ok" ELSE "error")
          /\ UNCHANGED <<text, pos>>
       \/ ~AtEnd(c) /\ TakePiece(c) /\ UNCHANGED <<pc, result, bad>>
    /\ UNCHANGED <<file, request, size, new>>

\* Mutant: after looking for the end the stream is not set back.
ReadOpenAtEnd(c) ==
    /\ Is(c, "read") /\ pc[c] = "start"
    /\ \/ /\ size' = [size EXCEPT ![c] = Len(file)]
          /\ IF Offset(c) > Len(file) THEN Return(c, "error")
                                      ELSE Goto(c, "reading") /\ UNCHANGED result
          /\ pos' = [pos EXCEPT ![c] = Len(file) + 1]
          /\ UNCHANGED bad
       \/ Breaks(c, "input") /\ Return(c, "ok") /\ UNCHANGED <<size, pos>>
    /\ UNCHANGED <<file, request, text, new>>

\* fs_read looks for the end of the file, and goes to its offset.  If the open
\* failed the end is at -1, a huge number as std::uint64_t: no offset is beyond it,
\* and the read returns nothing, a result with an empty content.
ReadOpen(c) ==
    /\ Is(c, "read") /\ pc[c] = "start"
    /\ \/ /\ size' = [size EXCEPT ![c] = Len(file)]
          /\ IF Offset(c) > Len(file) THEN Return(c, "error")
                                      ELSE Goto(c, "reading") /\ UNCHANGED result
          /\ pos' = [pos EXCEPT ![c] = Offset(c) + 1]
          /\ UNCHANGED bad
       \/ Breaks(c, "input") /\ Return(c, "ok") /\ UNCHANGED <<size, pos>>
    /\ UNCHANGED <<file, request, text, new>>

\* It reads up to its length, and up to the end as it was then, or until a read fails.
Wanted(c) == pos[c] <= size[c] /\ Len(text[c]) < request[c].length

ReadPiece(c) ==
    /\ Is(c, "read") /\ pc[c] = "reading"
    /\ LET more == Wanted(c) /\ ~AtEnd(c) IN
       \/ more /\ TakePiece(c) /\ UNCHANGED <<pc, result, bad>>
       \/ ~more /\ Return(c, "ok") /\ UNCHANGED <<text, pos, bad>>
       \/ Wanted(c) /\ Breaks(c, "input") /\ Return(c, "ok") /\ UNCHANGED <<text, pos>>
    /\ UNCHANGED <<file, request, size, new>>

Step(c) ==
    \/ PatchOpen(c) \/ PatchRead(c) \/ PatchEdit(c) \/ WriteStart(c)
    \/ OpenToWrite(c) \/ WritePiece(c) \/ WriteFails(c) \/ Written(c)
    \/ VerifyOpen(c) \/ Verify(c) \/ ReadOpen(c) \/ ReadPiece(c)

\* The ghost sees every step of every call.
Observe ==
    held' = [c \in Calls |-> held[c] \/ (/\ pc'[c] \in {"writing", "verify", "verifying"}
                                         /\ file' = new'[c])]

Next == \E c \in Calls : Step(c) /\ Observe

Spec == Init /\ [][Next]_vars

-----------------------------------------------------------------------------
IsPrefixOf(s, t) == Len(s) <= Len(t) /\ SubSeq(t, 1, Len(s)) = s

\* What a patch may have read as its text, when nothing but reads were beside it: a
\* part of the file, if its stream failed.  And what its edits make of that.
TextsRead(c) ==
    IF "input" \in bad[c] THEN {SubSeq(Initial, 1, n) : n \in 0..Len(Initial)}
                          ELSE {Initial}
EditedTexts(c) == {Edited(t, request[c].edits) : t \in TextsRead(c)} \ {Failed}

\* A patch with nothing but reads beside it tells the truth, whatever opens and writes
\* fail: after a result the file has all edits, after an edit that found nothing it is
\* untouched, and after an error it is untouched or a truncated form of the edited
\* text, never a mixture of both.  The exception is a file that could not be read, or
\* not to its end (fs_patch.cpp:101): what was read of it is edited all the same, and
\* the file is cut off there, with the result that it is patched.
AloneHonest ==
    \A c \in Calls :
        /\ Is(c, "patch") /\ pc[c] = "done"
        /\ \A d \in Calls \ {c} : Is(d, "read")
    =>
        CASE result[c] = "ok" -> file \in EditedTexts(c)
          [] result[c] = "no match" -> file = Initial
          [] OTHER -> file = Initial \/ \E t \in EditedTexts(c) : IsPrefixOf(file, t)

\* One other call that writes, or any number of appends, may get in between the
\* write and the verification of a patch, but not unnoticed: a patch that returns a
\* result had its whole text on disk, alone, at some time after it opened the file.
\* (Two that rewrite the file may: one leaves more than the text behind it, the
\* other cuts that off when the text before it has been verified.  And one may if the
\* text has pieces of zero bytes: the verification takes the holes that a truncation
\* has left for them, and what is filled in behind it for the rest.  And a read of the
\* verification that fails just behind the text hides what comes after it.)
VerifiedMeansHeld ==
    \A c \in Calls :
        /\ Is(c, "patch") /\ result[c] = "ok" /\ "verification" \notin bad[c]
        /\ \A i \in DOMAIN new[c] : new[c][i] # Hole
        /\ \A d, e \in Calls \ {c} :
              ~Is(d, "read") /\ ~Is(e, "read") => d = e \/ (Appends(d) /\ Appends(e))
    => held[c]

\* Appends of several calls do not overwrite each other: at any time the file is what
\* was there, and behind it every piece that a write of one of them has accepted, once,
\* those of each call in their order.  `of` tells which piece of which call is where.
Accepted == UNION {{c} \X (1..pos[c] - 1) : c \in {d \in Calls : Appends(d)}}
AppendsSurvive ==
    (\A c \in Calls : Appends(c) \/ Is(c, "read")) =>
        /\ IsPrefixOf(Initial, file)
        /\ \E of \in [Len(Initial) + 1..Len(file) -> Accepted] :
              /\ \A p \in DOMAIN of : file[p] = new[of[p][1]][of[p][2]]
              /\ \A p, q \in DOMAIN of :
                    p < q /\ of[p][1] = of[q][1] => of[p][2] < of[q][2]
              /\ \A a \in Accepted : \E p \in DOMAIN of : of[p] = a

\* What a read returns was at its place.  Beside nothing but appends and reads it is
\* the part of the file from its offset on, as far as the file went when it was
\* opened, and an offset is refused only if it was beyond that end; if a read fails, the
\* start of that part.  Beside a patch, which rewrites the file in place, each piece is
\* the old or the new one of its place: the read may be cut off and mix both texts, but
\* nothing is shifted.
ReadInPlace ==
    \A c \in Calls :
        /\ Is(c, "read") /\ pc[c] = "done"
        /\ \A d, e \in Calls \ {c} : Is(d, "patch") /\ Is(e, "patch") => d = e
        /\ \A d \in Calls \ {c} : Is(d, "write") => Appends(d)
    =>
        LET end == Offset(c) + request[c].length
            Place(t, i) == Offset(c) + i \in DOMAIN t /\ text[c][i] = t[Offset(c) + i]
        IN  /\ result[c] = "error" => Offset(c) > size[c]
            /\ (\A d \in Calls : ~Is(d, "patch")) =>
                  LET part == SubSeq(file, Offset(c) + 1, IF end < size[c] THEN end ELSE size[c])
                  IN  IF bad[c] = {} THEN text[c] = part ELSE IsPrefixOf(text[c], part)
            /\ \A d \in Calls : Is(d, "patch") /\ (\A e \in Calls : ~Is(e, "write")) =>
                  \A i \in DOMAIN text[c] :
                      \E t \in {Initial} \cup EditedTexts(d) : Place(t, i)
=============================================================================
