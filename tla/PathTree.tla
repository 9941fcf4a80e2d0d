------------------------------- MODULE PathTree -------------------------------
(***************************************************************************)
(* The path tools (fs_stat, fs_chmod, fs_mkdir, fs_copy, fs_move,          *)
(* fs_remove) and resolve_path on one tree of files, directories and       *)
(* symbolic links.  A path is the sequence of its names below the root, or *)
(* ".." and then names: "..", in the place of an entry of the root, stands *)
(* for the directories around it.                                          *)
(* Tools work on one path after the other and take no lock: what one has   *)
(* resolved or looked at may be gone when it acts.  std::filesystem is     *)
(* external: rename, mkdir and remove are one step, copy and remove_all    *)
(* are one step for each entry.                                            *)
(***************************************************************************)
EXTENDS Naturals, Sequences, FiniteSetsExt, SequencesExt

CONSTANTS
    Calls,
    Asked,      \* who asks for what: functions from Calls to requests
    Trees,      \* the trees to start with
    Names,      \* of entries, and ".."
    MaxDepth,   \* the longest path there may be
    MayFail     \* may a removal, a copy or a rename fail?

Paths == UNION {[1..n -> Names] : n \in 0..MaxDepth}
\* A node: a file with its content, a link with a path, a directory, or nothing;
\* mode is the permission bits, that of a new directory 755.
Node(kind, data, mode) == [kind |-> kind, data |-> data, mode |-> mode]
Absent == Node("absent", <<>>, 0)
NewDir == Node("dir", <<>>, 493)
IsNode(n) ==
    /\ n = Node(n.kind, n.data, n.mode) /\ n.mode \in 0..511
    /\ n.kind \in {"dir", "file", "link"} \/ n = Absent
    /\ n.kind = "link" => n.data \in Seq(Names) \ {<<>>}

\* What is anywhere is in a directory.
At(t, p) == IF p \in Paths THEN t[p] ELSE Absent
IsDir(t, p) == At(t, p).kind = "dir"
IsTree(t) ==
    /\ t = [p \in Paths |-> t[p]] /\ IsDir(t, <<>>)
    /\ \A p \in Paths : IsNode(t[p]) /\ (p # <<>> /\ t[p] # Absent => IsDir(t, Front(p)))

\* normalize_client_path and lexically_normal: ".." takes away the name before it, or
\* leads out of the root.  A path of the client that begins with "/" is an absolute one
\* that is not below the root; it is read as one below it, where ".." leads nowhere.
Up == ".."
normal(p) ==
    LET next(q, n) == CASE n = "/" -> q
                        [] n # Up -> Append(q, n)
                        [] q = <<>> -> IF Head(p) = "/" THEN q ELSE <<Up>>
                        [] q = <<Up>> -> q
                        [] OTHER -> Front(q)
    IN  FoldLeft(next, <<>>, p)

\* No call names the root itself, and no link leads to it.
ASSUME PathAssumption ==
    /\ MaxDepth \in Nat /\ MayFail \in BOOLEAN /\ Up \in Names
    /\ \A t \in Trees : IsTree(t)
    /\ \A r \in Asked : \A c \in Calls :
          normal(r[c].from) \in Seq(Names) \ {<<>>} /\ normal(r[c].to) \in Seq(Names) \ {<<>>}

VARIABLES
    fs,         \* the node at every path
    request, pc, result,
    from, to,   \* the resolved paths of a call: from, or path, and to
    todo,       \* the entries a copy has yet to make: pairs of paths
    before,     \* ghost: the tree when a call under way began
    quiet       \* ghost: has nobody else done anything since?

vars == <<fs, request, pc, result, from, to, todo, before, quiet>>

-----------------------------------------------------------------------------
StartsWith(p, q) == IsPrefix(q, p)
Suffix(p, q) == SubSeq(p, Len(q) + 1, Len(p))
Below(t, p) == {q \in Paths : StartsWith(q, p) /\ t[q] # Absent}
Inside(t, p) == {n \in Names : At(t, Append(p, n)) # Absent}

\* The links in a path, and the path with the first of them followed.
Links(t, p) == {i \in 1..Len(p) : At(t, SubSeq(p, 1, i)).kind = "link"}
Follow(t, p) ==
    LET first == Min(Links(t, p))
    IN  IF Links(t, p) = {} THEN p
        ELSE At(t, SubSeq(p, 1, first)).data \o SubSeq(p, first + 1, Len(p))

\* The path p followed through links, a link at its end included.  Three links in a
\* row stand for the forty of the kernel: what has more cannot be resolved.
Real(t, p) == Follow(t, Follow(t, Follow(t, p)))
Tangled(t, p) == \E i \in 1..Len(p) : Links(t, Real(t, SubSeq(p, 1, i))) # {}

\* fs::status: what a path leads to, nothing for a link that leads nowhere.
Status(t, p) == IF Links(t, Real(t, p)) = {} THEN At(t, Real(t, p)) ELSE Absent
Exists(t, p) == Status(t, p) # Absent

\* Where a system call finds the entry p: its directories are followed, p is not.
Spot(p) == Append(Real(fs, Front(p)), Last(p))
Lstat(p) == At(fs, Spot(p))
\* A directory, file or link can be made where nothing is, in a directory.
Free(q) == q \in Paths /\ fs[q] = Absent /\ IsDir(fs, Front(q))
Room(p) == Free(Spot(p))

\* resolve_path, by weakly_canonical: the longest prefix that exists is followed,
\* the rest is kept.
resolve_path(p) ==
    LET k == Max({n \in 0..Len(p) : \A i \in 0..n : Exists(fs, SubSeq(p, 1, i))})
    IN  Real(fs, SubSeq(p, 1, k)) \o SubSeq(p, k + 1, Len(p))

States == {"start", "chmod", "mkdir", "parents", "clear", "rename", "copy", "remove", "done"}
TypeOK ==
    /\ IsTree(fs)
    /\ request \in Asked
    /\ pc \in [Calls -> States]
    /\ \A c \in Calls : \A e \in todo[c] : StartsWith(e[1], from[c]) /\ StartsWith(e[2], to[c])

Init ==
    /\ fs \in Trees
    /\ request \in Asked
    /\ pc = [c \in Calls |-> "start"]
    /\ result = [c \in Calls |-> "none"]
    /\ from = [c \in Calls |-> <<>>] /\ to = [c \in Calls |-> <<>>]
    /\ todo = [c \in Calls |-> {}]
    /\ before = [c \in Calls |-> <<>>]
    /\ quiet = [c \in Calls |-> TRUE]

-----------------------------------------------------------------------------
Is(c, tool) == request[c].tool = tool
Goto(c, p) == pc' = [pc EXCEPT ![c] = p] /\ UNCHANGED result
Return(c, r) == pc' = [pc EXCEPT ![c] = "done"] /\ result' = [result EXCEPT ![c] = r]
Throw(c) == Return(c, "error") /\ UNCHANGED <<fs, from, to, todo>>
Keep == UNCHANGED <<from, to>>

\* Both paths are resolved, which fails when links lead to links without end, or when
\* what is resolved is not below the root; the first must exist, but for fs_mkdir.
Source(c) == resolve_path(normal(request[c].from))
Target(c) == resolve_path(normal(request[c].to))
Escapes(p) == StartsWith(p, <<Up>>)
\* Mutant: the path is looked at before its links are followed.
FoundByName(c) ==
    /\ ~Tangled(fs, normal(request[c].from)) /\ ~Escapes(normal(request[c].from))
    /\ Is(c, "mkdir") \/ Exists(fs, Source(c))
    /\ request[c].tool \in {"copy", "move"} =>
          ~Tangled(fs, normal(request[c].to)) /\ ~Escapes(normal(request[c].to))

Found(c) ==
    /\ ~Tangled(fs, normal(request[c].from)) /\ ~Escapes(Source(c))
    /\ Is(c, "mkdir") \/ Exists(fs, Source(c))
    /\ request[c].tool \in {"copy", "move"} =>
          ~Tangled(fs, normal(request[c].to)) /\ ~Escapes(Target(c))
Missing(c) ==
    /\ pc[c] = "start" /\ ~Found(c)
    /\ Throw(c)
Starts(c, tool) == pc[c] = "start" /\ Is(c, tool) /\ Found(c)
Resolved(c) ==
    from' = [from EXCEPT ![c] = Source(c)] /\ to' = [to EXCEPT ![c] = Target(c)]

Stat(c) ==
    /\ Starts(c, "stat") /\ Resolved(c)
    /\ Return(c, "ok") /\ UNCHANGED <<fs, todo>>

\* What octal_to_permissions accepts, the value, and the bits of it that are permissions.
IsOctal(octal) == Len(octal) \in 1..4 /\ \A i \in DOMAIN octal : octal[i] \in 0..7
Value(octal) == FoldLeft(LAMBDA v, digit : 8 * v + digit, 0, octal)
octal_to_permissions(octal) == {i \in 0..8 : (Value(octal) \div 2^i) % 2 = 1}

permissions_to_octal(perms) ==
    LET bit(i, octal_bit) == IF i \in perms THEN octal_bit ELSE 0
    IN  bit(8, 256) + bit(7, 128) + bit(6, 64) + bit(5, 32) + bit(4, 16) + bit(3, 8)
        + bit(2, 4) + bit(1, 2) + bit(0, 1)

\* fs_chmod and fs_mkdir resolve their path, and act on what it leads to by then.
Begin(c) ==
    /\ \E tool \in {"chmod", "mkdir"} : Starts(c, tool) /\ Goto(c, tool)
    /\ Resolved(c) /\ UNCHANGED <<fs, todo>>

Chmod(c) ==
    /\ pc[c] = "chmod"
    /\ IF IsOctal(request[c].octal) /\ Exists(fs, from[c])
         THEN /\ fs' = [fs EXCEPT ![Real(fs, from[c])].mode =
                            permissions_to_octal(octal_to_permissions(request[c].octal))]
              /\ Return(c, "ok")
         ELSE Return(c, "error") /\ UNCHANGED fs
    /\ UNCHANGED todo /\ Keep

\* create_directories makes what is missing above and at p, where that leads.
Creatable(p) ==
    \A i \in 1..Len(resolve_path(p)) : LET q == SubSeq(resolve_path(p), 1, i) IN
        q \in Paths /\ fs[q].kind \in {"dir", "absent"}
\* Mutant: what is missing above is not made.
CreatedLast(p) ==
    [q \in Paths |-> IF q = resolve_path(p) /\ fs[q] = Absent THEN NewDir ELSE fs[q]]

Created(p) ==
    [q \in Paths |-> IF StartsWith(resolve_path(p), q) /\ fs[q] = Absent THEN NewDir ELSE fs[q]]

Mkdir(c) ==
    /\ pc[c] = "mkdir"
    /\ LET p == from[c]
           there == Status(fs, p).kind = "dir"
           ok == Creatable(p) /\ (request[c].parents \/ there \/ Room(p))
       IN  /\ fs' = IF ok THEN Created(p) ELSE fs
           /\ Return(c, IF ok THEN "ok" ELSE "error")
    /\ UNCHANGED todo /\ Keep

\* Mutant: whether the destination exists is not looked at.
AcceptedAnyway(c) ==
    /\ Source(c) # Target(c)
    /\ Is(c, "copy") /\ IsDir(fs, Source(c)) => request[c].recursive

\* fs_copy and fs_move look at both paths.
Accepted(c) ==
    /\ Source(c) # Target(c)
    /\ Is(c, "copy") /\ IsDir(fs, Source(c)) => request[c].recursive
    /\ request[c].overwrite \/ ~Exists(fs, Target(c))

Look(c) ==
    /\ Starts(c, "copy") \/ Starts(c, "move")
    /\ IF Accepted(c) THEN Resolved(c) /\ Goto(c, "parents") /\ UNCHANGED <<fs, todo>>
                      ELSE Throw(c)

CreateParents(c) ==
    /\ pc[c] = "parents"
    /\ LET p == Front(to[c]) IN
       IF request[c].parents /\ ~Creatable(p) THEN Throw(c)
       ELSE /\ fs' = IF request[c].parents THEN Created(p) ELSE fs
            /\ Goto(c, IF Is(c, "copy") THEN "copy"
                       ELSE IF request[c].overwrite THEN "clear" ELSE "rename")
            /\ todo' = [todo EXCEPT ![c] = IF Is(c, "copy") THEN {<<from[c], to[c]>>} ELSE {}]
            /\ Keep

\* Mutant: what a link leads to is removed with it.
RemoveAllFollowing(c, p, next) ==
    \/ ~Exists(fs, p) /\ next /\ UNCHANGED fs
    \/ \E q \in Below(fs, Spot(p)) :
          /\ Exists(fs, p) /\ Inside(fs, q) = {}
          /\ fs' = [r \in Paths |-> IF r = q \/ (fs[q].kind = "link" /\ r \in Below(fs, fs[q].data))
                                    THEN Absent ELSE fs[r]]
          /\ IF q = Spot(p) THEN next ELSE UNCHANGED <<pc, result>>
    \/ MayFail /\ Return(c, "error") /\ UNCHANGED fs

\* remove_existing_path and remove_all take away the entries of p that have nothing
\* in them, up to p, and go on over what is gone already; of a link they take the
\* link, but not of one that leads nowhere.  They may fail, with the rest left.
RemoveAll(c, p, next) ==
    \/ ~Exists(fs, p) /\ next /\ UNCHANGED fs
    \/ \E q \in Below(fs, Spot(p)) :
          /\ Exists(fs, p) /\ Inside(fs, q) = {}
          /\ fs' = [fs EXCEPT ![q] = Absent]
          /\ IF q = Spot(p) THEN next ELSE UNCHANGED <<pc, result>>
    \/ MayFail /\ Return(c, "error") /\ UNCHANGED fs

Clear(c) ==
    /\ pc[c] = "clear"
    /\ RemoveAll(c, to[c], Goto(c, "rename"))
    /\ UNCHANGED todo /\ Keep

\* rename puts a file or link over one, or a directory over an empty directory.
Renamed(p, q) ==
    [r \in Paths |-> IF StartsWith(r, q) THEN At(fs, p \o Suffix(r, q))
                     ELSE IF StartsWith(r, p) THEN Absent ELSE fs[r]]
Renameable(p, q) ==
    /\ At(fs, p) # Absent /\ q \in Paths
    /\ IsDir(fs, Front(q)) /\ ~StartsWith(q, p)
    /\ IF IsDir(fs, p) THEN At(fs, q) = Absent \/ (IsDir(fs, q) /\ Inside(fs, q) = {})
                       ELSE ~IsDir(fs, q)
    /\ \A r \in Below(fs, p) : q \o Suffix(r, p) \in Paths
\* Between file systems it does nothing, and the tree is copied and removed.
Rename(c) ==
    /\ pc[c] = "rename"
    /\ LET p == Spot(from[c])
           q == Spot(to[c])
       IN  \/ /\ Renameable(p, q)
              /\ fs' = Renamed(p, q) /\ Return(c, "ok") /\ UNCHANGED todo
           \/ /\ MayFail \/ ~Renameable(p, q)
              /\ Return(c, "error") /\ UNCHANGED <<fs, todo>>
           \/ /\ MayFail /\ Goto(c, "copy") /\ UNCHANGED fs
              /\ todo' = [todo EXCEPT ![c] = {<<from[c], to[c]>>}]
    /\ Keep

\* fs::copy of one entry: where a file goes, inside the destination if that is a
\* directory; whether it can be copied, a file over a file with overwrite alone and
\* never over itself; what is there then; and what of a directory is to follow (of
\* a directory where a file was looked for, nothing).
Goal(e) == IF Lstat(e[1]).kind = "file" /\ Status(fs, e[2]).kind = "dir"
           THEN Append(e[2], Last(e[1])) ELSE e[2]
CanCopy(c, e) ==
    LET q == Real(fs, Goal(e)) IN
    CASE Lstat(e[1]).kind = "dir"  ->
            IF Status(fs, e[2]).kind = "dir" THEN q # Spot(e[1]) ELSE Room(e[2])
      [] Lstat(e[1]).kind = "file" ->
            \/ Room(Goal(e))
            \/ /\ request[c].overwrite /\ q # Spot(e[1])
               /\ At(fs, q).kind = "file" \/ Free(q)
      [] OTHER -> Lstat(e[1]).kind = "link" /\ Room(e[2])
Deep(c) == Is(c, "move") \/ request[c].recursive
Copied(c, e) ==
    IF Lstat(e[1]).kind = "dir" /\ (Status(fs, e[2]).kind = "dir" \/ ~Deep(c)) THEN fs
    ELSE [fs EXCEPT ![IF Room(Goal(e)) THEN Spot(Goal(e)) ELSE Real(fs, Goal(e))] = Lstat(e[1])]
Entries(c, e) == IF Lstat(e[1]).kind = "dir" /\ Deep(c)
                 THEN {<<Append(e[1], n), Append(e[2], n)>> :
                          n \in Inside(Copied(c, e), Spot(e[1]))}
                 ELSE {}

\* Mutant: an entry that cannot be copied is left out.
CopyEntryOrSkip(c) ==
    /\ pc[c] = "copy"
    /\ \E e \in todo[c] :
          \/ ~CanCopy(c, e) /\ todo' = [todo EXCEPT ![c] = @ \ {e}] /\ UNCHANGED <<fs, pc, result>>
          \/ /\ CanCopy(c, e) /\ fs' = Copied(c, e) /\ UNCHANGED <<pc, result>>
             /\ todo' = [todo EXCEPT ![c] = (@ \ {e}) \cup Entries(c, e)]
    /\ Keep

\* Mutant: the directories in a directory are made, and not gone through.
CopyEntryFlat(c) ==
    /\ pc[c] = "copy"
    /\ \E e \in todo[c] :
          \/ (MayFail \/ ~CanCopy(c, e)) /\ Return(c, "error") /\ UNCHANGED <<fs, todo>>
          \/ /\ CanCopy(c, e) /\ fs' = Copied(c, e) /\ UNCHANGED <<pc, result>>
             /\ todo' = [todo EXCEPT ![c] =
                   (@ \ {e}) \cup IF e[1] = from[c] THEN Entries(c, e) ELSE {}]
    /\ Keep

CopyEntry(c) ==
    /\ pc[c] = "copy"
    /\ \E e \in todo[c] :
          \/ (MayFail \/ ~CanCopy(c, e)) /\ Return(c, "error") /\ UNCHANGED <<fs, todo>>
          \/ /\ CanCopy(c, e) /\ fs' = Copied(c, e) /\ UNCHANGED <<pc, result>>
             /\ todo' = [todo EXCEPT ![c] = (@ \ {e}) \cup Entries(c, e)]
    /\ Keep

EndCopy(c) ==
    /\ pc[c] = "copy" /\ todo[c] = {}
    /\ IF Is(c, "copy") THEN Return(c, "ok") ELSE Goto(c, "remove")
    /\ UNCHANGED <<fs, todo>> /\ Keep

\* fs_remove: a directory and what is in it if recursive, else a file or an empty
\* directory.  A move between file systems ends here too, by its source.
StartRemove(c) ==
    /\ Starts(c, "remove") /\ Resolved(c)
    /\ Goto(c, "remove") /\ UNCHANGED <<fs, todo>>
RemovePath(c) ==
    /\ pc[c] = "remove"
    /\ LET p == Spot(from[c])
           gone == Lstat(from[c]) = Absent
       IN  IF Is(c, "move") \/ (request[c].recursive /\ IsDir(fs, p))
           THEN RemoveAll(c, from[c], Return(c, "ok"))
           ELSE \/ /\ gone \/ Inside(fs, p) = {}
                   /\ Return(c, "ok")
                   /\ fs' = IF gone THEN fs ELSE [fs EXCEPT ![p] = Absent]
                \/ /\ MayFail \/ ~(gone \/ Inside(fs, p) = {})
                   /\ Return(c, "error") /\ UNCHANGED fs
    /\ UNCHANGED todo /\ Keep

Tool(c) ==
    \/ Missing(c) \/ Stat(c) \/ Begin(c) \/ Chmod(c) \/ Mkdir(c) \/ Look(c) \/ CreateParents(c)
    \/ Clear(c) \/ Rename(c) \/ CopyEntry(c) \/ EndCopy(c) \/ StartRemove(c) \/ RemovePath(c)
Call(c) ==
    /\ Tool(c) /\ UNCHANGED request
    /\ before' = [before EXCEPT ![c] = IF pc'[c] = "done" THEN <<>>
                                       ELSE IF pc[c] = "start" THEN <<fs>> ELSE @]
    /\ quiet' = [d \in Calls |-> quiet[d] /\ (c = d \/ pc[d] \in {"start", "done"})]
Next == \E c \in Calls : Call(c)
Spec == Init /\ [][Next]_vars

-----------------------------------------------------------------------------
Was(c) == IF pc[c] = "start" THEN fs ELSE before[c][1]
ReturnsAlone(c) == pc[c] # "done" /\ pc'[c] = "done" /\ quiet[c]
Contents(t) == {t[p].data : p \in {q \in Paths : t[q].kind = "file"}}
\* The tree below q in u is the one below p in t.
SameTree(t, p, u, q) == \A s \in Paths : At(u, q \o s) = At(t, p \o s)

\* A copy or a move to where nothing was, alone, puts the whole tree there, links
\* as links and modes included; after a move it is not at its old place; and
\* nothing else has changed but directories above the destination.
LandsWhole ==
    [][\A c \in Calls :
          LET p == from'[c]
              q == to'[c]
              w == Was(c)
          IN  /\ ReturnsAlone(c) /\ result'[c] = "ok" /\ request[c].tool \in {"copy", "move"}
              /\ At(w, q) = Absent
              => /\ SameTree(w, p, fs', q)
                 /\ \A r \in Paths :
                       \/ StartsWith(r, q) \/ StartsWith(q, r)
                       \/ fs'[r] = IF Is(c, "move") /\ StartsWith(r, p) THEN Absent ELSE w[r]]_vars

\* No call that runs alone, and neither removes nor overwrites, loses a file,
\* whether it succeeds or fails (fs_copy.cpp:40, fs_move.cpp:36).
FilesKept ==
    [][\A c \in Calls :
          ReturnsAlone(c) /\ ~Is(c, "remove") /\ ~request[c].overwrite
            => Contents(Was(c)) \subseteq Contents(fs')]_vars

\* A move with overwrite may lose what was at the destination, but not what it
\* moves: also when it fails half-way, each entry is at its old or its new place, or
\* where the new place leads: a link that leads nowhere is not removed, and between
\* file systems a file is written through it.
\* The exceptions are a source that lies inside the destination, which is removed
\* with it, and a destination inside the source, which is removed for nothing.
MovedKept ==
    [][\A c \in Calls :
          LET p == from'[c]
              w == Was(c)
          IN  ReturnsAlone(c) /\ Is(c, "move") /\ ~StartsWith(p, to'[c]) /\ ~StartsWith(to'[c], p)
                => \A s \in Paths :
                      At(w, p \o s) \in {Absent, At(fs', p \o s), At(fs', to'[c] \o s),
                                         At(fs', Real(fs', to'[c] \o s))}]_vars

\* A step of fs_remove or fs_move takes away nothing but what lies at or below the path
\* it works on, which for the clearing of a destination wants overwrite: removal does
\* not go through links in what it removes.  Where the path leads may have changed by
\* then: if a directory of it was replaced meanwhile, by one with a link in the place
\* of the next, the removal is where that link leads.
Leads(c, q) == IF quiet[c] THEN q ELSE Spot(q)
RemovalStaysBelow ==
    [][\A p \in Paths :
          fs[p] # Absent /\ fs'[p] = Absent =>
            \A c \in Calls : Call(c) =>
               \/ pc[c] = "clear" /\ request[c].overwrite /\ StartsWith(p, Leads(c, to[c]))
               \/ pc[c] \in {"rename", "remove"} /\ StartsWith(p, Leads(c, from[c]))]_vars

\* A fs_chmod, fs_mkdir or fs_remove that runs alone changes nothing outside the root,
\* whatever links it meets on its way (support.cpp:174, sandbox or not).
OutsideKept ==
    [][\A c \in Calls :
          ReturnsAlone(c) /\ request[c].tool \in {"chmod", "mkdir", "remove"} =>
             \A p \in Paths : Escapes(p) => fs'[p] = Was(c)[p]]_vars

\* fs_remove of a symbolic link removes the link (fs_remove.cpp:20, "Remove a file,
\* symlink, or directory").
LinkRemoved ==
    [][\A c \in Calls :
          LET p == normal(request[c].from)
          IN  ReturnsAlone(c) /\ result'[c] = "ok" /\ Is(c, "remove") /\ At(Was(c), p).kind = "link"
                => At(fs', p) = Absent]_vars

=============================================================================
