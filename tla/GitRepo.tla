-------------------------------- MODULE GitRepo --------------------------------
(***************************************************************************)
(* The git tool (git.cpp): the operations of one server on one repository, *)
(* its working tree, and the remote it was cloned from.  An operation is   *)
(* the sequence of libgit2 calls it makes; the calls of several requests   *)
(* mix, since worktree_add alone takes a lock.  A libgit2 call is one      *)
(* step, with the checks of the library (external), except that            *)
(* git_worktree_add is three: it looks for a directory before it makes it. *)
(* A file's content is a number, 0 for no file; every edit makes a new one.*)
(***************************************************************************)
EXTENDS Naturals, Sequences, FiniteSetsExt

CONSTANTS
    Calls,      \* the requests
    Requests,   \* what they may ask for: [op, name, ref, mode, force]
    Asked,      \* who asks for what: functions from Calls to Requests
    Files, Branches,
    Edited,     \* the files that are edited by others
    Starts,     \* the repositories to start with: [commits, git, remote]
    MaxContent, \* the number of contents there will ever be
    MayFail     \* may the network, or the making of directories, fail?

None == "none"
Ops == {"init", "clone", "inspect", "add", "commit", "checkout", "branch_create",
        "branch_delete", "reset", "merge", "fetch", "pull", "push", "worktree_add"}
ASSUME GitAssumption ==
    /\ \A q \in Requests : /\ q.op \in Ops /\ q.force \in BOOLEAN
                           /\ q.op = "worktree_add" =>
                                 q.name \in Branches /\ q.ref \in Branches \cup {None}
                           /\ \/ q.op \in {"branch_create", "branch_delete", "merge", "push"}
                              \/ q.op = "checkout" /\ q.mode = "branch"
                              => q.name \in Branches
    /\ Asked \subseteq [Calls -> Requests] /\ Edited \subseteq Files
    /\ "main" \in Branches /\ "HEAD" \notin Branches /\ None \notin Branches \cup Calls
    /\ MaxContent \in Nat /\ MayFail \in BOOLEAN

VARIABLES
    commits,    \* every commit there is, here and elsewhere: [tree, parents]
    git,        \* the repository, see Repository
    remote,     \* the commit of the remote's branch main
    fresh,      \* the next new content
    mutex,      \* who holds worktree_add_mutex
    request, pc, result,
    mem,        \* what a call has read: a tree, a commit, the tip of HEAD
    before,     \* ghost: the repository when a call under way began
    quiet       \* ghost: has nobody else done anything since?

vars == <<commits, git, remote, fresh, mutex, request, pc, result, mem, before, quiet>>

Marked == MaxContent + 1        \* a file with the marks of a conflict
Trees == [Files -> 0..Marked]
Heads(n) == {<<"branch", b>> : b \in Branches} \cup {<<"commit", k>> : k \in 1..n}
\* A repository where there are n commits.
Repository(n) ==
    [here : BOOLEAN, origin : BOOLEAN,          \* is it there, has it a remote?
     head : Heads(n), tips : [Branches -> 0..n],
     tracking : 0..n,                           \* refs/remotes/origin/main
     index : Trees, conflicts : SUBSET Files, work : Trees,
     merging : 0..n,                            \* MERGE_HEAD
     dir : BOOLEAN,                             \* is there .git/worktrees,
     admin : SUBSET Branches,                   \* its directories,
     linked : [Branches -> Branches \cup {None}]]   \* and the branches they are on

\* A commit is newer than its parents.  A linked working tree is on a branch of its
\* own that has a commit; where there is no repository there are no branches.
ASSUME StartsAssumption == \A s \in Starts :
    /\ s.commits \in Seq([tree : Trees, parents : SUBSET Nat])
    /\ \A n \in DOMAIN s.commits : s.commits[n].parents \subseteq 1..(n - 1)
    /\ s.git \in Repository(Len(s.commits)) /\ s.remote \in 0..Len(s.commits)
    /\ s.git.here \/ \A b \in Branches : s.git.tips[b] = 0
    /\ \A v \in Branches : s.git.linked[v] # None =>
          /\ s.git.here /\ s.git.tips[s.git.linked[v]] # 0
          /\ \A w \in Branches : v # w => s.git.linked[v] # s.git.linked[w]

Empty == [f \in Files |-> 0]
States == {"start", "write index", "parent", "create", "set head", "delete",
           "analysis", "forward", "checkout", "merge", "branch", "look", "mkdir",
           "link", "done"}
Results == {None, "ok", "error", "up_to_date", "fast_forward", "merge", "no directory"}
NoMem == [tree |-> Empty, conflicts |-> {}, commit |-> 0, tip |-> 0, head |-> None,
          dir |-> FALSE]

Init ==
    /\ \E s \in Starts : commits = s.commits /\ git = s.git /\ remote = s.remote
    /\ LET trees == {git.work} \cup {commits[n].tree : n \in DOMAIN commits}
       IN  fresh = 1 + Max({0} \cup UNION {{t[f] : f \in Files} : t \in trees})
    /\ mutex = None
    /\ request \in Asked
    /\ pc = [c \in Calls |-> "start"]
    /\ result = [c \in Calls |-> None]
    /\ mem = [c \in Calls |-> NoMem]
    /\ before = [c \in Calls |-> <<>>]
    /\ quiet = [c \in Calls |-> TRUE]

-----------------------------------------------------------------------------
\* What the library computes of a repository g.
HeadCommit(g) == IF g.head[1] = "branch" THEN g.tips[g.head[2]] ELSE g.head[2]
TreeOf(n) == IF n = 0 THEN Empty ELSE commits[n].tree
Ancestors ==
    LET from[n \in 0..Len(commits)] ==
          IF n = 0 THEN {} ELSE {n} \cup UNION {from[p] : p \in commits[n].parents}
    IN  from
IsAncestor(a, b) == a \in Ancestors[b]
\* git_revparse_single: HEAD, a branch, or the tag v1 on the first commit.
Revparse(ref) == CASE ref = "HEAD" -> HeadCommit(git)
                   [] ref \in Branches -> git.tips[ref]
                   [] OTHER -> IF commits = <<>> THEN 0 ELSE 1
CheckedOut(b) == git.head = <<"branch", b>> \/ \E w \in Branches : git.linked[w] = b

\* HEAD's branch, or a detached HEAD, is moved to n.
MoveHead(g, n) == IF g.head[1] = "branch" THEN [g EXCEPT !.tips[g.head[2]] = n]
                  ELSE [g EXCEPT !.head = <<"commit", n>>]

\* git_checkout_tree: files that differ between HEAD and the target are written,
\* which GIT_CHECKOUT_SAFE refuses if one of them was changed in the working
\* tree; GIT_CHECKOUT_FORCE writes every file of the target.
Touched(t, force) ==
    LET base == TreeOf(HeadCommit(git))
    IN  {f \in Files : \/ base[f] # t[f]
                       \/ force /\ git.work[f] # t[f] /\ (t[f] # 0 \/ git.index[f] # 0)}
Refused(t, force) ==
    LET base == TreeOf(HeadCommit(git))
    IN  /\ ~force
        /\ \/ git.conflicts # {}
           \/ \E f \in Touched(t, FALSE) : CASE base[f] = 0 -> git.work[f] # 0
                                             [] t[f] = 0 -> git.work[f] \notin {0, base[f]}
                                             [] OTHER -> git.work[f] \notin {base[f], t[f]}
CheckedOutTree(t, force) ==
    LET to(tree) == [f \in Files |-> IF f \in Touched(t, force) THEN t[f] ELSE tree[f]]
    IN  [git EXCEPT !.work = to(@), !.index = to(@),
                    !.conflicts = IF force THEN @ \ Touched(t, force) ELSE @]

\* git_merge with the commit n, file by file: against the newest common ancestor,
\* a file changed on both sides is a conflict.
Base(n) == TreeOf(Max({0} \cup (Ancestors[HeadCommit(git)] \cap Ancestors[n])))
Clashes(n) ==
    {f \in Files : Cardinality({Base(n)[f], TreeOf(HeadCommit(git))[f], TreeOf(n)[f]}) = 3}
MergedTree(n) ==
    LET ours == TreeOf(HeadCommit(git))
    IN  [f \in Files |-> IF ours[f] = Base(n)[f] THEN TreeOf(n)[f] ELSE ours[f]]
\* Local changes, staged ones of other files included, refuse a merge, force or not.
MergeRefused(n) ==
    LET ours == TreeOf(HeadCommit(git))
    IN  \/ HeadCommit(git) = 0 \/ git.conflicts # {}
        \/ \E f \in Files :
              \/ git.index[f] \notin {ours[f], MergedTree(n)[f]}
              \/ f \in Clashes(n) \cup {g \in Files : MergedTree(n)[g] # ours[g]}
                 /\ git.work[f] # git.index[f]
Merged(n, force) ==
    LET kept(f) == ~force /\ MergedTree(n)[f] = TreeOf(HeadCommit(git))[f]
    IN  [git EXCEPT
          !.index = MergedTree(n), !.conflicts = Clashes(n), !.merging = n,
          !.work = [f \in Files |-> IF f \in Clashes(n) THEN Marked
                                    ELSE IF kept(f) \/ (git.index[f] = 0 /\ MergedTree(n)[f] = 0)
                                         THEN git.work[f] ELSE MergedTree(n)[f]]]

-----------------------------------------------------------------------------
Asks(c, op) == pc[c] = "start" /\ request[c].op = op
Open(c, op) == Asks(c, op) /\ git.here

\* A handler goes on to p with what it has read, or is left, by a return or by the
\* exception of check_git: the scoped_lock of worktree_add is released either way.
Go(c, p, m) ==
    /\ pc' = [pc EXCEPT ![c] = p] /\ mem' = [mem EXCEPT ![c] = m]
    /\ UNCHANGED <<result, mutex>>
\* Mutant: the lock is released at the end of the handler only.
ReturnOkUnlocks(c, r) ==
    /\ pc' = [pc EXCEPT ![c] = "done"] /\ result' = [result EXCEPT ![c] = r]
    /\ mem' = [mem EXCEPT ![c] = NoMem]
    /\ mutex' = IF mutex = c /\ r # "error" THEN None ELSE mutex

Return(c, r) ==
    /\ pc' = [pc EXCEPT ![c] = "done"] /\ result' = [result EXCEPT ![c] = r]
    /\ mem' = [mem EXCEPT ![c] = NoMem]
    /\ mutex' = IF mutex = c THEN None ELSE mutex

Fail(c) == Return(c, "error") /\ UNCHANGED <<git, commits, remote>>

\* configure_libgit2_sandbox_paths cannot make its directories.
Unprepared(c) == pc[c] = "start" /\ MayFail /\ Fail(c)

\* open_repository fails; worktree_add has its lock by then.
NotThere(c) ==
    /\ ~git.here
    /\ \/ pc[c] = "start" /\ request[c].op \notin {"init", "clone", "worktree_add"}
       \/ pc[c] = "branch"
    /\ Fail(c)

InitRepository(c) ==
    /\ Asks(c, "init")
    /\ git' = [git EXCEPT !.here = TRUE]
    /\ Return(c, "ok") /\ UNCHANGED <<commits, remote>>

\* git_clone wants an empty directory, and leaves one when it fails.
Clone(c) ==
    /\ Asks(c, "clone")
    /\ \/ (git.here \/ git.work # Empty \/ MayFail) /\ Fail(c)
       \/ /\ ~git.here /\ git.work = Empty
          /\ git' = [git EXCEPT !.here = TRUE, !.origin = TRUE, !.tracking = remote,
                                !.tips["main"] = remote,
                                !.index = TreeOf(remote), !.work = TreeOf(remote)]
          /\ Return(c, "ok") /\ UNCHANGED <<commits, remote>>

\* status, diff, branches, remotes, worktree_list; head and log need a commit.
Inspect(c) ==
    /\ Open(c, "inspect")
    /\ Return(c, IF request[c].name = "HEAD" /\ HeadCommit(git) = 0 THEN "error" ELSE "ok")
    /\ UNCHANGED <<git, commits, remote>>

\* add reads the index and the files, all of them or the one that is named, and
\* writes its index back later, over what others have staged in between.
Add(c) ==
    /\ Open(c, "add")
    /\ LET named == IF request[c].name = "." THEN Files ELSE {request[c].name}
           staged == [f \in Files |-> IF f \in named THEN git.work[f] ELSE git.index[f]]
       IN  IF request[c].name # "." /\ git.work[request[c].name] = 0 THEN Fail(c)
           ELSE /\ Go(c, "write index", [NoMem EXCEPT !.tree = staged,
                                                      !.conflicts = git.conflicts \ named])
                /\ UNCHANGED <<git, commits, remote>>

WriteIndex(c) ==
    /\ pc[c] = "write index"
    /\ git' = [git EXCEPT !.index = mem[c].tree, !.conflicts = mem[c].conflicts]
    /\ Return(c, "ok") /\ UNCHANGED <<commits, remote>>

\* commit: the tree of the index, then the parent, then the commit, which the
\* library refuses unless its first parent is still the tip.  The merged commit is
\* no parent, and the state of the merge stays.
CommitTree(c) ==
    /\ Open(c, "commit")
    /\ IF git.conflicts # {} THEN Fail(c)
       ELSE /\ Go(c, "parent", [NoMem EXCEPT !.tree = git.index])
            /\ UNCHANGED <<git, commits, remote>>

CommitParent(c) ==
    /\ pc[c] = "parent"
    /\ Go(c, "create", [mem[c] EXCEPT !.commit = HeadCommit(git)])
    /\ UNCHANGED <<git, commits, remote>>
CommitCreate(c) ==
    /\ pc[c] = "create"
    /\ IF HeadCommit(git) # mem[c].commit THEN Fail(c)
       ELSE /\ commits' = Append(commits, [tree |-> mem[c].tree,
                                           parents |-> {mem[c].commit} \ {0}])
            /\ git' = MoveHead(git, Len(commits'))
            /\ Return(c, "ok") /\ UNCHANGED remote

\* Mutant: HEAD is set before the tree is checked out, as in a pull.
CheckoutHeadFirst(c) ==
    /\ Open(c, "checkout")
    /\ LET target == Revparse(request[c].name)
       IN  IF target = 0 THEN Fail(c)
           ELSE /\ git' = [git EXCEPT !.head = IF request[c].mode = "branch"
                                               THEN <<"branch", request[c].name>> ELSE @]
                /\ UNCHANGED <<commits, remote>>
                /\ Go(c, "set head", [NoMem EXCEPT !.commit = target])

\* Mutant: every checkout forces.
CheckoutForcing(c) ==
    /\ Open(c, "checkout")
    /\ LET target == Revparse(request[c].name)
       IN  IF target = 0 THEN Fail(c)
           ELSE /\ git' = CheckedOutTree(TreeOf(target), TRUE)
                /\ UNCHANGED <<commits, remote>>
                /\ Go(c, "set head", [NoMem EXCEPT !.commit = target])

\* checkout: the working tree first, then HEAD, unless the name is one of a tag
\* object, for which HEAD is left alone.
CheckoutTree(c) ==
    /\ Open(c, "checkout")
    /\ LET target == Revparse(request[c].name)
           force == request[c].force
       IN  IF target = 0 \/ Refused(TreeOf(target), force) THEN Fail(c)
           ELSE /\ git' = CheckedOutTree(TreeOf(target), force)
                /\ UNCHANGED <<commits, remote>>
                /\ IF request[c].mode = "tag object" THEN Return(c, "ok")
                   ELSE Go(c, "set head", [NoMem EXCEPT !.commit = target])

\* git_repository_set_head wants the full name of a reference: a branch, unless a
\* linked working tree is on it, or a tag, which detaches HEAD.
SetHead(c) ==
    /\ pc[c] = "set head"
    /\ LET b == request[c].name
       IN  IF \/ request[c].mode = "short"
              \/ request[c].mode = "branch" /\ git.head # <<"branch", b>> /\ CheckedOut(b)
           THEN Fail(c)
           ELSE /\ git' = [git EXCEPT !.head = IF request[c].mode = "branch" THEN <<"branch", b>>
                                               ELSE <<"commit", mem[c].commit>>]
                /\ Return(c, "ok") /\ UNCHANGED <<commits, remote>>

\* Mutant: a branch that exists is moved anyway.
BranchCreateForcing(c) ==
    /\ Open(c, "branch_create")
    /\ LET target == Revparse(request[c].ref)
       IN  IF target = 0 THEN Fail(c)
           ELSE /\ git' = [git EXCEPT !.tips[request[c].name] = target]
                /\ Return(c, "ok") /\ UNCHANGED <<commits, remote>>

\* A branch that exists is moved with force, unless it is checked out.
BranchCreate(c) ==
    /\ Open(c, "branch_create")
    /\ LET target == Revparse(request[c].ref)
           b == request[c].name
       IN  IF target = 0 \/ (git.tips[b] # 0 /\ (~request[c].force \/ CheckedOut(b))) THEN Fail(c)
           ELSE /\ git' = [git EXCEPT !.tips[b] = target]
                /\ Return(c, "ok") /\ UNCHANGED <<commits, remote>>

\* branch_delete looks the branch up, and deletes it if it has not moved since.
BranchLookup(c) ==
    /\ Open(c, "branch_delete")
    /\ IF ~request[c].force \/ git.tips[request[c].name] = 0 THEN Fail(c)
       ELSE /\ Go(c, "delete", [NoMem EXCEPT !.commit = git.tips[request[c].name]])
            /\ UNCHANGED <<git, commits, remote>>

BranchDelete(c) ==
    /\ pc[c] = "delete"
    /\ LET b == request[c].name
       IN  IF CheckedOut(b) \/ git.tips[b] # mem[c].commit THEN Fail(c)
           ELSE /\ git' = [git EXCEPT !.tips[b] = 0]
                /\ Return(c, "ok") /\ UNCHANGED <<commits, remote>>

\* git_reset: hard, the working tree; HEAD; mixed and hard, the index and the end
\* of a merge.  Hard needs force, soft is refused in a merge.
Reset(c) ==
    /\ Open(c, "reset")
    /\ LET target == Revparse(request[c].ref)
           mode == request[c].mode
           hard == IF mode = "hard" THEN CheckedOutTree(TreeOf(target), TRUE) ELSE git
           moved == MoveHead(hard, target)
       IN  IF \/ mode = "hard" /\ ~request[c].force
              \/ target = 0
              \/ mode = "soft" /\ (git.merging # 0 \/ git.conflicts # {})
           THEN Fail(c)
           ELSE /\ git' = IF mode = "soft" THEN moved
                          ELSE [moved EXCEPT !.index = TreeOf(target), !.conflicts = {},
                                             !.merging = 0]
                /\ Return(c, "ok") /\ UNCHANGED <<commits, remote>>

\* merge never fast-forwards; a merge that is refused ends one that was going on.
MergeWith(c, n) ==
    IF MergeRefused(n)
    THEN /\ git' = [git EXCEPT !.merging = 0]
         /\ Return(c, "error") /\ UNCHANGED <<commits, remote>>
    ELSE /\ git' = Merged(n, request[c].force)
         /\ Return(c, "merge") /\ UNCHANGED <<commits, remote>>

MergeBranch(c) ==
    /\ Open(c, "merge")
    /\ LET n == git.tips[request[c].name]
       IN  IF n = 0 THEN Fail(c) ELSE MergeWith(c, n)

\* git_remote_fetch moves origin/main and, for a refspec refs/heads/main:refs/heads/b of
\* the caller, the branch b, be it checked out or not: forward only, or with "+" anywhere.
Fetched(q) ==
    LET b == q.name
        moves == /\ b \in Branches
                 /\ q.mode = "+" \/ git.tips[b] = 0 \/ IsAncestor(git.tips[b], remote)
    IN  IF remote = 0 THEN git
        ELSE IF moves THEN [git EXCEPT !.tracking = remote, !.tips[b] = remote]
        ELSE [git EXCEPT !.tracking = remote]

Fetch(c) ==
    /\ Open(c, "fetch") \/ Open(c, "pull")
    /\ \/ (~git.origin \/ MayFail) /\ Fail(c)
       \/ /\ git.origin
          /\ git' = Fetched(request[c])
          /\ UNCHANGED <<commits, remote>>
          /\ IF request[c].op = "fetch" THEN Return(c, "ok") ELSE Go(c, "analysis", NoMem)

\* pull after its fetch: main alone has an upstream branch.  A fast-forward moves
\* the branch that was read as HEAD if it has not moved since, and checks the
\* commit out afterwards.
Analyse(c) ==
    /\ pc[c] = "analysis"
    /\ LET tip == HeadCommit(git)
       IN  IF git.head # <<"branch", "main">> \/ tip = 0 \/ git.tracking = 0 THEN Fail(c)
           ELSE /\ UNCHANGED <<git, commits, remote>>
                /\ IF IsAncestor(git.tracking, tip) THEN Return(c, "up_to_date")
                   ELSE Go(c, IF IsAncestor(tip, git.tracking) THEN "forward" ELSE "merge",
                           [NoMem EXCEPT !.tip = tip, !.commit = git.tracking])

FastForward(c) ==
    /\ pc[c] = "forward"
    /\ IF git.tips["main"] # mem[c].tip THEN Fail(c)
       ELSE /\ git' = [git EXCEPT !.tips["main"] = mem[c].commit]
            /\ Go(c, "checkout", mem[c]) /\ UNCHANGED <<commits, remote>>

CheckoutForward(c) ==
    /\ pc[c] = "checkout"
    /\ LET tree == TreeOf(mem[c].commit)
       IN  IF Refused(tree, request[c].force) THEN Fail(c)
           ELSE /\ git' = CheckedOutTree(tree, request[c].force)
                /\ Return(c, "fast_forward") /\ UNCHANGED <<commits, remote>>

MergeUpstream(c) == pc[c] = "merge" /\ MergeWith(c, mem[c].commit)

\* Mutant: the refspecs are looked at after the push.
PushThenCheck(c) ==
    /\ Open(c, "push")
    /\ LET tip == git.tips[request[c].name]
       IN  /\ git.origin /\ tip # 0
           /\ request[c].mode = "+" \/ IsAncestor(remote, tip)
           /\ remote' = tip /\ git' = [git EXCEPT !.tracking = tip]
           /\ Return(c, IF request[c].mode = "+" /\ ~request[c].force THEN "error" ELSE "ok")
           /\ UNCHANGED commits

\* push a branch to main, or nothing, which deletes main: "+" wants force, and without
\* it the remote's branch may only move forward.  The answer of the remote may be lost
\* when it has done its work; and what it says of a branch it refuses is heard by no callback.
Push(c) ==
    /\ Open(c, "push")
    /\ LET q == request[c]
           tip == IF q.mode = "delete" THEN 0 ELSE git.tips[q.name]
           barred == q.mode = "none" \/ (q.mode = "+" /\ ~q.force)
           possible == /\ git.origin
                       /\ \/ q.mode = "delete"
                          \/ tip # 0 /\ (q.mode = "+" \/ remote = 0 \/ IsAncestor(remote, tip))
       IN  \/ (barred \/ ~possible \/ MayFail) /\ Fail(c)
           \/ /\ ~barred /\ possible /\ remote' = tip
              /\ \/ git' = [git EXCEPT !.tracking = tip] /\ Return(c, "ok")
                 \/ MayFail /\ git' = git /\ Return(c, "error")
              /\ UNCHANGED commits
           \/ /\ ~barred /\ possible /\ MayFail
              /\ Return(c, "ok") /\ UNCHANGED <<git, commits, remote>>

\* Mutant: no lock is taken.
LockNothing(c) ==
    /\ Asks(c, "worktree_add")
    /\ pc' = [pc EXCEPT ![c] = "branch"]
    /\ UNCHANGED <<result, mem, mutex, git, commits, remote>>

\* worktree_add, under its lock: the branch that is asked for, made at HEAD or at the
\* start point if it is not there; then the three steps of git_worktree_add.
Lock(c) ==
    /\ Asks(c, "worktree_add") /\ mutex = None
    /\ pc' = [pc EXCEPT ![c] = "branch"] /\ mutex' = c
    /\ UNCHANGED <<result, mem, git, commits, remote>>
\* Mutant: the lock is released before git_worktree_add.
WorktreeBranchUnlocks(c) ==
    /\ pc[c] = "branch"
    /\ pc' = [pc EXCEPT ![c] = "look"] /\ mutex' = None
    /\ mem' = [mem EXCEPT ![c].head = request[c].ref]
    /\ UNCHANGED <<result, git, commits, remote>>

WorktreeBranch(c) ==
    /\ pc[c] = "branch" /\ git.here
    /\ LET b == request[c].ref
           made == b # None /\ git.tips[b] = 0
           start == Revparse(IF request[c].mode = "v1" THEN "v1" ELSE "HEAD")
       IN  IF made /\ start = 0 THEN Fail(c)
           ELSE /\ git' = IF made THEN [git EXCEPT !.tips[b] = start] ELSE git
                /\ Go(c, "look", [NoMem EXCEPT !.head = b]) /\ UNCHANGED <<commits, remote>>

LookForDir(c) ==
    /\ pc[c] = "look"
    /\ IF mem[c].head # None /\ CheckedOut(mem[c].head) THEN Fail(c)
       ELSE /\ Go(c, "mkdir", [mem[c] EXCEPT !.dir = git.dir])
            /\ UNCHANGED <<git, commits, remote>>

MakeDir(c) ==
    /\ pc[c] = "mkdir"
    /\ IF ~mem[c].dir /\ git.dir
       THEN Return(c, "no directory") /\ UNCHANGED <<git, commits, remote>>
       ELSE /\ git' = [git EXCEPT !.dir = TRUE]
            /\ Go(c, "link", mem[c]) /\ UNCHANGED <<commits, remote>>

\* The directory below .git/worktrees stays behind when the path is taken, or when the
\* working tree cannot be put on a branch: one that is named like it, made at HEAD or,
\* if that is allowed, found.
Link(c) ==
    /\ pc[c] = "link"
    /\ LET w == request[c].name
           b == IF mem[c].head = None THEN w ELSE mem[c].head
           new == mem[c].head = None /\ git.tips[w] = 0
           found == git.tips[b] # 0 /\
                       (mem[c].head # None \/ (request[c].mode = "existing" /\ ~CheckedOut(b)))
       IN  IF w \in git.admin THEN Fail(c)
           ELSE /\ UNCHANGED <<commits, remote>>
                /\ \/ /\ found \/ (new /\ HeadCommit(git) # 0)
                      /\ git' = [git EXCEPT !.admin = @ \cup {w}, !.linked[w] = b,
                                            !.tips[b] = IF new THEN HeadCommit(git) ELSE @]
                      /\ Return(c, "ok")
                   \/ /\ MayFail \/ ~(found \/ (new /\ HeadCommit(git) # 0))
                      /\ git' = [git EXCEPT !.admin = @ \cup {w}]
                      /\ Return(c, "error")

Prepared(c) ==
    \/ NotThere(c) \/ InitRepository(c) \/ Clone(c) \/ Inspect(c)
    \/ Add(c) \/ WriteIndex(c) \/ CommitTree(c) \/ CommitParent(c) \/ CommitCreate(c)
    \/ CheckoutTree(c) \/ SetHead(c) \/ BranchCreate(c) \/ BranchLookup(c) \/ BranchDelete(c)
    \/ Reset(c) \/ MergeBranch(c) \/ Fetch(c) \/ Push(c)
    \/ Analyse(c) \/ FastForward(c) \/ CheckoutForward(c) \/ MergeUpstream(c)
    \/ Lock(c) \/ WorktreeBranch(c) \/ LookForDir(c) \/ MakeDir(c) \/ Link(c)

Handler(c) == Unprepared(c) \/ Prepared(c)

\* A step of d disturbs the calls that are under way.
Disturbed(d) ==
    quiet' = [c \in Calls |-> quiet[c] /\ (c = d \/ pc[c] \in {"start", "done"})]
Observed(c) ==
    /\ Disturbed(c) /\ UNCHANGED <<request, fresh>>
    /\ before' = [before EXCEPT ![c] = IF pc'[c] = "done" THEN <<>>
                                       ELSE IF pc[c] = "start" THEN <<git>> ELSE @]
Call(c) == Handler(c) /\ Observed(c)

\* Meanwhile a file is edited or removed here, or another clone pushes an edit.
Edit ==
    /\ git.here /\ fresh <= MaxContent
    /\ \E f \in Edited :
          \/ git' = [git EXCEPT !.work[f] = fresh] /\ fresh' = fresh + 1
          \/ git.work[f] # 0 /\ git' = [git EXCEPT !.work[f] = 0] /\ fresh' = fresh + 1
    /\ Disturbed(None) /\ UNCHANGED <<commits, remote, mutex, request, pc, result, mem, before>>
RemoteMoves ==
    /\ remote # 0 /\ fresh <= MaxContent
    /\ \E f \in Edited :
          commits' = Append(commits, [tree |-> [TreeOf(remote) EXCEPT ![f] = fresh],
                                      parents |-> {remote}])
    /\ fresh' = fresh + 1 /\ remote' = Len(commits')
    /\ Disturbed(None) /\ UNCHANGED <<git, mutex, request, pc, result, mem, before>>

Next == Edit \/ RemoteMoves \/ \E c \in Calls : Call(c)
Spec == Init /\ [][Next]_vars
\* Every handler runs on a thread of its own, and need not fail.  The lock need not
\* be fair: each of finitely many calls takes it once.
FairSpec == Spec /\ \A c \in Calls : WF_vars(Prepared(c) /\ Observed(c))

-----------------------------------------------------------------------------
Moved(c) == pc'[c] # pc[c]
Was(c) == IF pc[c] = "start" THEN git ELSE before[c][1]
\* c returns r, and nobody else did anything from its start to its return.
ReturnsAlone(c, r) == Moved(c) /\ pc'[c] = "done" /\ quiet[c] /\ result'[c] = r
Clean(g) == LET head == TreeOf(HeadCommit(g))
            IN  g.work = head /\ g.index = head /\ g.conflicts = {} /\ g.merging = 0
WasClean(c) == Clean(Was(c))
IsClean == Clean(git)

\* What is only in the working tree is lost to an operation with force alone: no
\* checkout, merge, pull or reset without it overwrites a file whose content is in
\* no commit (the strategies at git.cpp:711, 799, 902 and 912, the guard at 768).
UncommittedKept ==
    [][\A f \in Files :
          \/ git'.work[f] = git.work[f] \/ git.work[f] \in {0, Marked} \/ fresh' # fresh
          \/ \E n \in DOMAIN commits : commits[n].tree[f] = git.work[f]
          \/ \E c \in Calls : Moved(c) /\ request[c].force]_vars

\* A branch, here and on the remote, only moves to descendants of its commit, but by
\* a reset of the branch here, by force, or by what a refspec asks for that the guard at
\* git.cpp:858 does not look at: a "+" of a fetch or pull, the empty source of a push
\* (git.cpp:739, 747, 842 and 857).
BranchesAdvance ==
    [][\/ \E c \in Calls : Moved(c) /\ request[c].force
       \/ /\ \/ remote' = remote \/ remote = 0 \/ remote \in Ancestors'[remote']
             \/ \E c \in Calls : Moved(c) /\ request[c].op = "push" /\ request[c].mode = "delete"
          /\ \/ \A b \in Branches : \/ git'.tips[b] = git.tips[b] \/ git.tips[b] = 0
                                     \/ git.tips[b] \in Ancestors'[git'.tips[b]]
             \/ \E c \in Calls :
                   /\ Moved(c)
                   /\ \/ request[c].op = "reset"
                      \/ request[c].op \in {"fetch", "pull"} /\ request[c].mode = "+"]_vars

\* Where nothing was changed locally nothing is after an operation that reports
\* success: what it did to HEAD, the index and the working tree fits together.
\* Merges, resets that keep the working tree, checkouts that keep HEAD, the creation of
\* the branch that HEAD names and a fetch that a refspec directs to it leave a
\* difference; pull has a property of its own.
KeepsClean(c) ==
    LET q == request[c]
    IN  \/ q.op \in {"add", "commit", "branch_delete", "push", "worktree_add"}
        \/ q.op \in {"branch_create", "fetch"} /\ Was(c).head # <<"branch", q.name>>
        \/ q.op = "checkout" /\ q.mode # "tag object"
        \/ q.op = "reset" /\ q.mode = "hard"
CleanStaysClean ==
    [][\A c \in Calls : ReturnsAlone(c, "ok") /\ KeepsClean(c) /\ WasClean(c)
            => IsClean']_vars

\* A pull that reports a fast-forward has updated the working tree
\* (git.cpp:906, "checkout fast-forward").
PullUpdatesTree ==
    [][\A c \in Calls : ReturnsAlone(c, "fast_forward") /\ WasClean(c) => IsClean']_vars

\* An operation that fails, and runs alone, leaves the repository and the remote as
\* they were, but for the cases that have a second step: a checkout whose name HEAD
\* cannot be set to, a pull after its fetch, a merge that ends the last one, and
\* what worktree_add has made; and a push may have reached the remote, unless it is
\* refused for want of force or of a refspec (git.cpp:854 and 858).
FailureHarmless ==
    [][\A c \in Calls :
          LET q == request[c]
              w == Was(c)
          IN  /\ ReturnsAlone(c, "error")
              /\ q.op \notin {"pull", "merge", "worktree_add"}
              /\ q.op = "checkout" =>
                    q.mode # "short" /\ \A b \in Branches : w.linked[b] # q.name
              => /\ git' = w
                 /\ \/ remote' = remote
                    \/ q.op = "push" /\ q.mode # "none" /\ (q.mode = "+" => q.force)]_vars

\* Two working trees that are added at the same time do not disturb each other:
\* neither finds the directory of working trees half made
\* (src/tests/git_tool_tests.cpp:179, "concurrent worktree_add should not fail").
WorktreesTogether == \A c \in Calls : result[c] # "no directory"

\* No two linked working trees are on one branch: between the look whether a branch
\* is in use and its use no other worktree_add takes it.
LinkedApart ==
    \A v, w \in Branches : v # w /\ git.linked[v] # None => git.linked[v] # git.linked[w]

\* Every operation that began ends: nothing keeps the lock of worktree_add.
GitCallsEnd == \A c \in Calls : <>(pc[c] = "done")
=============================================================================
