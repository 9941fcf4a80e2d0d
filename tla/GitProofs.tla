------------------------------- MODULE GitProofs -------------------------------
(***************************************************************************)
(* Proofs about GitRepo, for any number of requests, files, branches and   *)
(* commits: what the lock of worktree_add protects, that operations that   *)
(* fail leave the repository as it was, that references and history stay   *)
(* whole, that work in no commit is overwritten by force alone, that       *)
(* branches keep their commits, and what leaves a clean repository clean.  *)
(***************************************************************************)
EXTENDS GitRepo, Integers, WellFoundedInduction, TLAPS

-----------------------------------------------------------------------------
\* Every set of natural numbers with an element has a least one.
LEMMA LeastExists ==
  ASSUME NEW T \in SUBSET Nat, T # {}
  PROVE  \E x \in T : \A y \in T : x <= y
<1>1. PICK R : R = OpToRel(<, Nat)
  OBVIOUS
<1>2. \E x \in T : \A y \in T : <<y, x>> \notin R
  BY <1>1, NatLessThanWellFounded, WFMin
<1>3. \A x, y \in Nat : y < x => <<y, x>> \in R
  BY <1>1 DEF OpToRel
<1>4. \A x, y \in Nat : ~(y < x) => x <= y
  OBVIOUS
<1> QED
  BY <1>2, <1>3, <1>4

GitFields == {"here", "origin", "head", "tips", "tracking", "index", "conflicts",
              "work", "merging", "dir", "admin", "linked"}
MemFields == {"tree", "conflicts", "commit", "tip", "head", "dir"}

\* What EXCEPT needs to know of the variables.
ShapeInv ==
    /\ pc \in [Calls -> States] /\ result \in [Calls -> Results]
    /\ request \in [Calls -> Requests] /\ quiet \in [Calls -> BOOLEAN]
    /\ DOMAIN mem = Calls /\ \A c \in Calls : DOMAIN mem[c] = MemFields
    /\ DOMAIN before = Calls
    /\ DOMAIN git = GitFields /\ DOMAIN git.tips = Branches
    /\ \E S : commits \in Seq(S)

\* The steps of an operation and the operation.
OpInv ==
    \A c \in Calls :
        /\ pc[c] = "write index" => request[c].op = "add"
        /\ pc[c] \in {"parent", "create"} => request[c].op = "commit"
        /\ pc[c] = "set head" => request[c].op = "checkout"
        /\ pc[c] = "delete" => request[c].op = "branch_delete"
        /\ pc[c] \in {"analysis", "forward", "checkout", "merge"} => request[c].op = "pull"
        /\ pc[c] \in {"branch", "look", "mkdir", "link"} => request[c].op = "worktree_add"

\* worktree_add is under its lock, and the directory it has seen is still there.
LockInv ==
    \A c \in Calls :
        /\ pc[c] \in {"branch", "look", "mkdir", "link"} => mutex = c
        /\ pc[c] = "mkdir" => (git.dir => mem[c].dir)
        /\ result[c] # "no directory"

\* What the steps of worktree_add have seen of the branch stays true, since only
\* they link a branch, and a linked branch is not deleted.
LinkInv ==
    /\ \A c \in Calls :
          /\ pc[c] = "forward" => mem[c].commit # 0
          /\ pc[c] \in {"look", "mkdir", "link"} => git.here /\ mem[c].head = request[c].ref
          /\ pc[c] \in {"mkdir", "link"} /\ mem[c].head # None =>
                \A v \in Branches : git.linked[v] # mem[c].head
    /\ git.linked \in [Branches -> Branches \cup {None}]
    /\ \A v \in Branches :
          git.linked[v] # None => git.here /\ git.tips[git.linked[v]] # 0
    /\ LinkedApart

-----------------------------------------------------------------------------
LockStates == {"branch", "look", "mkdir", "link"}
\* Where an operation has read the repository and not yet changed it.
Reading == {"write index", "parent", "create", "delete"}

\* The commit that was fetched is a descendant of the tip that was read.
Leads(m) == IsAncestor(m.tip, m.commit)

\* Every step returns, goes on within its operation, or takes the lock.
Returns(c) == \E r \in Results \ {"no directory"} : Return(c, r)
GoesTo(c, p, m) ==
    /\ Go(c, p, m) /\ DOMAIN m = MemFields
    /\ p \in States \ {"start", "branch", "done"}
    /\ p = "write index" => request[c].op = "add"
    /\ p \in {"parent", "create"} => request[c].op = "commit"
    /\ p = "set head" => request[c].op = "checkout"
    /\ p = "delete" => request[c].op = "branch_delete"
    /\ p \in {"analysis", "forward", "checkout", "merge"} => request[c].op = "pull"
    /\ p \in LockStates => pc[c] \in LockStates
    /\ p \in Reading => git' = git /\ pc[c] \in {"start", "parent"}
    /\ p = "set head" => pc[c] = "start" /\ m.commit # 0
    /\ p = "forward" => m.commit # 0 /\ Leads(m) /\ commits' = commits
    /\ p = "delete" => request[c].force
    /\ p = "look" => git.here /\ m.head = request[c].ref
    /\ p = "mkdir" => /\ pc[c] = "look" /\ git' = git /\ m.dir = git.dir /\ m.head = mem[c].head
                     /\ (m.head # None => ~CheckedOut(m.head))
    /\ p = "link" => pc[c] = "mkdir" /\ m.head = mem[c].head
GoesOn(c) == \E p, m : GoesTo(c, p, m)
FindsHalf(c) ==
    /\ pc[c] = "mkdir" /\ git.dir /\ ~mem[c].dir

\* Failing and reporting a result are returns.
LEMMA ReturnForms ==
    ASSUME NEW c \in Calls
    PROVE  /\ Fail(c) => Returns(c)
           /\ \A r \in {"ok", "error", "up_to_date", "fast_forward", "merge"} :
                 Return(c, r) => Returns(c)
BY DEF Fail, Returns, Results

\* The ways an operation goes on to a further step, by the step it goes on to.
LEMMA GoForms ==
    ASSUME NEW c \in Calls, NEW m, DOMAIN m = MemFields
    PROVE  /\ /\ \/ Go(c, "write index", m) /\ request[c].op = "add"
                 \/ /\ Go(c, "delete", m) /\ request[c].op = "branch_delete"
                    /\ request[c].force
                 \/ Go(c, "parent", m) /\ request[c].op = "commit"
              /\ pc[c] = "start" /\ git' = git
              => GoesOn(c)
           /\ /\ Go(c, "create", m) /\ request[c].op = "commit"
              /\ pc[c] = "parent" /\ git' = git
              => GoesOn(c)
           /\ /\ Go(c, "set head", m) /\ request[c].op = "checkout" /\ pc[c] = "start"
              /\ m.commit # 0
              => GoesOn(c)
           /\ \A p \in {"analysis", "checkout", "merge"} :
                 Go(c, p, m) /\ request[c].op = "pull" => GoesOn(c)
           /\ /\ Go(c, "forward", m) /\ request[c].op = "pull" /\ m.commit # 0
              /\ Leads(m) /\ commits' = commits
              => GoesOn(c)
           /\ Go(c, "look", m) /\ pc[c] = "branch" /\ git.here /\ m.head = request[c].ref
              => GoesOn(c)
           /\ Go(c, "link", m) /\ pc[c] = "mkdir" /\ m.head = mem[c].head => GoesOn(c)
           /\ /\ Go(c, "mkdir", m) /\ pc[c] = "look" /\ git' = git /\ m.dir = git.dir
              /\ m.head = mem[c].head /\ (m.head # None => ~CheckedOut(m.head))
              => GoesOn(c)
<1>1. \A p : GoesTo(c, p, m) => GoesOn(c)
    BY DEF GoesOn
<1>2. Go(c, "write index", m) /\ request[c].op = "add" /\ pc[c] = "start" /\ git' = git
        => GoesTo(c, "write index", m)
    BY DEF GoesTo, States, LockStates, Reading
<1>3. /\ Go(c, "parent", m) /\ request[c].op = "commit" /\ pc[c] = "start" /\ git' = git
         => GoesTo(c, "parent", m)
      /\ Go(c, "create", m) /\ request[c].op = "commit" /\ pc[c] = "parent" /\ git' = git
         => GoesTo(c, "create", m)
    BY DEF GoesTo, States, LockStates, Reading
<1>4. Go(c, "set head", m) /\ request[c].op = "checkout" /\ pc[c] = "start" /\ m.commit # 0
        => GoesTo(c, "set head", m)
    BY DEF GoesTo, States, LockStates, Reading
<1>5. /\ Go(c, "delete", m) /\ request[c].op = "branch_delete" /\ request[c].force
      /\ pc[c] = "start" /\ git' = git
      => GoesTo(c, "delete", m)
    BY DEF GoesTo, States, LockStates, Reading
<1>6. \A p \in {"analysis", "checkout", "merge"} :
        Go(c, p, m) /\ request[c].op = "pull" => GoesTo(c, p, m)
    BY DEF GoesTo, States, LockStates, Reading
<1>7. /\ Go(c, "forward", m) /\ request[c].op = "pull" /\ m.commit # 0
      /\ Leads(m) /\ commits' = commits
      => GoesTo(c, "forward", m)
    BY DEF GoesTo, States, LockStates, Reading
<1>8. Go(c, "look", m) /\ pc[c] = "branch" /\ git.here /\ m.head = request[c].ref
        => GoesTo(c, "look", m)
    BY DEF GoesTo, States, LockStates, Reading
<1>9. Go(c, "link", m) /\ pc[c] = "mkdir" /\ m.head = mem[c].head => GoesTo(c, "link", m)
    BY DEF GoesTo, States, LockStates, Reading
<1>10. /\ Go(c, "mkdir", m) /\ pc[c] = "look" /\ git' = git /\ m.dir = git.dir
       /\ m.head = mem[c].head /\ (m.head # None => ~CheckedOut(m.head))
       => GoesTo(c, "mkdir", m)
    BY DEF GoesTo, States, LockStates, Reading
<1>11. /\ \/ Go(c, "write index", m) /\ request[c].op = "add"
          \/ Go(c, "delete", m) /\ request[c].op = "branch_delete" /\ request[c].force
          \/ Go(c, "parent", m) /\ request[c].op = "commit"
       /\ pc[c] = "start" /\ git' = git
       => GoesOn(c)
    BY <1>1, <1>2, <1>3, <1>5, Zenon
<1>12. /\ Go(c, "create", m) /\ request[c].op = "commit"
       /\ pc[c] = "parent" /\ git' = git
       => GoesOn(c)
    BY <1>1, <1>3, Zenon
<1>13. Go(c, "set head", m) /\ request[c].op = "checkout" /\ pc[c] = "start" /\ m.commit # 0
         => GoesOn(c)
    BY <1>1, <1>4, Zenon
<1>14. \A p \in {"analysis", "checkout", "merge"} :
         Go(c, p, m) /\ request[c].op = "pull" => GoesOn(c)
    BY <1>1, <1>6, Zenon
<1>15. /\ Go(c, "forward", m) /\ request[c].op = "pull" /\ m.commit # 0
       /\ Leads(m) /\ commits' = commits
       => GoesOn(c)
    BY <1>1, <1>7, Zenon
<1>16. Go(c, "look", m) /\ pc[c] = "branch" /\ git.here /\ m.head = request[c].ref
         => GoesOn(c)
    BY <1>1, <1>8, Zenon
<1>17. Go(c, "link", m) /\ pc[c] = "mkdir" /\ m.head = mem[c].head => GoesOn(c)
    BY <1>1, <1>9, Zenon
<1>18. /\ Go(c, "mkdir", m) /\ pc[c] = "look" /\ git' = git /\ m.dir = git.dir
       /\ m.head = mem[c].head /\ (m.head # None => ~CheckedOut(m.head))
       => GoesOn(c)
    BY <1>1, <1>10, Zenon
<1> QED
    BY <1>11, <1>12, <1>13, <1>14, <1>15, <1>16, <1>17, <1>18, Zenon

\* A step of a call returns, goes on, takes the lock or finds the worktree half made.
LEMMA Forms ==
    ASSUME ShapeInv, OpInv, NEW c \in Calls, Handler(c)
    PROVE  Returns(c) \/ GoesOn(c) \/ Lock(c) \/ FindsHalf(c)
<1>1. DOMAIN NoMem = MemFields /\ DOMAIN mem[c] = MemFields
    BY DEF ShapeInv, NoMem, MemFields
<1>2. \A x, y : /\ DOMAIN [NoMem EXCEPT !.tree = x, !.conflicts = y] = MemFields
                /\ DOMAIN [NoMem EXCEPT !.tip = x, !.commit = y] = MemFields
                /\ DOMAIN [NoMem EXCEPT !.tree = x] = MemFields
                /\ DOMAIN [NoMem EXCEPT !.commit = x] = MemFields
                /\ [NoMem EXCEPT !.commit = x].commit = x
                /\ DOMAIN [mem[c] EXCEPT !.commit = x] = MemFields
                /\ DOMAIN [NoMem EXCEPT !.head = x] = MemFields
                /\ DOMAIN [mem[c] EXCEPT !.dir = x] = MemFields
                /\ [mem[c] EXCEPT !.dir = x].dir = x
                /\ [mem[c] EXCEPT !.dir = x].head = mem[c].head
                /\ [NoMem EXCEPT !.head = x].head = x
                /\ [NoMem EXCEPT !.tip = x, !.commit = y].commit = y
                /\ [NoMem EXCEPT !.tip = x, !.commit = y].tip = x
    BY <1>1 DEF MemFields
<1>3. CASE Unprepared(c)
    BY <1>3, ReturnForms DEF Unprepared
<1>4. CASE NotThere(c)
    BY <1>4, ReturnForms DEF NotThere
<1>5. CASE InitRepository(c)
    BY <1>5, ReturnForms DEF InitRepository
<1>6. CASE Clone(c)
    BY <1>6, ReturnForms DEF Clone
<1>7. CASE Inspect(c)
    BY <1>7, ReturnForms DEF Inspect
<1>8. CASE Add(c)
    BY <1>1, <1>2, <1>8, ReturnForms, GoForms DEF Add, Open, Asks, OpInv
<1>9. CASE WriteIndex(c)
    BY <1>9, ReturnForms DEF WriteIndex
<1>10. CASE CommitTree(c)
    BY <1>1, <1>2, <1>10, ReturnForms, GoForms DEF CommitTree, Open, Asks, OpInv
<1>11. CASE CommitParent(c)
    BY <1>1, <1>2, <1>11, ReturnForms, GoForms DEF CommitParent, Open, Asks, OpInv
<1>12. CASE CommitCreate(c)
    BY <1>12, ReturnForms DEF CommitCreate
<1>13. CASE CheckoutTree(c)
  <2>1. PICK t : t = Revparse(request[c].name)
    OBVIOUS
  <2>2. \/ Fail(c) \/ Return(c, "ok")
        \/ t # 0 /\ Go(c, "set head", [NoMem EXCEPT !.commit = t])
    BY <1>13, <2>1 DEF CheckoutTree
  <2>3. request[c].op = "checkout" /\ pc[c] = "start"
    BY <1>13 DEF CheckoutTree, Open, Asks
  <2>4. PICK m : m = [NoMem EXCEPT !.commit = t]
    OBVIOUS
  <2>5. DOMAIN m = MemFields /\ m.commit = t
    BY <1>2, <2>4
  <2> QED
    BY <2>2, <2>3, <2>4, <2>5, ReturnForms, GoForms
<1>14. CASE SetHead(c)
    BY <1>14, ReturnForms DEF SetHead
<1>15. CASE BranchCreate(c)
    BY <1>15, ReturnForms DEF BranchCreate
<1>16. CASE BranchLookup(c)
    BY <1>1, <1>2, <1>16, ReturnForms, GoForms DEF BranchLookup, Open, Asks, OpInv
<1>17. CASE BranchDelete(c)
    BY <1>17, ReturnForms DEF BranchDelete
<1>18. CASE Reset(c)
    BY <1>18, ReturnForms DEF Reset
<1>19. CASE MergeBranch(c)
    BY <1>19, ReturnForms DEF MergeBranch, MergeWith
<1>20. CASE Fetch(c)
    BY <1>1, <1>2, <1>20, ReturnForms, GoForms DEF Fetch, Open, Asks, OpInv
<1>21. CASE Push(c)
    BY <1>21, ReturnForms DEF Push
<1>22. CASE Analyse(c)
  <2>1. request[c].op = "pull"
    BY <1>22 DEF Analyse, OpInv
  <2> DEFINE m == [NoMem EXCEPT !.tip = HeadCommit(git), !.commit = git.tracking]
  <2>2. \/ Fail(c) \/ Return(c, "up_to_date")
        \/ Go(c, "merge", m)
        \/ /\ git.tracking # 0 /\ Go(c, "forward", m) /\ commits' = commits
           /\ IsAncestor(HeadCommit(git), git.tracking)
    BY <1>22 DEF Analyse
  <2>3. DOMAIN m = MemFields /\ m.commit = git.tracking /\ m.tip = HeadCommit(git)
    BY <1>2
  <2>4. IsAncestor(HeadCommit(git), git.tracking) => Leads(m)
    BY <2>3 DEF Leads
  <2> HIDE DEF m
  <2> QED
    BY <2>1, <2>2, <2>3, <2>4, ReturnForms, GoForms
<1>23. CASE FastForward(c)
    BY <1>1, <1>2, <1>23, ReturnForms, GoForms DEF FastForward, Open, Asks, OpInv
<1>24. CASE CheckoutForward(c)
    BY <1>24, ReturnForms DEF CheckoutForward
<1>25. CASE MergeUpstream(c)
    BY <1>25, ReturnForms DEF MergeUpstream, MergeWith
<1>26. CASE WorktreeBranch(c)
    BY <1>1, <1>2, <1>26, ReturnForms, GoForms DEF WorktreeBranch, FindsHalf, LockStates
<1>27. CASE LookForDir(c)
    BY <1>1, <1>2, <1>27, ReturnForms, GoForms DEF LookForDir, FindsHalf, LockStates
<1>28. CASE MakeDir(c)
    BY <1>1, <1>2, <1>28, ReturnForms, GoForms DEF MakeDir, FindsHalf, LockStates
<1>29. CASE Link(c)
    BY <1>1, <1>2, <1>29, ReturnForms, GoForms DEF Link, FindsHalf, LockStates
<1> QED
    BY <1>3, <1>4, <1>5, <1>6, <1>7, <1>8, <1>9, <1>10, <1>11, <1>12, <1>13, <1>14,
       <1>15, <1>16, <1>17, <1>18, <1>19, <1>20, <1>21, <1>22, <1>23, <1>24, <1>25,
       <1>26, <1>27, <1>28, <1>29 DEF Handler, Prepared

-----------------------------------------------------------------------------
\* What a step leaves of the control state: a half-made directory is never found.
LEMMA Control ==
    ASSUME ShapeInv, OpInv, LockInv, NEW c \in Calls, Handler(c)
    PROVE  /\ pc' \in [Calls -> States] /\ result' \in [Calls -> Results]
           /\ DOMAIN mem' = Calls /\ \A d \in Calls : DOMAIN mem'[d] = MemFields
           /\ \A d \in Calls \ {c} :
                 pc'[d] = pc[d] /\ mem'[d] = mem[d] /\ result'[d] = result[d]
           /\ result'[c] # "no directory"
           /\ \/ pc'[c] = "done" /\ mutex' = IF mutex = c THEN None ELSE mutex
              \/ \E p, m : GoesTo(c, p, m) /\ pc'[c] = p /\ mem'[c] = m /\ mutex' = mutex
              \/ Lock(c) /\ pc'[c] = "branch" /\ mutex = None /\ mutex' = c
<1> USE DEF ShapeInv
<1>1. result[c] # "no directory"
    BY DEF LockInv
<1>2. CASE Returns(c)
  <2>1. PICK r \in Results \ {"no directory"} : Return(c, r)
    BY <1>2 DEF Returns
  <2>2. DOMAIN NoMem = MemFields
    BY DEF NoMem, MemFields
  <2>3. /\ pc' = [pc EXCEPT ![c] = "done"] /\ result' = [result EXCEPT ![c] = r]
        /\ mem' = [mem EXCEPT ![c] = NoMem]
        /\ mutex' = IF mutex = c THEN None ELSE mutex
    BY <2>1 DEF Return
  <2> QED
    BY <2>2, <2>3 DEF States
<1>3. CASE GoesOn(c)
  <2>1. PICK p, m : GoesTo(c, p, m)
    BY <1>3 DEF GoesOn
  <2>2. /\ pc' = [pc EXCEPT ![c] = p] /\ mem' = [mem EXCEPT ![c] = m]
        /\ result' = result /\ mutex' = mutex
        /\ p \in States /\ DOMAIN m = MemFields
    BY <2>1 DEF GoesTo, Go
  <2>3. pc'[c] = p /\ mem'[c] = m
    BY <2>2
  <2> QED
    BY <1>1, <2>1, <2>2, <2>3
<1>4. CASE Lock(c)
    BY <1>1, <1>4 DEF Lock, States
<1>5. ~FindsHalf(c)
    BY DEF LockInv, FindsHalf
<1> QED
    BY <1>2, <1>3, <1>4, <1>5, Forms

-----------------------------------------------------------------------------
\* What a step leaves of the branches, the links and the directory.
Keeps(g) == /\ g.tips = git.tips /\ g.linked = git.linked
            /\ g.here = git.here /\ g.dir = git.dir
MovesTips(g) ==
    /\ \E n : n # 0 /\ \A b \in Branches : g.tips[b] \in {git.tips[b], n}
    /\ g.linked = git.linked /\ g.here = git.here /\ g.dir = git.dir
Whole(g) == DOMAIN g = GitFields /\ DOMAIN g.tips = Branches

\* A checkout keeps the branches, the links and the directory.
LEMMA ForcedFields ==
    ASSUME ShapeInv, NEW t, NEW force
    PROVE  Whole(CheckedOutTree(t, force)) /\ Keeps(CheckedOutTree(t, force))
BY DEF ShapeInv, GitFields, CheckedOutTree, Whole, Keeps

\* So does a merge.
LEMMA MergedFields ==
    ASSUME ShapeInv, NEW n, NEW force
    PROVE  Whole(Merged(n, force)) /\ Keeps(Merged(n, force))
BY DEF ShapeInv, GitFields, Merged, Whole, Keeps

\* Moving HEAD moves a branch at most, to the commit, and keeps the links.
LEMMA MovedFields ==
    ASSUME NEW g, NEW n, Whole(g), Keeps(g), n # 0
    PROVE  Whole(MoveHead(g, n)) /\ MovesTips(MoveHead(g, n))
<1>1. CASE g.head[1] = "branch"
  <2>1. MoveHead(g, n) = [g EXCEPT !.tips = [g.tips EXCEPT ![g.head[2]] = n]]
    BY <1>1 DEF MoveHead
  <2> QED
    BY <2>1 DEF Whole, Keeps, MovesTips, GitFields
<1>2. CASE g.head[1] # "branch"
    BY <1>2 DEF Whole, Keeps, MovesTips, GitFields, MoveHead
<1> QED
    BY <1>1, <1>2

TipSet(b, n) == [git EXCEPT !.tips = [git.tips EXCEPT ![b] = n]]

\* Setting a tip moves a branch to a commit, and deletes none.
LEMMA SetTip ==
    ASSUME ShapeInv, NEW b, NEW n, n # 0
    PROVE  Whole(TipSet(b, n)) /\ MovesTips(TipSet(b, n))
BY DEF ShapeInv, Whole, MovesTips, GitFields, TipSet

\* What a fetch does to the repository: to origin/main, and to the branch of its refspec.
LEMMA FetchedForms ==
    ASSUME NEW q
    PROVE  \/ Fetched(q) = git
           \/ Fetched(q) = [git EXCEPT !.tracking = remote]
           \/ /\ q.name \in Branches /\ remote # 0
              /\ \/ q.mode = "+" \/ git.tips[q.name] = 0
                 \/ IsAncestor(git.tips[q.name], remote)
              /\ Fetched(q) = [git EXCEPT !.tracking = remote,
                                          !.tips = [git.tips EXCEPT ![q.name] = remote]]
BY DEF Fetched

\* A fetch, on its own or in a pull, fails or does that.
LEMMA FetchForms ==
    ASSUME NEW c \in Calls, Fetch(c)
    PROVE  /\ pc[c] = "start" /\ request[c].op \in {"fetch", "pull"}
           /\ \/ Fail(c)
              \/ /\ git' = Fetched(request[c]) /\ UNCHANGED <<commits, remote>>
                 /\ \/ request[c].op = "fetch" /\ Return(c, "ok")
                    \/ request[c].op = "pull" /\ Go(c, "analysis", NoMem)
BY DEF Fetch, Open, Asks

\* A push fails, or moves the remote's branch if it may, or is refused by the remote.
LEMMA PushForms ==
    ASSUME NEW c \in Calls, Push(c),
           NEW tip, tip = IF request[c].mode = "delete" THEN 0 ELSE git.tips[request[c].name]
    PROVE  /\ pc[c] = "start" /\ request[c].op = "push"
           /\ \/ Fail(c)
              \/ /\ commits' = commits
                 /\ request[c].mode # "none" /\ (request[c].mode = "+" => request[c].force)
                 /\ \/ request[c].mode \in {"delete", "+"} \/ remote = 0
                    \/ IsAncestor(remote, tip)
                 /\ \/ /\ remote' = tip /\ git' = [git EXCEPT !.tracking = tip]
                       /\ Return(c, "ok")
                    \/ remote' = tip /\ git' = git /\ Return(c, "error")
                    \/ UNCHANGED <<git, remote>> /\ Return(c, "ok")
BY DEF Push, Open, Asks

\* Only these steps change more than Keeps says.
Changes(c) ==
    \/ InitRepository(c) \/ Clone(c) \/ BranchDelete(c) \/ MakeDir(c) \/ Link(c)

\* What a step of a call may do to HEAD, the branches and the links.
LEMMA Effects ==
    ASSUME ShapeInv, NEW c \in Calls, Handler(c), pc[c] = "forward" => mem[c].commit # 0
    PROVE  /\ Whole(git') /\ \E S : commits' \in Seq(S)
           /\ Keeps(git') \/ MovesTips(git') \/ Changes(c)
<1> DEFINE Goal == /\ Whole(git') /\ \E S : commits' \in Seq(S)
                   /\ Keeps(git') \/ MovesTips(git') \/ Changes(c)
<1>1. /\ Whole(git) /\ Keeps(git) /\ DOMAIN git = GitFields /\ DOMAIN git.tips = Branches
      /\ \E S : commits \in Seq(S)
    BY DEF ShapeInv, Whole, Keeps
<1>2. Fail(c) => Goal
    BY <1>1 DEF Fail
<1>3. CASE Unprepared(c)
    BY <1>2, <1>3 DEF Unprepared
<1>4. CASE NotThere(c)
    BY <1>2, <1>4 DEF NotThere
<1>5. CASE Inspect(c)
    BY <1>1, <1>5 DEF Inspect
<1>6. CASE CommitTree(c)
    BY <1>1, <1>2, <1>6 DEF CommitTree
<1>7. CASE CommitParent(c)
    BY <1>1, <1>7 DEF CommitParent
<1>8. CASE BranchLookup(c)
    BY <1>1, <1>2, <1>8 DEF BranchLookup
<1>9. CASE Analyse(c)
    BY <1>1, <1>2, <1>9 DEF Analyse
<1>10. CASE Lock(c)
    BY <1>1, <1>10 DEF Lock
<1>11. CASE LookForDir(c)
    BY <1>1, <1>2, <1>11 DEF LookForDir
<1>12. CASE Add(c)
    BY <1>1, <1>2, <1>12 DEF Add
<1>13. CASE WriteIndex(c)
    BY <1>1, <1>2, <1>13 DEF WriteIndex, Whole, Keeps, GitFields
<1>14. CASE SetHead(c)
    BY <1>1, <1>2, <1>14 DEF SetHead, Whole, Keeps, GitFields
<1>15. CASE Fetch(c)
  <2>1. PICK q : q = request[c]
    OBVIOUS
  <2>2. Fail(c) \/ (git' = Fetched(q) /\ commits' = commits)
    BY <1>15, <2>1, FetchForms
  <2>3. Whole(Fetched(q)) /\ (Keeps(Fetched(q)) \/ MovesTips(Fetched(q)))
    <3>1. CASE Fetched(q) = git \/ Fetched(q) = [git EXCEPT !.tracking = remote]
      BY <1>1, <3>1 DEF Whole, Keeps, GitFields
    <3>2. CASE /\ q.name \in Branches /\ remote # 0
               /\ Fetched(q) = [git EXCEPT !.tracking = remote,
                                           !.tips = [git.tips EXCEPT ![q.name] = remote]]
      BY <1>1, <3>2 DEF Whole, MovesTips, GitFields
    <3> QED
      BY <3>1, <3>2, FetchedForms
  <2> QED
    BY <1>1, <1>2, <2>2, <2>3
<1>16. CASE Push(c)
  <2>1. Fail(c) \/ (commits' = commits /\ \E n : git' \in {git, [git EXCEPT !.tracking = n]})
    BY <1>16, PushForms
  <2> QED
    BY <1>1, <1>2, <2>1 DEF Whole, Keeps, GitFields
<1>17. CASE CheckoutTree(c)
    BY <1>1, <1>2, <1>17, ForcedFields DEF CheckoutTree
<1>18. CASE CheckoutForward(c)
    BY <1>1, <1>2, <1>18, ForcedFields DEF CheckoutForward
<1>19. ASSUME NEW k, MergeWith(c, k) PROVE Goal
  <2>1. Whole([git EXCEPT !.merging = 0]) /\ Keeps([git EXCEPT !.merging = 0])
    BY <1>1 DEF Whole, Keeps, GitFields
  <2> QED
    BY <1>1, <1>19, <2>1, MergedFields DEF MergeWith
<1>20. CASE MergeBranch(c)
    BY <1>2, <1>19, <1>20 DEF MergeBranch
<1>21. CASE MergeUpstream(c)
    BY <1>19, <1>21 DEF MergeUpstream
<1>22. CASE CommitCreate(c)
  <2>1. CASE Fail(c)
    BY <1>2, <2>1
  <2>2. CASE ~Fail(c)
    <3> DEFINE e == [tree |-> mem[c].tree, parents |-> {mem[c].commit} \ {0}]
    <3>1. commits' = Append(commits, e) /\ git' = MoveHead(git, Len(commits'))
      BY <1>22, <2>2 DEF CommitCreate
    <3>2. PICK S : commits \in Seq(S)
      BY <1>1
    <3>3. commits' \in Seq(S \cup {e}) /\ Len(commits') # 0
      <4> HIDE DEF e
      <4>1. commits \in Seq(S \cup {e}) /\ e \in S \cup {e}
        BY <3>2
      <4> QED
        BY <3>1, <4>1
    <3> QED
      BY <1>1, <3>1, <3>3, MovedFields
  <2> QED
    BY <2>1, <2>2
<1>23. CASE BranchCreate(c)
  <2> DEFINE t == Revparse(request[c].ref)
  <2>1. Fail(c) \/ (/\ t # 0 /\ commits' = commits
                   /\ git' = TipSet(request[c].name, t))
    BY <1>23 DEF BranchCreate, TipSet
  <2> HIDE DEF t
  <2> QED
    BY <1>1, <1>2, <2>1, SetTip
<1>24. CASE Reset(c)
  <2> DEFINE t == Revparse(request[c].ref)
             hard == IF request[c].mode = "hard" THEN CheckedOutTree(TreeOf(t), TRUE) ELSE git
             moved == MoveHead(hard, t)
  <2>1. \/ Fail(c)
        \/ /\ t # 0 /\ commits' = commits
           /\ \/ git' = moved
              \/ git' = [moved EXCEPT !.index = TreeOf(t), !.conflicts = {}, !.merging = 0]
    BY <1>24 DEF Reset
  <2>2. Whole(hard) /\ Keeps(hard)
    BY <1>1, ForcedFields
  <2>3. t # 0 => Whole(moved) /\ MovesTips(moved)
    <3> HIDE DEF hard, t
    <3> QED
      BY <2>2, MovedFields
  <2>4. t # 0 /\ git' = [moved EXCEPT !.index = TreeOf(t), !.conflicts = {}, !.merging = 0]
          => Whole(git') /\ MovesTips(git')
    <3> HIDE DEF t, hard, moved
    <3> QED
      BY <2>3 DEF Whole, MovesTips, GitFields
  <2> HIDE DEF t, hard, moved
  <2> QED
    BY <1>2, <2>1, <2>3, <2>4, <1>1
<1>25. CASE FastForward(c)
  <2>1. Fail(c) \/ (/\ mem[c].commit # 0 /\ commits' = commits
                   /\ git' = TipSet("main", mem[c].commit))
    BY <1>25 DEF FastForward, TipSet
  <2> QED
    BY <1>1, <1>2, <2>1, SetTip
<1>26. CASE WorktreeBranch(c)
  <2>1. \/ Fail(c)
        \/ git' = git /\ commits' = commits
        \/ \E n : n # 0 /\ commits' = commits /\ git' = TipSet(request[c].ref, n)
    <3>1. CASE request[c].ref # None /\ git.tips[request[c].ref] = 0
      <4>1. PICK n : n = Revparse(IF request[c].mode = "v1" THEN "v1" ELSE "HEAD")
        OBVIOUS
      <4>2. n # 0 => git' = TipSet(request[c].ref, n) /\ commits' = commits
        BY <1>26, <3>1, <4>1 DEF WorktreeBranch, TipSet
      <4>3. n = 0 => Fail(c)
        BY <1>26, <3>1, <4>1 DEF WorktreeBranch
      <4> QED
        BY <4>2, <4>3
    <3>2. CASE ~(request[c].ref # None /\ git.tips[request[c].ref] = 0)
      BY <1>26, <3>2 DEF WorktreeBranch
    <3> QED
      BY <3>1, <3>2
  <2> QED
    BY <1>1, <1>2, <2>1, SetTip
<1>27. CASE InitRepository(c)
    BY <1>1, <1>27 DEF InitRepository, Changes, Whole, GitFields
<1>28. CASE Clone(c)
  <2>1. Fail(c) \/ (/\ commits' = commits
                   /\ DOMAIN git' = DOMAIN git /\ DOMAIN git'.tips = DOMAIN git.tips)
    <3>1. \/ Fail(c)
          \/ /\ commits' = commits
             /\ git' = [git EXCEPT !.here = TRUE, !.origin = TRUE, !.tracking = remote,
                                   !.tips = [git.tips EXCEPT !["main"] = remote],
                                   !.index = TreeOf(remote), !.work = TreeOf(remote)]
      BY <1>28 DEF Clone
    <3>2. ~Fail(c) => /\ DOMAIN git' = DOMAIN git
                      /\ git'.tips = [git.tips EXCEPT !["main"] = remote]
      BY <1>1, <3>1 DEF GitFields
    <3> QED
      BY <3>1, <3>2
  <2> QED
    BY <1>1, <1>2, <1>28, <2>1 DEF Changes, Whole
<1>29. CASE BranchDelete(c)
    BY <1>1, <1>2, <1>29 DEF BranchDelete, Changes, Whole, GitFields
<1>30. CASE MakeDir(c)
    BY <1>1, <1>30 DEF MakeDir, Changes, Whole, GitFields
<1>31. CASE Link(c)
    BY <1>1, <1>2, <1>31 DEF Link, Changes, Whole, GitFields
<1> QED
    BY <1>3, <1>4, <1>5, <1>6, <1>7, <1>8, <1>9, <1>10, <1>11, <1>12, <1>13, <1>14,
       <1>15, <1>16, <1>17, <1>18, <1>20, <1>21, <1>22, <1>23, <1>24, <1>25, <1>26,
       <1>27, <1>28, <1>29, <1>30, <1>31 DEF Handler, Prepared

-----------------------------------------------------------------------------
GitInv == ShapeInv /\ OpInv /\ LockInv /\ LinkInv

\* Nothing has begun in an initial state.
LEMMA GitInit == Init => GitInv
<1> SUFFICES ASSUME Init PROVE GitInv
    OBVIOUS
<1>1. PICK s \in Starts : commits = s.commits /\ git = s.git
    BY DEF Init
<1>2. ShapeInv
    BY <1>1, GitAssumption, StartsAssumption
       DEF Init, ShapeInv, States, Results, NoMem, MemFields, GitFields, Repository
<1>3. OpInv /\ LockInv
    BY DEF Init, OpInv, LockInv, None
<1>4. LinkInv
    BY <1>1, StartsAssumption DEF Init, LinkInv, LinkedApart, Repository
<1> QED
    BY <1>2, <1>3, <1>4 DEF GitInv

\* A step of a call, with its bookkeeping.
LEMMA CallShape ==
    ASSUME ShapeInv, OpInv, LockInv, LinkInv, NEW c \in Calls, Call(c)
    PROVE  ShapeInv' /\ OpInv'
<1>1. /\ Handler(c) /\ request' = request
      /\ quiet' \in [Calls -> BOOLEAN] /\ DOMAIN before' = Calls
    BY DEF Call, Observed, Disturbed, ShapeInv
<1>2. Whole(git') /\ \E S : commits' \in Seq(S)
    BY <1>1, Effects DEF LinkInv
<1>3. ShapeInv'
    BY <1>1, <1>2, Control DEF ShapeInv, Whole
<1>4. OpInv'
  <2> SUFFICES ASSUME NEW d \in Calls
               PROVE  /\ pc'[d] = "write index" => request[d].op = "add"
                      /\ pc'[d] \in {"parent", "create"} => request[d].op = "commit"
                      /\ pc'[d] = "set head" => request[d].op = "checkout"
                      /\ pc'[d] = "delete" => request[d].op = "branch_delete"
                      /\ pc'[d] \in {"analysis", "forward", "checkout", "merge"}
                            => request[d].op = "pull"
                      /\ pc'[d] \in {"branch", "look", "mkdir", "link"}
                            => request[d].op = "worktree_add"
    BY <1>1 DEF OpInv
  <2>1. CASE d # c
    <3>1. pc'[d] = pc[d]
      BY <1>1, <2>1, Control, ZenonT(30)
    <3> QED
      BY <3>1 DEF OpInv
  <2>2. CASE d = c /\ pc'[c] = "done"
    BY <2>2
  <2>3. CASE d = c /\ \E p, m : GoesTo(c, p, m) /\ pc'[c] = p
    BY <2>3 DEF GoesTo, OpInv, LockStates
  <2>4. CASE d = c /\ Lock(c) /\ pc'[c] = "branch"
    BY <2>4 DEF Lock, Asks
  <2> QED
    BY <1>1, <2>1, <2>2, <2>3, <2>4, Control
<1> QED
    BY <1>3, <1>4

\* The steps of worktree_add run under the lock, one call at a time.
LEMMA CallLock ==
    ASSUME ShapeInv, OpInv, LockInv, LinkInv, NEW c \in Calls, Call(c)
    PROVE  LockInv'
<1>1. Handler(c)
    BY DEF Call, Observed
<1>2. git'.dir = git.dir \/ MakeDir(c)
  <2>1. Keeps(git') \/ MovesTips(git') => git'.dir = git.dir
    BY DEF Keeps, MovesTips
  <2>2. Fail(c) => git' = git
    BY DEF Fail
  <2>3. CASE InitRepository(c)
    BY <2>3 DEF InitRepository, ShapeInv, GitFields
  <2>4. CASE Clone(c)
    BY <2>2, <2>4 DEF Clone, ShapeInv, GitFields
  <2>5. CASE BranchDelete(c)
    BY <2>2, <2>5 DEF BranchDelete, ShapeInv, GitFields
  <2>6. CASE Link(c)
    BY <2>2, <2>6 DEF Link, ShapeInv, GitFields
  <2> QED
    BY <1>1, <2>1, <2>3, <2>4, <2>5, <2>6, Effects DEF LinkInv, Changes
<1> SUFFICES ASSUME NEW d \in Calls
             PROVE  /\ pc'[d] \in {"branch", "look", "mkdir", "link"} => mutex' = d
                    /\ pc'[d] = "mkdir" => (git'.dir => mem'[d].dir)
                    /\ result'[d] # "no directory"
    BY DEF LockInv
<1>3. CASE d # c
  <2>1. pc'[d] = pc[d] /\ mem'[d] = mem[d] /\ result'[d] = result[d]
    BY <1>1, <1>3, Control
  <2>2. pc[d] \in {"branch", "look", "mkdir", "link"} => mutex = d /\ mutex # c
    BY <1>3 DEF LockInv
  <2>3. mutex = d => mutex' = d
    BY <1>1, <1>3, GitAssumption, Control
  <2>4. pc[d] = "mkdir" => ~MakeDir(c)
    BY <1>3 DEF LockInv, MakeDir
  <2> QED
    BY <1>2, <2>1, <2>2, <2>3, <2>4 DEF LockInv
<1>4. CASE d = c
  <2>1. CASE pc'[c] = "done"
    BY <1>1, <1>4, <2>1, Control
  <2>2. ASSUME NEW p, NEW m, GoesTo(c, p, m), pc'[c] = p, mem'[c] = m, mutex' = mutex
        PROVE  /\ pc'[c] \in {"branch", "look", "mkdir", "link"} => mutex' = c
               /\ pc'[c] = "mkdir" => (git'.dir => mem'[c].dir)
    BY <2>2 DEF GoesTo, LockInv, LockStates
  <2>3. CASE Lock(c) /\ pc'[c] = "branch" /\ mutex' = c
    BY <1>1, <1>4, <2>3, Control
  <2> QED
    BY <1>1, <1>4, <2>1, <2>2, <2>3, Control
<1> QED
    BY <1>3, <1>4

-----------------------------------------------------------------------------
\* What a step does to the links, and to the commits they need.
LinkKept ==
    /\ git'.linked = git.linked
    /\ git.here => git'.here
    /\ \A b \in Branches : (\E v \in Branches : git.linked[v] = b) /\ git.tips[b] # 0
                              => git'.tips[b] # 0

\* Only the last step of worktree_add links a branch.
LEMMA LinkEffects ==
    ASSUME ShapeInv, LinkInv, NEW c \in Calls, Handler(c)
    PROVE  LinkKept \/ Link(c)
<1> USE DEF ShapeInv, GitFields
<1>1. git' = git => LinkKept
    BY DEF LinkKept
<1>2. Fail(c) => LinkKept
    BY <1>1 DEF Fail
<1>3. Keeps(git') \/ MovesTips(git') => LinkKept
    BY DEF Keeps, MovesTips, LinkKept
<1>4. CASE InitRepository(c)
    BY <1>4 DEF InitRepository, LinkKept
<1>5. CASE Clone(c)
  <2>1. Fail(c) \/ (~git.here /\ git'.here /\ git'.linked = git.linked)
    BY <1>5 DEF Clone
  <2> QED
    BY <1>2, <2>1, GitAssumption DEF LinkKept, LinkInv
<1>6. CASE BranchDelete(c)
  <2> DEFINE b == request[c].name
  <2>1. Fail(c) \/ (~CheckedOut(b) /\ git' = [git EXCEPT !.tips[b] = 0])
    BY <1>6 DEF BranchDelete
  <2>2. CASE ~CheckedOut(b) /\ git' = [git EXCEPT !.tips[b] = 0]
    <3>1. /\ git'.linked = git.linked /\ git'.here = git.here
          /\ git'.tips = [git.tips EXCEPT ![b] = 0]
      BY <2>2
    <3> QED
      BY <2>2, <3>1 DEF CheckedOut, LinkKept
  <2> QED
    BY <1>2, <2>1, <2>2
<1>7. CASE MakeDir(c)
  <2>1. git' = git \/ git' = [git EXCEPT !.dir = TRUE]
    BY <1>7 DEF MakeDir
  <2> QED
    BY <1>1, <2>1 DEF LinkKept
<1> QED
    BY <1>3, <1>4, <1>5, <1>6, <1>7, Effects DEF LinkInv, Changes

\* Linking keeps the links apart: the branch was not linked when it was looked up.
LEMMA LinkStep ==
    ASSUME ShapeInv, OpInv, LockInv, LinkInv, NEW c \in Calls, Link(c)
    PROVE  /\ git'.linked \in [Branches -> Branches \cup {None}]
           /\ \A v \in Branches :
                 git'.linked[v] # None => git'.here /\ git'.tips[git'.linked[v]] # 0
           /\ LinkedApart'
<1> DEFINE w == request[c].name
           b == IF mem[c].head = None THEN w ELSE mem[c].head
           new == mem[c].head = None /\ git.tips[w] = 0
<1> USE DEF ShapeInv, GitFields
<1>1. /\ w \in Branches /\ b \in Branches /\ None \notin Branches
      /\ mem[c].head = request[c].ref
  <2>1. pc[c] = "link" /\ request[c].op = "worktree_add" /\ request[c] \in Requests
    BY DEF Link, OpInv
  <2> QED
    BY <2>1, GitAssumption DEF LinkInv
<1>2. CASE git'.linked = git.linked /\ git'.tips = git.tips /\ git'.here = git.here
    BY <1>2 DEF LinkInv, LinkedApart
<1>3. CASE Fail(c) \/ git' = [git EXCEPT !.admin = git.admin \cup {w}]
    BY <1>2, <1>3 DEF Fail
<1>4. CASE /\ git' = [git EXCEPT !.admin = git.admin \cup {w},
                                 !.linked = [git.linked EXCEPT ![w] = b],
                                 !.tips = [git.tips EXCEPT ![b] = IF new THEN HeadCommit(git)
                                                                  ELSE git.tips[b]]]
           /\ \/ /\ git.tips[b] # 0
                 /\ mem[c].head # None \/ ~CheckedOut(b)
              \/ new /\ HeadCommit(git) # 0
  <2>1. /\ git'.linked = [git.linked EXCEPT ![w] = b]
        /\ git'.tips = [git.tips EXCEPT ![b] = IF new THEN HeadCommit(git) ELSE git.tips[b]]
        /\ git'.here = git.here
    BY <1>4
  <2>2. \A v \in Branches : git.linked[v] # b
    <3>1. CASE mem[c].head # None
      BY <3>1 DEF LinkInv, Link
    <3>2. CASE mem[c].head = None /\ ~CheckedOut(b)
      BY <3>2 DEF CheckedOut
    <3>3. CASE new
      BY <1>1, <3>3 DEF LinkInv
    <3> QED
      BY <1>4, <3>1, <3>2, <3>3
  <2>3. git'.tips[b] # 0 /\ \A d \in Branches \ {b} : git'.tips[d] = git.tips[d]
    BY <1>1, <1>4, <2>1
  <2>4. git.here
    BY DEF LinkInv, Link
  <2>5. \A v \in Branches : git'.linked[v] = IF v = w THEN b ELSE git.linked[v]
    BY <2>1 DEF LinkInv
  <2> HIDE DEF w, b, new
  <2>6. git'.linked \in [Branches -> Branches \cup {None}]
    BY <1>1, <2>1 DEF LinkInv
  <2>7. \A v \in Branches :
           git'.linked[v] # None => git'.here /\ git'.tips[git'.linked[v]] # 0
    BY <1>1, <2>1, <2>3, <2>4, <2>5 DEF LinkInv
  <2>8. LinkedApart'
    BY <1>1, <2>2, <2>5 DEF LinkInv, LinkedApart
  <2> QED
    BY <2>6, <2>7, <2>8
<1> QED
    BY <1>3, <1>4 DEF Link

\* The links stay apart, and lead to branches that have a commit.
LEMMA CallLink ==
    ASSUME ShapeInv, OpInv, LockInv, LinkInv, NEW c \in Calls, Call(c)
    PROVE  LinkInv'
<1>1. Handler(c) /\ request' = request
    BY DEF Call, Observed
<1>2. LinkKept \/ Link(c)
    BY <1>1, LinkEffects
<1>3. git.here => git'.here
    BY <1>2, LinkStep DEF LinkKept, Link, Fail, ShapeInv, GitFields
<1>4. ASSUME NEW d \in Calls, d # c
      PROVE  /\ pc'[d] = "forward" => mem'[d].commit # 0
             /\ pc'[d] \in {"look", "mkdir", "link"} => git'.here /\ mem'[d].head = request[d].ref
             /\ pc'[d] \in {"mkdir", "link"} /\ mem'[d].head # None =>
                   \A v \in Branches : git'.linked[v] # mem'[d].head
  <2>1. pc'[d] = pc[d] /\ mem'[d] = mem[d]
    BY <1>1, <1>4, Control
  <2>2. pc[d] \in {"mkdir", "link"} => LinkKept
    BY <1>2, <1>4 DEF Link, LockInv
  <2> QED
    BY <1>3, <2>1, <2>2 DEF LinkInv, LinkKept
<1>5. /\ pc'[c] = "forward" => mem'[c].commit # 0
      /\ pc'[c] \in {"look", "mkdir", "link"} => git'.here /\ mem'[c].head = request[c].ref
      /\ pc'[c] \in {"mkdir", "link"} /\ mem'[c].head # None =>
            \A v \in Branches : git'.linked[v] # mem'[c].head
  <2>1. CASE pc'[c] = "done"
    BY <2>1
  <2>2. CASE Lock(c) /\ pc'[c] = "branch"
    BY <2>2
  <2>3. ASSUME NEW p, NEW m, GoesTo(c, p, m), pc'[c] = p, mem'[c] = m
        PROVE  /\ p = "forward" => m.commit # 0
               /\ p \in {"look", "mkdir", "link"} => git'.here /\ m.head = request[c].ref
               /\ p \in {"mkdir", "link"} /\ m.head # None =>
                     \A v \in Branches : git'.linked[v] # m.head
    <3>1. CASE p = "mkdir"
      BY <1>3, <2>3, <3>1 DEF GoesTo, LinkInv, CheckedOut
    <3>2. CASE p = "link"
      <4>1. pc[c] = "mkdir" /\ m.head = mem[c].head /\ LinkKept
        BY <1>2, <2>3, <3>2 DEF GoesTo, Link
      <4> QED
        BY <1>3, <2>3, <3>2, <4>1 DEF LinkInv, LinkKept
    <3>3. CASE p \notin {"mkdir", "link"}
      BY <1>3, <2>3, <3>3 DEF GoesTo
    <3> QED
      BY <3>1, <3>2, <3>3
  <2> QED
    BY <1>1, <2>1, <2>2, <2>3, Control, ZenonT(30)
<1>6. /\ git'.linked \in [Branches -> Branches \cup {None}]
      /\ \A v \in Branches :
            git'.linked[v] # None => git'.here /\ git'.tips[git'.linked[v]] # 0
      /\ LinkedApart'
  <2>1. CASE LinkKept
    <3>1. ASSUME NEW v \in Branches, git.linked[v] # None
          PROVE  git'.tips[git.linked[v]] # 0
      BY <2>1, <3>1 DEF LinkKept, LinkInv
    <3> QED
      BY <2>1, <3>1 DEF LinkKept, LinkInv, LinkedApart
  <2> QED
    BY <1>2, <2>1, LinkStep
<1> QED
  <2>1. \A d \in Calls :
           /\ pc'[d] = "forward" => mem'[d].commit # 0
           /\ pc'[d] \in {"look", "mkdir", "link"} => git'.here /\ mem'[d].head = request'[d].ref
           /\ pc'[d] \in {"mkdir", "link"} /\ mem'[d].head # None =>
                 \A v \in Branches : git'.linked[v] # mem'[d].head
    BY <1>1, <1>4, <1>5
  <2> QED
    BY <1>6, <2>1 DEF LinkInv

\* Edits of files and other clones leave the control state and the links alone.
LEMMA OthersKeep ==
    ASSUME GitInv, Edit \/ RemoteMoves \/ UNCHANGED vars
    PROVE  GitInv'
<1>1. CASE Edit
  <2>1. PICK f, x : git' = [git EXCEPT !.work = [git.work EXCEPT ![f] = x]]
    BY <1>1 DEF Edit
  <2>2. /\ DOMAIN git' = GitFields /\ git'.tips = git.tips /\ git'.here = git.here
        /\ git'.dir = git.dir /\ git'.linked = git.linked
    BY <2>1 DEF GitInv, ShapeInv, GitFields
  <2>3. quiet' \in [Calls -> BOOLEAN]
    BY <1>1 DEF Edit, Disturbed, GitInv, ShapeInv
  <2>4. UNCHANGED <<commits, mutex, request, pc, result, mem, before>>
    BY <1>1 DEF Edit
  <2>5. ShapeInv' /\ OpInv'
    BY <2>2, <2>3, <2>4 DEF GitInv, ShapeInv, OpInv
  <2>6. LockInv'
    BY <2>2, <2>4 DEF GitInv, LockInv
  <2>7. LinkInv'
    BY <2>2, <2>4 DEF GitInv, LinkInv, LinkedApart
  <2> QED
    BY <2>5, <2>6, <2>7 DEF GitInv
<1>2. CASE RemoteMoves
  <2>1. PICK e : commits' = Append(commits, e)
    BY <1>2 DEF RemoteMoves
  <2>2. PICK S : commits \in Seq(S)
    BY DEF GitInv, ShapeInv
  <2>3. commits' \in Seq(S \cup {e})
    <3>1. commits \in Seq(S \cup {e}) /\ e \in S \cup {e}
      BY <2>2
    <3> QED
      BY <2>1, <3>1
  <2>4. quiet' \in [Calls -> BOOLEAN]
    BY <1>2 DEF RemoteMoves, Disturbed, GitInv, ShapeInv
  <2>5. UNCHANGED <<git, mutex, request, pc, result, mem, before>>
    BY <1>2 DEF RemoteMoves
  <2>6. ShapeInv' /\ OpInv'
    BY <2>3, <2>4, <2>5 DEF GitInv, ShapeInv, OpInv
  <2>7. LockInv' /\ LinkInv'
    BY <2>5 DEF GitInv, LockInv, LinkInv, LinkedApart
  <2> QED
    BY <2>6, <2>7 DEF GitInv
<1>3. CASE UNCHANGED vars
    BY <1>3 DEF vars, GitInv, ShapeInv, OpInv, LockInv, LinkInv, LinkedApart
<1> QED
    BY <1>1, <1>2, <1>3

\* Every reachable state satisfies the invariant the results below are read off.
THEOREM GitCorrect == Spec => []GitInv
<1>1. Init => GitInv
    BY GitInit
<1>2. GitInv /\ [Next]_vars => GitInv'
  <2> SUFFICES ASSUME GitInv, [Next]_vars
               PROVE  GitInv'
    OBVIOUS
  <2>1. CASE \E c \in Calls : Call(c)
    BY <2>1, CallShape, CallLock, CallLink DEF GitInv
  <2> QED
    BY <2>1, OthersKeep DEF Next
<1> QED
    BY <1>1, <1>2, PTL DEF Spec

\* The lock of worktree_add (git.cpp:971) keeps every other call from finding the
\* directory of working trees half made.
THEOREM WorktreesSafe == Spec => []WorktreesTogether
<1>1. GitInv => WorktreesTogether
    BY DEF GitInv, LockInv, WorktreesTogether
<1> QED
    BY <1>1, GitCorrect, PTL

\* No two linked working trees are ever on one branch, though worktree_add looks at
\* the branch, makes directories and uses the branch in separate steps, among any
\* number of other calls: its lock, and the refusal to delete a linked branch.
THEOREM LinksApart == Spec => []LinkedApart
<1>1. GitInv => LinkedApart
    BY DEF GitInv, LinkInv
<1> QED
    BY <1>1, GitCorrect, PTL

-----------------------------------------------------------------------------
\* Of a call that has been alone since it began: it has read what is still there.
QuietInv ==
    \A c \in Calls : quiet[c] =>
        /\ pc[c] \in Reading => before[c][1] = git
        /\ pc[c] = "set head" => before[c][1].linked = git.linked

\* The first of one element.
LEMMA First == \A s, g : s = <<g>> => s[1] = g
OBVIOUS

\* Every step keeps what is known of the calls that have been alone.
LEMMA QuietStep ==
    ASSUME GitInv, QuietInv, [Next]_vars
    PROVE  QuietInv'
<1>1. CASE UNCHANGED vars
    BY <1>1 DEF vars, QuietInv
<1>2. CASE Edit \/ RemoteMoves
  <2>1. UNCHANGED <<pc, before>> /\ Disturbed(None)
    BY <1>2 DEF Edit, RemoteMoves
  <2>2. \A c \in Calls : quiet'[c] => pc[c] \in {"start", "done"}
    BY <2>1, GitAssumption DEF Disturbed
  <2> QED
    BY <2>1, <2>2 DEF QuietInv, Reading
<1>3. ASSUME NEW d \in Calls, Call(d)
      PROVE  QuietInv'
  <2>1. /\ Handler(d)
        /\ quiet' = [c \in Calls |-> quiet[c] /\ (c = d \/ pc[c] \in {"start", "done"})]
        /\ before' = [before EXCEPT ![d] = IF pc'[d] = "done" THEN <<>>
                                           ELSE IF pc[d] = "start" THEN <<git>> ELSE before[d]]
    BY <1>3 DEF Call, Observed, Disturbed
  <2> SUFFICES ASSUME NEW c \in Calls, quiet'[c]
               PROVE  /\ pc'[c] \in Reading => before'[c][1] = git'
                      /\ pc'[c] = "set head" => before'[c][1].linked = git'.linked
    BY DEF QuietInv
  <2>2. CASE c # d
    <3>1. pc'[c] = pc[c] /\ pc[c] \in {"start", "done"}
      BY <2>1, <2>2, Control DEF GitInv
    <3> QED
      BY <3>1 DEF Reading
  <2>3. CASE c = d
    <3>1. CASE pc'[d] \in {"done", "branch"}
      BY <2>3, <3>1 DEF Reading
    <3>2. ASSUME NEW p, NEW m, GoesTo(d, p, m), pc'[d] = p
          PROVE  /\ p \in Reading => before'[d][1] = git'
                 /\ p = "set head" => before'[d][1].linked = git'.linked
      <4>1. before'[d] = IF p = "done" THEN <<>>
                         ELSE IF pc[d] = "start" THEN <<git>> ELSE before[d]
        BY <2>1, <3>2 DEF GitInv, ShapeInv
      <4>2. CASE p \in Reading
        <5>1. git' = git /\ p \notin {"done", "set head"}
          BY <3>2, <4>2 DEF GoesTo, Reading
        <5>2. CASE pc[d] = "start"
          <6>1. before'[d] = <<git>>
            BY <4>1, <5>1, <5>2
          <6> QED
            BY <5>1, <6>1, First
        <5>3. CASE pc[d] = "parent"
          BY <2>1, <2>3, <4>1, <5>1, <5>3 DEF QuietInv, Reading
        <5> QED
          BY <3>2, <4>2, <5>2, <5>3 DEF GoesTo
      <4>3. CASE p = "set head"
        <5>1. pc[d] = "start" /\ before'[d] = <<git>>
          BY <3>2, <4>1, <4>3 DEF GoesTo
        <5>2. LinkKept
          BY <2>1, <5>1, LinkEffects DEF Link, GitInv
        <5> QED
          BY <4>3, <5>1, <5>2, First DEF LinkKept, Reading
      <4> QED
        BY <4>2, <4>3
    <3>3. \/ pc'[d] \in {"done", "branch"}
          \/ \E p, m : GoesTo(d, p, m) /\ pc'[d] = p
      BY <2>1, Control DEF GitInv
    <3> QED
      BY <2>3, <3>1, <3>2, <3>3
  <2> QED
    BY <2>2, <2>3
<1> QED
    BY <1>1, <1>2, <1>3 DEF Next

\* The remote is as it was, unless a push that may be made has reached it.
RemoteKept(c) ==
    \/ remote' = remote
    \/ /\ request[c].op = "push" /\ request[c].mode # "none"
       /\ request[c].mode = "+" => request[c].force

\* The step that fails changes nothing, but in the operations that are excepted.
LEMMA FailingStep ==
    ASSUME ShapeInv, OpInv, NEW c \in Calls, Handler(c),
           pc'[c] = "done", result'[c] = "error",
           request[c].op \notin {"pull", "merge", "worktree_add"}
    PROVE  /\ git' = git /\ RemoteKept(c)
           /\ pc[c] \in Reading \cup {"start", "set head"}
           /\ pc[c] = "set head" =>
                \/ request[c].mode = "short"
                \/ \E b \in Branches : git.linked[b] = request[c].name
<1> DEFINE Goal == /\ git' = git /\ RemoteKept(c)
                   /\ pc[c] \in Reading \cup {"start", "set head"}
                   /\ pc[c] = "set head" =>
                        \/ request[c].mode = "short"
                        \/ \E b \in Branches : git.linked[b] = request[c].name
<1>1. \A r : Return(c, r) => r = "error"
    BY DEF Return, ShapeInv
<1>2. Fail(c) => git' = git /\ RemoteKept(c)
    BY DEF Fail, RemoteKept
<1>3. \A p, m : Go(c, p, m) => p = "done"
    BY DEF Go, ShapeInv
<1>4. pc[c] \notin {"analysis", "forward", "checkout", "merge", "branch", "look", "mkdir", "link"}
    BY DEF OpInv
<1> USE DEF Reading
<1>5. CASE Unprepared(c)
    BY <1>2, <1>5 DEF Unprepared
<1>6. CASE NotThere(c)
    BY <1>2, <1>4, <1>6 DEF NotThere
<1>7. CASE InitRepository(c)
    BY <1>1, <1>7 DEF InitRepository
<1>8. CASE Clone(c)
    BY <1>1, <1>2, <1>8 DEF Clone, Asks
<1>9. CASE Inspect(c)
    BY <1>9 DEF Inspect, Open, Asks, RemoteKept
<1>10. CASE Add(c)
    BY <1>2, <1>3, <1>10 DEF Add, Open, Asks
<1>11. CASE WriteIndex(c)
    BY <1>1, <1>11 DEF WriteIndex
<1>12. CASE CommitTree(c)
    BY <1>2, <1>3, <1>12 DEF CommitTree, Open, Asks
<1>13. CASE CommitParent(c)
    BY <1>3, <1>13 DEF CommitParent
<1>14. CASE CommitCreate(c)
    BY <1>1, <1>2, <1>14 DEF CommitCreate
<1>15. CASE CheckoutTree(c)
    BY <1>1, <1>2, <1>3, <1>15 DEF CheckoutTree, Open, Asks
<1>16. CASE SetHead(c)
    BY <1>1, <1>2, <1>16 DEF SetHead, CheckedOut
<1>17. CASE BranchCreate(c)
    BY <1>1, <1>2, <1>17 DEF BranchCreate, Open, Asks
<1>18. CASE BranchLookup(c)
    BY <1>2, <1>3, <1>18 DEF BranchLookup, Open, Asks
<1>19. CASE BranchDelete(c)
    BY <1>1, <1>2, <1>19 DEF BranchDelete
<1>20. CASE Reset(c)
  <2>1. Fail(c) \/ Return(c, "ok")
    BY <1>20 DEF Reset
  <2> QED
    BY <1>1, <1>2, <1>20, <2>1 DEF Reset, Open, Asks
<1>21. CASE Push(c)
  <2>1. PICK tip : tip = IF request[c].mode = "delete" THEN 0 ELSE git.tips[request[c].name]
    OBVIOUS
  <2> QED
    BY <1>1, <1>2, <1>21, <2>1, PushForms DEF RemoteKept
<1>22. CASE Fetch(c)
    BY <1>1, <1>2, <1>22, FetchForms
<1>23. CASE MergeBranch(c)
    BY <1>23 DEF MergeBranch, Open, Asks
<1>24. CASE \/ Analyse(c) \/ FastForward(c) \/ CheckoutForward(c) \/ MergeUpstream(c)
            \/ WorktreeBranch(c) \/ LookForDir(c) \/ MakeDir(c) \/ Link(c)
    BY <1>4, <1>24 DEF Analyse, FastForward, CheckoutForward, MergeUpstream, WorktreeBranch,
                       LookForDir, MakeDir, Link
<1>25. CASE Lock(c)
    BY <1>25 DEF Lock, Asks
<1> QED
    BY <1>5, <1>6, <1>7, <1>8, <1>9, <1>10, <1>11, <1>12, <1>13, <1>14, <1>15, <1>16,
       <1>17, <1>18, <1>19, <1>20, <1>21, <1>22, <1>23, <1>24, <1>25 DEF Handler, Prepared

\* An operation that fails, and ran alone, has left the repository and the remote as
\* they were when it began, but for the operations named there and for a push whose
\* answer is lost: git.cpp looks at everything that can be refused before the first call
\* that changes something.
THEOREM FailuresHarmless == Spec => FailureHarmless
<1>1. Init => QuietInv
    BY DEF Init, QuietInv, Reading
<1>2. GitInv /\ QuietInv /\ [Next]_vars => QuietInv'
    BY QuietStep
<1>3. GitInv /\ QuietInv /\ [Next]_vars =>
        [\A c \in Calls :
          LET q == request[c]
              w == Was(c)
          IN  /\ ReturnsAlone(c, "error")
              /\ q.op \notin {"pull", "merge", "worktree_add"}
              /\ q.op = "checkout" =>
                    q.mode # "short" /\ \A b \in Branches : w.linked[b] # q.name
              => /\ git' = w
                 /\ \/ remote' = remote
                    \/ q.op = "push" /\ q.mode # "none" /\ (q.mode = "+" => q.force)]_vars
  <2> SUFFICES ASSUME GitInv, QuietInv, Next, NEW c \in Calls, ReturnsAlone(c, "error"),
                      request[c].op \notin {"pull", "merge", "worktree_add"},
                      request[c].op = "checkout" =>
                        /\ request[c].mode # "short"
                        /\ \A b \in Branches : Was(c).linked[b] # request[c].name
               PROVE  git' = Was(c) /\ RemoteKept(c)
    BY DEF RemoteKept
  <2>1. pc'[c] # pc[c] /\ pc'[c] = "done" /\ quiet[c] /\ result'[c] = "error"
    BY DEF ReturnsAlone, Moved
  <2>2. Handler(c)
    <3>1. PICK d \in Calls : Call(d)
      BY <2>1 DEF Next, Edit, RemoteMoves
    <3>2. Handler(d)
      BY <3>1 DEF Call, Observed
    <3>3. d = c
      BY <2>1, <3>2, Control DEF GitInv
    <3> QED
      BY <3>2, <3>3
  <2>3. /\ git' = git /\ RemoteKept(c)
        /\ pc[c] \in Reading \cup {"start", "set head"}
        /\ pc[c] = "set head" =>
             \/ request[c].mode = "short"
             \/ \E b \in Branches : git.linked[b] = request[c].name
    BY <2>1, <2>2, FailingStep DEF GitInv
  <2>4. CASE pc[c] = "start"
    BY <2>3, <2>4 DEF Was
  <2>5. CASE pc[c] \in Reading
    BY <2>1, <2>3, <2>5 DEF Was, QuietInv, Reading
  <2>6. CASE pc[c] = "set head"
    <3>1. request[c].op = "checkout" /\ Was(c).linked = git.linked
      BY <2>1, <2>6 DEF Was, QuietInv, GitInv, OpInv
    <3> QED
      BY <2>3, <2>6, <3>1
  <2> QED
    BY <2>3, <2>4, <2>5, <2>6
<1> QED
    BY <1>1, <1>2, <1>3, GitCorrect, PTL DEF Spec, FailureHarmless
-----------------------------------------------------------------------------
\* Every reference of the repository, and every commit that a call has read, is one
\* there is; the histories have no cycles; a repository that is not there has no
\* branches, and a call that has opened one finds it there.
CommitSet == [tree : Trees, parents : SUBSET Nat]
Mems(n) == [tree : Trees, conflicts : SUBSET Files, commit : 0..n, tip : 0..n,
            head : Branches \cup {None}, dir : BOOLEAN]
CommitsInv == /\ commits \in Seq(CommitSet)
           /\ \A n \in DOMAIN commits : commits[n].parents \subseteq 1..(n - 1)
RefInv ==
    /\ CommitsInv
    /\ git \in Repository(Len(commits)) /\ remote \in 0..Len(commits) /\ fresh \in Nat
    /\ \A c \in Calls : mem[c] \in Mems(Len(commits))
    /\ git.here \/ \A b \in Branches : git.tips[b] = 0
    /\ \A c \in Calls : /\ pc[c] \notin {"start", "branch", "done"} => git.here
                        /\ pc[c] = "set head" => mem[c].commit # 0

\* The commits are numbered from 1.
LEMMA Counted ==
    ASSUME CommitsInv
    PROVE  Len(commits) \in Nat /\ DOMAIN commits = 1..Len(commits)
BY DEF CommitsInv

\* HEAD is on a commit there is, or on none.
LEMMA HeadTyped ==
    ASSUME NEW n \in Nat, NEW g \in Repository(n)
    PROVE  HeadCommit(g) \in 0..n
BY DEF Repository, Heads, HeadCommit

\* The empty tree stands for no commit.
LEMMA TreeTyped ==
    ASSUME CommitsInv, NEW n \in 0..Len(commits)
    PROVE  TreeOf(n) \in Trees
<1>1. CASE n = 0
    BY <1>1, GitAssumption DEF TreeOf, Empty, Trees, Marked
<1>2. CASE n # 0
  <2>1. n \in DOMAIN commits /\ commits[n] \in CommitSet
    BY <1>2 DEF CommitsInv
  <2> QED
    BY <1>2, <2>1 DEF TreeOf, CommitSet
<1> QED
    BY <1>1, <1>2

\* A later state of the repository has no fewer commits.
LEMMA RepositoryGrows ==
    ASSUME NEW m \in Nat, NEW n \in Nat, m <= n
    PROVE  Repository(m) \subseteq Repository(n) /\ Mems(m) \subseteq Mems(n)
<1>1. 0..m \subseteq 0..n /\ 1..m \subseteq 1..n
    OBVIOUS
<1>2. Heads(m) \subseteq Heads(n) /\ [Branches -> 0..m] \subseteq [Branches -> 0..n]
    BY <1>1 DEF Heads
<1> HIDE DEF Heads
<1>3. Repository(m) \subseteq Repository(n)
  <2> SUFFICES ASSUME NEW g \in Repository(m) PROVE g \in Repository(n)
    OBVIOUS
  <2> QED
    BY <1>1, <1>2 DEF Repository
<1>4. Mems(m) \subseteq Mems(n)
    BY <1>1 DEF Mems
<1> QED
    BY <1>3, <1>4

\* revparse finds a commit there is, or none.
LEMMA RevparseTyped ==
    ASSUME RefInv, NEW ref
    PROVE  Revparse(ref) \in 0..Len(commits)
<1>1. Len(commits) \in Nat /\ (commits # <<>> => 1 \in 0..Len(commits))
  <2>1. CommitsInv
    BY DEF RefInv
  <2> QED
    BY <2>1, Counted DEF CommitsInv
<1>2. HeadCommit(git) \in 0..Len(commits)
    BY <1>1, HeadTyped DEF RefInv
<1>3. ref \in Branches => git.tips[ref] \in 0..Len(commits)
    BY DEF RefInv, Repository
<1> QED
    BY <1>1, <1>2, <1>3 DEF Revparse

\* A repository stays one when its HEAD is moved to a commit there is.
LEMMA MovedTyped ==
    ASSUME NEW n \in Nat, NEW g \in Repository(n), NEW k \in 1..n
    PROVE  MoveHead(g, k) \in Repository(n)
<1>1. CASE g.head[1] = "branch"
  <2>1. g.tips \in [Branches -> 0..n] /\ k \in 0..n
    BY DEF Repository
  <2>2. [g.tips EXCEPT ![g.head[2]] = k] \in [Branches -> 0..n]
    BY <2>1
  <2>3. MoveHead(g, k) = [g EXCEPT !.tips = [g.tips EXCEPT ![g.head[2]] = k]]
    BY <1>1 DEF MoveHead
  <2> QED
    BY <2>2, <2>3 DEF Repository
<1>2. CASE g.head[1] # "branch"
  <2>1. MoveHead(g, k) = [g EXCEPT !.head = <<"commit", k>>] /\ <<"commit", k>> \in Heads(n)
    BY <1>2 DEF MoveHead, Heads
  <2> HIDE DEF Heads
  <2> QED
    BY <2>1 DEF Repository
<1> QED
    BY <1>1, <1>2

\* A repository stays one when a tree is checked out.
LEMMA CheckedOutTyped ==
    ASSUME RefInv, NEW t \in Trees, NEW force
    PROVE  CheckedOutTree(t, force) \in Repository(Len(commits))
<1>1. git \in Repository(Len(commits))
    BY DEF RefInv
<1>2. git.work \in Trees /\ git.index \in Trees /\ git.conflicts \in SUBSET Files
    BY <1>1 DEF Repository
<1>3. \A u \in Trees : [f \in Files |-> IF f \in Touched(t, force) THEN t[f] ELSE u[f]] \in Trees
    BY DEF Trees
<1>4. PICK w \in Trees, i \in Trees, k \in SUBSET Files :
        CheckedOutTree(t, force) = [git EXCEPT !.work = w, !.index = i, !.conflicts = k]
    BY <1>2, <1>3 DEF CheckedOutTree
<1> QED
    BY <1>1, <1>4 DEF Repository

\* A repository stays one when a commit there is is merged into it.
LEMMA MergedTyped ==
    ASSUME RefInv, NEW n \in 0..Len(commits), NEW force
    PROVE  Merged(n, force) \in Repository(Len(commits))
<1>1. git \in Repository(Len(commits)) /\ Len(commits) \in Nat
    BY Counted DEF RefInv
<1>2. git.work \in Trees
    BY <1>1 DEF Repository
<1>3. TreeOf(n) \in Trees /\ TreeOf(HeadCommit(git)) \in Trees
    BY <1>1, HeadTyped, TreeTyped DEF RefInv
<1>4. MergedTree(n) \in Trees
  <2> HIDE DEF Trees
  <2>1. \A t, u, v : t \in Trees /\ u \in Trees =>
          [f \in Files |-> IF u[f] = v[f] THEN t[f] ELSE u[f]] \in Trees
    BY DEF Trees
  <2> QED
    BY <1>3, <2>1 DEF MergedTree
<1>5. Clashes(n) \in SUBSET Files
    BY DEF Clashes
<1>6. Marked \in 0..Marked
    BY GitAssumption DEF Marked
<1>7. PICK w \in Trees, i \in Trees, k \in SUBSET Files :
        Merged(n, force) = [git EXCEPT !.index = i, !.conflicts = k, !.merging = n, !.work = w]
  <2> DEFINE kept(f) == ~force /\ MergedTree(n)[f] = TreeOf(HeadCommit(git))[f]
             w == [f \in Files |-> IF f \in Clashes(n) THEN Marked
                                   ELSE IF kept(f) \/ (git.index[f] = 0 /\ MergedTree(n)[f] = 0)
                                        THEN git.work[f] ELSE MergedTree(n)[f]]
  <2>1. w \in Trees
    <3> HIDE DEF kept
    <3> QED
      BY <1>2, <1>4, <1>6 DEF Trees
  <2>2. Merged(n, force) = [git EXCEPT !.index = MergedTree(n), !.conflicts = Clashes(n),
                                       !.merging = n, !.work = w]
    BY DEF Merged
  <2> HIDE DEF w
  <2> QED
    BY <1>4, <1>5, <2>1, <2>2
<1> QED
    BY <1>1, <1>7 DEF Repository
\* No commit goes away.
Longer == /\ Len(commits) <= Len(commits')
          /\ \A n \in 1..Len(commits) : commits'[n] = commits[n]

\* A step of a call keeps the types.
Typed(c) ==
    /\ CommitsInv' /\ Longer
    /\ git' \in Repository(Len(commits')) /\ remote' \in 0..Len(commits')
    /\ mem'[c] \in Mems(Len(commits'))
\* A step that makes no commit.
Quietly(c, g, m) ==
    /\ commits' = commits /\ remote' = remote /\ git' = g /\ mem'[c] = m

\* An operation begins with nothing read.
LEMMA NoMemTyped ==
    ASSUME NEW n \in Nat
    PROVE  NoMem \in Mems(n)
BY GitAssumption DEF NoMem, Mems, Empty, Trees, Marked

\* A step that makes no commit is well typed when its repository and its memory are.
LEMMA QuietlyTyped ==
    ASSUME RefInv, NEW c \in Calls, NEW g \in Repository(Len(commits)),
           NEW m \in Mems(Len(commits)), Quietly(c, g, m)
    PROVE  Typed(c)
<1>1. Len(commits) \in Nat
    BY Counted DEF RefInv
<1>2. CommitsInv /\ remote \in 0..Len(commits)
    BY DEF RefInv
<1>3. CommitsInv'
    BY <1>2 DEF CommitsInv, Quietly
<1> QED
    BY <1>1, <1>2, <1>3 DEF Quietly, Typed, Longer

\* Returning and going on make no commit and leave the remote.
LEMMA ReturnQuietly ==
    ASSUME ShapeInv, NEW c \in Calls
    PROVE  /\ Fail(c) => Quietly(c, git, NoMem)
           /\ \A r, g : /\ Return(c, r) /\ git' = g /\ UNCHANGED <<commits, remote>>
                        => Quietly(c, g, NoMem)
           /\ \A p, m, g : /\ Go(c, p, m) /\ git' = g /\ UNCHANGED <<commits, remote>>
                           => Quietly(c, g, m)
BY DEF ShapeInv, Fail, Return, Go, Quietly

\* What the fields of the repository may become.
LEMMA FieldsTyped ==
    ASSUME NEW n \in Nat, NEW g \in Repository(n)
    PROVE  /\ [g EXCEPT !.here = TRUE] \in Repository(n)
           /\ [g EXCEPT !.dir = TRUE] \in Repository(n)
           /\ [g EXCEPT !.merging = 0] \in Repository(n)
           /\ \A t \in Trees, k \in SUBSET Files :
                 [g EXCEPT !.index = t, !.conflicts = k] \in Repository(n)
           /\ \A t \in Trees : [g EXCEPT !.index = t, !.conflicts = {}, !.merging = 0] \in Repository(n)
           /\ \A h \in Heads(n) : [g EXCEPT !.head = h] \in Repository(n)
           /\ \A k \in 0..n : [g EXCEPT !.tracking = k] \in Repository(n)
<1> HIDE DEF Heads, Trees
<1>1. [g EXCEPT !.here = TRUE] \in Repository(n) /\ [g EXCEPT !.dir = TRUE] \in Repository(n)
    BY DEF Repository
<1>2. [g EXCEPT !.merging = 0] \in Repository(n)
    BY DEF Repository
<1>3. \A t \in Trees, k \in SUBSET Files :
        [g EXCEPT !.index = t, !.conflicts = k] \in Repository(n)
    BY DEF Repository
<1>4. \A t \in Trees : [g EXCEPT !.index = t, !.conflicts = {}, !.merging = 0] \in Repository(n)
  <2> SUFFICES ASSUME NEW t \in Trees
               PROVE  [g EXCEPT !.index = t, !.conflicts = {}, !.merging = 0] \in Repository(n)
    OBVIOUS
  <2>1. PICK k \in SUBSET Files : k = {}
    OBVIOUS
  <2>2. PICK z \in 0..n : z = 0
    OBVIOUS
  <2>3. [g EXCEPT !.index = t, !.conflicts = k, !.merging = z] \in Repository(n)
    BY DEF Repository
  <2> QED
    BY <2>1, <2>2, <2>3
<1>5. \A h \in Heads(n) : [g EXCEPT !.head = h] \in Repository(n)
    BY DEF Repository
<1>6. \A k \in 0..n : [g EXCEPT !.tracking = k] \in Repository(n)
    BY DEF Repository
<1> QED
    BY <1>1, <1>2, <1>3, <1>4, <1>5, <1>6

\* A repository stays one when a branch is set to a commit there is.
LEMMA TipTyped ==
    ASSUME NEW n \in Nat, NEW g \in Repository(n), NEW b, NEW k \in 0..n
    PROVE  [g EXCEPT !.tips[b] = k] \in Repository(n)
<1>1. [g.tips EXCEPT ![b] = k] \in [Branches -> 0..n]
    BY DEF Repository
<1>2. [g EXCEPT !.tips = [g.tips EXCEPT ![b] = k]] \in Repository(n)
    BY <1>1 DEF Repository
<1> QED
    BY <1>2

\* A new commit on one that is there.
LEMMA CommitTyped ==
    ASSUME CommitsInv, NEW e \in CommitSet, e.parents \subseteq 1..Len(commits),
           commits' = Append(commits, e)
    PROVE  /\ CommitsInv' /\ Longer /\ Len(commits') = Len(commits) + 1
           /\ commits'[Len(commits')] = e
<1>1. commits \in Seq(CommitSet) /\ Len(commits) \in Nat
    BY DEF CommitsInv
<1> HIDE DEF CommitSet
<1>2. /\ commits' \in Seq(CommitSet) /\ Len(commits') = Len(commits) + 1
      /\ commits'[Len(commits')] = e
      /\ \A n \in 1..Len(commits) : commits'[n] = commits[n]
    BY <1>1
<1>3. ASSUME NEW n \in DOMAIN commits'
      PROVE  commits'[n].parents \subseteq 1..(n - 1)
  <2>1. CASE n = Len(commits')
    BY <1>1, <1>2, <2>1
  <2>2. CASE n # Len(commits')
    <3>1. n \in DOMAIN commits /\ commits'[n] = commits[n]
      BY <1>1, <1>2, <2>2
    <3> QED
      BY <3>1 DEF CommitsInv
  <2> QED
    BY <2>1, <2>2
<1> QED
    BY <1>1, <1>2, <1>3 DEF CommitsInv, Longer
\* Every action, in turn.
LEMMA StepTyped ==
    ASSUME GitInv, RefInv, NEW c \in Calls, Handler(c)
    PROVE  Typed(c)
<1> DEFINE L == Len(commits)
<1>1. /\ ShapeInv /\ OpInv /\ L \in Nat /\ 0 \in 0..L /\ git \in Repository(L)
      /\ remote \in 0..L /\ mem[c] \in Mems(L) /\ NoMem \in Mems(L) /\ request[c] \in Requests
  <2>1. L \in Nat
    BY Counted DEF RefInv
  <2>2. ShapeInv /\ OpInv /\ request[c] \in Requests
    BY DEF GitInv, ShapeInv
  <2>3. git \in Repository(L) /\ remote \in 0..L /\ mem[c] \in Mems(L)
    BY DEF RefInv
  <2> QED
    BY <2>1, <2>2, <2>3, NoMemTyped
<1>2. HeadCommit(git) \in 0..L /\ TreeOf(HeadCommit(git)) \in Trees
    BY <1>1, HeadTyped, TreeTyped DEF RefInv
<1>3. /\ git.tips \in [Branches -> 0..L] /\ git.tracking \in 0..L /\ git.index \in Trees
      /\ git.work \in Trees /\ git.conflicts \in SUBSET Files /\ git.dir \in BOOLEAN
      /\ git.linked \in [Branches -> Branches \cup {None}] /\ git.admin \in SUBSET Branches
    BY <1>1 DEF Repository
<1>4. /\ mem[c].tree \in Trees /\ mem[c].conflicts \in SUBSET Files /\ mem[c].commit \in 0..L
      /\ mem[c].tip \in 0..L /\ mem[c].head \in Branches \cup {None}
    BY <1>1 DEF Mems
<1>5. ASSUME NEW g \in Repository(L), NEW m \in Mems(L), Quietly(c, g, m)
      PROVE  Typed(c)
    BY <1>5, QuietlyTyped
<1>6. Fail(c) => Typed(c)
    BY <1>1, <1>5, ReturnQuietly
<1>7. ASSUME NEW r, NEW g \in Repository(L), Return(c, r), git' = g, UNCHANGED <<commits, remote>>
      PROVE  Typed(c)
    BY <1>1, <1>5, <1>7, ReturnQuietly
<1>8. ASSUME NEW p, NEW m \in Mems(L), NEW g \in Repository(L), Go(c, p, m), git' = g,
             UNCHANGED <<commits, remote>>
      PROVE  Typed(c)
    BY <1>1, <1>5, <1>8, ReturnQuietly
<1>9. /\ \A t \in Trees, k \in SUBSET Files :
            [NoMem EXCEPT !.tree = t, !.conflicts = k] \in Mems(L)
      /\ \A t \in Trees : [NoMem EXCEPT !.tree = t] \in Mems(L)
      /\ \A k \in 0..L : /\ [NoMem EXCEPT !.commit = k] \in Mems(L)
                         /\ [mem[c] EXCEPT !.commit = k] \in Mems(L)
      /\ \A i, k \in 0..L : [NoMem EXCEPT !.tip = i, !.commit = k] \in Mems(L)
      /\ \A h \in Branches \cup {None} : [NoMem EXCEPT !.head = h] \in Mems(L)
      /\ \A d \in BOOLEAN : [mem[c] EXCEPT !.dir = d] \in Mems(L)
    BY <1>1 DEF Mems
<1>10. \A ref : Revparse(ref) \in 0..L
    BY RevparseTyped
<1>11. \A t \in Trees : \A force : CheckedOutTree(t, force) \in Repository(L)
    BY CheckedOutTyped
<1>12. \A n \in 0..L : TreeOf(n) \in Trees
    BY TreeTyped DEF RefInv
<1>13. \A k \in 0..L : \A b : [git EXCEPT !.tips[b] = k] \in Repository(L)
    BY <1>1, TipTyped
<1> HIDE DEF L
<1>14. CASE Unprepared(c) \/ NotThere(c)
    BY <1>6, <1>14 DEF Unprepared, NotThere
<1>15. CASE InitRepository(c)
    BY <1>1, <1>7, <1>15, FieldsTyped DEF InitRepository
<1>16. CASE Clone(c)
  <2>1. CASE Fail(c)
    BY <1>6, <2>1
  <2>2. CASE ~Fail(c)
    <3>1. PICK tr \in Trees, ti \in [Branches -> 0..L] :
            /\ git' = [git EXCEPT !.here = TRUE, !.origin = TRUE, !.tracking = remote,
                                  !.tips = ti, !.index = tr, !.work = tr]
            /\ Return(c, "ok") /\ UNCHANGED <<commits, remote>>
      <4>1. TreeOf(remote) \in Trees /\ [git.tips EXCEPT !["main"] = remote] \in [Branches -> 0..L]
        BY <1>1, <1>3, <1>12
      <4>2. /\ git' = [git EXCEPT !.here = TRUE, !.origin = TRUE, !.tracking = remote,
                                  !.tips = [git.tips EXCEPT !["main"] = remote],
                                  !.index = TreeOf(remote), !.work = TreeOf(remote)]
            /\ Return(c, "ok") /\ UNCHANGED <<commits, remote>>
        BY <1>16, <2>2 DEF Clone
      <4> QED
        BY <4>1, <4>2
    <3>2. git' \in Repository(L)
      <4>1. [git EXCEPT !.here = TRUE, !.origin = TRUE, !.tracking = remote,
                        !.tips = ti, !.index = tr, !.work = tr] \in Repository(L)
        BY <1>1 DEF Repository
      <4> QED
        BY <3>1, <4>1
    <3> QED
      BY <1>7, <3>1, <3>2
  <2> QED
    BY <2>1, <2>2
<1>17. CASE Inspect(c)
    BY <1>1, <1>7, <1>17 DEF Inspect
<1>18. CASE Add(c)
  <2>1. CASE Fail(c)
    BY <1>6, <2>1
  <2>2. CASE ~Fail(c)
    <3>1. PICK named \in {Files, {request[c].name}} :
            /\ Go(c, "write index",
                  [NoMem EXCEPT !.tree = [f \in Files |-> IF f \in named THEN git.work[f]
                                                          ELSE git.index[f]],
                                !.conflicts = git.conflicts \ named])
            /\ UNCHANGED <<git, commits, remote>>
      <4> DEFINE n == IF request[c].name = "." THEN Files ELSE {request[c].name}
      <4>1. n \in {Files, {request[c].name}}
        OBVIOUS
      <4> QED
        BY <1>18, <2>2, <4>1 DEF Add
    <3>2. [f \in Files |-> IF f \in named THEN git.work[f] ELSE git.index[f]] \in Trees
      BY <1>3 DEF Trees
    <3>3. git.conflicts \ named \in SUBSET Files
      BY <1>3
    <3> QED
      BY <1>1, <1>8, <1>9, <3>1, <3>2, <3>3
  <2> QED
    BY <2>1, <2>2
<1>19. CASE WriteIndex(c)
    BY <1>1, <1>4, <1>7, <1>19, FieldsTyped DEF WriteIndex
<1>20. CASE CommitTree(c)
    BY <1>1, <1>3, <1>6, <1>8, <1>9, <1>20 DEF CommitTree
<1>21. CASE CommitParent(c)
    BY <1>1, <1>2, <1>8, <1>9, <1>21 DEF CommitParent
<1>22. CASE CommitCreate(c)
  <2>1. CASE Fail(c)
    BY <1>6, <2>1
  <2>2. CASE ~Fail(c)
    <3>1. PICK e : e = [tree |-> mem[c].tree, parents |-> {mem[c].commit} \ {0}]
      OBVIOUS
    <3>2. /\ commits' = Append(commits, e) /\ git' = MoveHead(git, Len(commits'))
          /\ Return(c, "ok") /\ remote' = remote /\ HeadCommit(git) = mem[c].commit
      BY <1>22, <2>2, <3>1 DEF CommitCreate
    <3>3. e \in CommitSet /\ e.parents \subseteq 1..Len(commits)
      <4>1. {mem[c].commit} \ {0} \subseteq 1..Len(commits) /\ {mem[c].commit} \ {0} \in SUBSET Nat
        BY <1>1, <1>2, <3>2 DEF L
      <4> QED
        BY <1>4, <3>1, <4>1 DEF CommitSet
    <3>4. CommitsInv' /\ Longer /\ Len(commits') = L + 1
      BY <3>2, <3>3, CommitTyped DEF RefInv, L
    <3>5. Repository(L) \subseteq Repository(L + 1) /\ Mems(L) \subseteq Mems(L + 1)
      BY <1>1, RepositoryGrows
    <3>6. git' \in Repository(L + 1)
      BY <1>1, <3>2, <3>4, <3>5, MovedTyped
    <3>7. mem'[c] = NoMem
      BY <1>1, <3>2 DEF Return, ShapeInv
    <3> QED
      BY <1>1, <3>2, <3>4, <3>5, <3>6, <3>7 DEF Typed, L
  <2> QED
    BY <2>1, <2>2
<1>23. CASE CheckoutTree(c)
  <2>1. PICK t : t = Revparse(request[c].name)
    OBVIOUS
  <2>2. t \in 0..L /\ CheckedOutTree(TreeOf(t), request[c].force) \in Repository(L)
    BY <1>10, <1>11, <1>12, <2>1
  <2>3. \/ Fail(c)
        \/ /\ git' = CheckedOutTree(TreeOf(t), request[c].force) /\ UNCHANGED <<commits, remote>>
           /\ \/ Return(c, "ok")
              \/ Go(c, "set head", [NoMem EXCEPT !.commit = t])
    BY <1>23, <2>1 DEF CheckoutTree
  <2> QED
    BY <1>6, <1>7, <1>8, <1>9, <2>2, <2>3
<1>24. CASE SetHead(c)
  <2>1. CASE Fail(c)
    BY <1>6, <2>1
  <2>2. CASE ~Fail(c)
    <3>1. PICK h : /\ h = IF request[c].mode = "branch" THEN <<"branch", request[c].name>>
                          ELSE <<"commit", mem[c].commit>>
                   /\ git' = [git EXCEPT !.head = h]
                   /\ Return(c, "ok") /\ UNCHANGED <<commits, remote>>
      BY <1>24, <2>2 DEF SetHead
    <3>2. h \in Heads(L)
      <4>1. mem[c].commit \in 1..L
        <5>1. mem[c].commit # 0
          BY <1>24 DEF SetHead, RefInv
        <5> QED
          BY <1>1, <1>4, <5>1
      <4>2. request[c].mode = "branch" => request[c].name \in Branches
        BY <1>1, <1>24, GitAssumption DEF SetHead, OpInv
      <4> QED
        BY <3>1, <4>1, <4>2 DEF Heads
    <3> QED
      BY <1>1, <1>7, <3>1, <3>2, FieldsTyped
  <2> QED
    BY <2>1, <2>2
<1>25. CASE BranchCreate(c)
  <2>1. \/ Fail(c)
        \/ /\ git' = [git EXCEPT !.tips[request[c].name] = Revparse(request[c].ref)]
           /\ Return(c, "ok") /\ UNCHANGED <<commits, remote>>
    BY <1>25 DEF BranchCreate
  <2> QED
    BY <1>6, <1>7, <1>10, <1>13, <2>1
<1>26. CASE BranchLookup(c)
  <2>1. request[c].name \in Branches
    BY <1>1, <1>26, GitAssumption DEF BranchLookup, Open, Asks
  <2> QED
    BY <1>1, <1>3, <1>6, <1>8, <1>9, <1>26, <2>1 DEF BranchLookup
<1>27. CASE BranchDelete(c)
  <2>1. \/ Fail(c)
        \/ /\ git' = [git EXCEPT !.tips[request[c].name] = 0]
           /\ Return(c, "ok") /\ UNCHANGED <<commits, remote>>
    BY <1>27 DEF BranchDelete
  <2> QED
    BY <1>1, <1>6, <1>7, <1>13, <2>1
<1>28. CASE Reset(c)
  <2>1. PICK t : t = Revparse(request[c].ref)
    OBVIOUS
  <2>2. t \in 0..L /\ TreeOf(t) \in Trees
    BY <1>10, <1>12, <2>1
  <2>3. PICK h \in {git, CheckedOutTree(TreeOf(t), TRUE)} :
          \/ Fail(c)
          \/ /\ t # 0 /\ Return(c, "ok") /\ UNCHANGED <<commits, remote>>
             /\ \/ git' = MoveHead(h, t)
                \/ git' = [MoveHead(h, t) EXCEPT !.index = TreeOf(t), !.conflicts = {},
                                                 !.merging = 0]
    <3> DEFINE h == IF request[c].mode = "hard" THEN CheckedOutTree(TreeOf(t), TRUE) ELSE git
    <3>1. h \in {git, CheckedOutTree(TreeOf(t), TRUE)}
      OBVIOUS
    <3> QED
      BY <1>28, <2>1, <3>1 DEF Reset
  <2>4. h \in Repository(L)
    BY <1>1, <1>11, <2>2
  <2>5. t # 0 => MoveHead(h, t) \in Repository(L)
    BY <1>1, <2>2, <2>4, MovedTyped
  <2>6. t # 0 => [MoveHead(h, t) EXCEPT !.index = TreeOf(t), !.conflicts = {},
                                        !.merging = 0] \in Repository(L)
    BY <1>1, <2>2, <2>5, FieldsTyped
  <2> QED
    BY <1>6, <1>7, <2>3, <2>5, <2>6
<1>29. ASSUME NEW n \in 0..L, MergeWith(c, n)
      PROVE  Typed(c)
  <2>1. Merged(n, request[c].force) \in Repository(L) /\ [git EXCEPT !.merging = 0] \in Repository(L)
    BY <1>1, FieldsTyped, MergedTyped DEF L
  <2> QED
    BY <1>7, <1>29, <2>1 DEF MergeWith
<1>30. CASE MergeBranch(c)
  <2>1. request[c].name \in Branches
    BY <1>1, <1>30, GitAssumption DEF MergeBranch, Open, Asks
  <2> QED
    BY <1>3, <1>6, <1>29, <1>30, <2>1 DEF MergeBranch
<1>31. CASE MergeUpstream(c)
    BY <1>4, <1>29, <1>31 DEF MergeUpstream
<1>32. CASE Fetch(c)
  <2>1. PICK q : q = request[c]
    OBVIOUS
  <2>2. PICK g : g = [git EXCEPT !.tracking = remote]
    OBVIOUS
  <2>3. g \in Repository(L)
    BY <1>1, <2>2, FieldsTyped
  <2>4. q.name \in Branches =>
          [git EXCEPT !.tracking = remote, !.tips = [git.tips EXCEPT ![q.name] = remote]]
             \in Repository(L)
    BY <1>1, <1>3 DEF Repository
  <2>5. Fetched(q) \in Repository(L)
    BY <1>1, <2>2, <2>3, <2>4, FetchedForms
  <2> QED
    BY <1>1, <1>6, <1>7, <1>8, <1>32, <2>1, <2>5, FetchForms
<1>33. CASE Push(c)
  <2>1. CASE Fail(c)
    BY <1>6, <2>1
  <2>2. CASE ~Fail(c)
    <3>1. PICK tip : tip = IF request[c].mode = "delete" THEN 0 ELSE git.tips[request[c].name]
      OBVIOUS
    <3>2. request[c].name \in Branches
      BY <1>1, <1>33, GitAssumption, PushForms
    <3>3. /\ remote' \in {remote, tip} /\ git' \in {git, [git EXCEPT !.tracking = tip]}
          /\ commits' = commits /\ \E r : Return(c, r)
      BY <1>33, <2>2, <3>1, PushForms
    <3>4. remote' \in 0..L /\ git' \in Repository(L)
      <4>1. tip \in 0..L
        BY <1>1, <1>3, <3>1, <3>2
      <4> QED
        BY <1>1, <3>3, <4>1, FieldsTyped
    <3>5. mem'[c] = NoMem
      BY <1>1, <3>3 DEF Return, ShapeInv
    <3>6. CommitsInv' /\ Len(commits') = L
      BY <3>3 DEF RefInv, CommitsInv, L
    <3>7. Longer
      BY <1>1, <3>3 DEF Longer, L
    <3> QED
      BY <1>1, <3>3, <3>4, <3>5, <3>6, <3>7 DEF Typed, L
  <2> QED
    BY <2>1, <2>2
<1>34. CASE Analyse(c)
    BY <1>1, <1>2, <1>3, <1>6, <1>7, <1>8, <1>9, <1>34 DEF Analyse
<1>35. CASE FastForward(c)
  <2>1. [git EXCEPT !.tips["main"] = mem[c].commit] \in Repository(L)
    BY <1>4, <1>13
  <2> QED
    BY <1>1, <1>6, <1>8, <1>35, <2>1 DEF FastForward
<1>36. CASE CheckoutForward(c)
  <2>1. CheckedOutTree(TreeOf(mem[c].commit), request[c].force) \in Repository(L)
    BY <1>4, <1>11, <1>12
  <2> QED
    BY <1>6, <1>7, <1>36, <2>1 DEF CheckoutForward
<1>37. CASE Lock(c)
    BY <1>1, <1>5, <1>37 DEF Lock, Quietly
<1>38. CASE WorktreeBranch(c)
  <2>1. /\ request[c].ref \in Branches \cup {None}
        /\ \A ref : [git EXCEPT !.tips[request[c].ref] = Revparse(ref)] \in Repository(L)
    BY <1>1, <1>10, <1>13, <1>38, GitAssumption DEF WorktreeBranch, OpInv
  <2>2. \/ Fail(c)
        \/ /\ \/ git' = git
              \/ \E ref : git' = [git EXCEPT !.tips[request[c].ref] = Revparse(ref)]
           /\ Go(c, "look", [NoMem EXCEPT !.head = request[c].ref]) /\ UNCHANGED <<commits, remote>>
    BY <1>38 DEF WorktreeBranch
  <2>3. ASSUME ~Fail(c) PROVE git' \in Repository(L)
    BY <1>1, <2>1, <2>2, <2>3
  <2> QED
    BY <1>1, <1>6, <1>8, <1>9, <2>1, <2>2, <2>3
<1>39. CASE LookForDir(c)
    BY <1>1, <1>3, <1>6, <1>8, <1>9, <1>39 DEF LookForDir
<1>40. CASE MakeDir(c)
  <2>1. [git EXCEPT !.dir = TRUE] \in Repository(L)
    BY <1>1, FieldsTyped
  <2> QED
    BY <1>1, <1>7, <1>8, <1>40, <2>1 DEF MakeDir
<1>41. CASE Link(c)
  <2>1. PICK w : w = request[c].name
    OBVIOUS
  <2>2. PICK b : b = IF mem[c].head = None THEN w ELSE mem[c].head
    OBVIOUS
  <2>3. w \in Branches /\ b \in Branches
    BY <1>1, <1>4, <1>41, <2>1, <2>2, GitAssumption DEF Link, OpInv
  <2>4. PICK k : k = IF mem[c].head = None /\ git.tips[w] = 0 THEN HeadCommit(git) ELSE git.tips[b]
    OBVIOUS
  <2>5. \/ Fail(c)
        \/ /\ git' = [git EXCEPT !.admin = git.admin \cup {w},
                                 !.linked = [git.linked EXCEPT ![w] = b],
                                 !.tips = [git.tips EXCEPT ![b] = k]]
           /\ Return(c, "ok") /\ UNCHANGED <<commits, remote>>
        \/ /\ git' = [git EXCEPT !.admin = git.admin \cup {w}]
           /\ Return(c, "error") /\ UNCHANGED <<commits, remote>>
    BY <1>41, <2>1, <2>2, <2>4 DEF Link
  <2>6. /\ git.admin \cup {w} \in SUBSET Branches
        /\ [git.linked EXCEPT ![w] = b] \in [Branches -> Branches \cup {None}]
        /\ [git.tips EXCEPT ![b] = k] \in [Branches -> 0..L]
    BY <1>2, <1>3, <2>3, <2>4
  <2>7. /\ [git EXCEPT !.admin = git.admin \cup {w}, !.linked = [git.linked EXCEPT ![w] = b],
                       !.tips = [git.tips EXCEPT ![b] = k]] \in Repository(L)
        /\ [git EXCEPT !.admin = git.admin \cup {w}] \in Repository(L)
    BY <1>1, <2>6 DEF Repository
  <2> QED
    BY <1>6, <1>7, <2>7, <2>5
<1> QED
    BY <1>14, <1>15, <1>16, <1>17, <1>18, <1>19, <1>20, <1>21, <1>22, <1>23, <1>24,
       <1>25, <1>26, <1>27, <1>28, <1>30, <1>31, <1>32, <1>33, <1>34, <1>35, <1>36,
       <1>37, <1>38, <1>39, <1>40, <1>41
       DEF Handler, Prepared

\* The references are right in an initial state.
LEMMA RefInit ==
    ASSUME Init
    PROVE  RefInv
<1>1. PICK s \in Starts : commits = s.commits /\ git = s.git /\ remote = s.remote
    BY DEF Init
<1>2. /\ CommitsInv /\ git \in Repository(Len(commits)) /\ remote \in 0..Len(commits)
      /\ git.here \/ \A b \in Branches : git.tips[b] = 0
    BY <1>1, StartsAssumption DEF CommitsInv, CommitSet
<1>3. \A c \in Calls : mem[c] \in Mems(Len(commits)) /\ pc[c] = "start"
    BY <1>2, Counted, NoMemTyped DEF Init
<1>4. fresh \in Nat
  <2> DEFINE trees == {git.work} \cup {commits[n].tree : n \in DOMAIN commits}
             U == {0} \cup UNION {{t[f] : f \in Files} : t \in trees}
             D == {k \in Nat : \E x \in U : k = Marked - x}
  <2>1. trees \subseteq Trees
    <3>1. git.work \in Trees
      BY <1>2 DEF Repository
    <3>2. \A n \in DOMAIN commits : commits[n] \in CommitSet
      BY <1>2 DEF CommitsInv
    <3>3. \A n \in DOMAIN commits : commits[n].tree \in Trees
      BY <3>2 DEF CommitSet
    <3> QED
      BY <3>1, <3>3
  <2>2. Marked \in Nat
    BY GitAssumption DEF Marked
  <2>3. U \subseteq 0..Marked /\ 0 \in U
    BY <2>1, <2>2 DEF Trees
  <2>4. fresh = 1 + Max(U)
    BY DEF Init
  <2> HIDE DEF U, trees
  <2>5. \A x \in U : Marked - x \in D
    BY <2>2, <2>3
  <2>6. PICK k \in D : \A j \in D : k <= j
    BY <2>3, <2>5, LeastExists
  <2>7. PICK x \in U : k = Marked - x
    OBVIOUS
  <2>8. \A y \in U : x >= y
    BY <2>2, <2>3, <2>5, <2>6, <2>7
  <2>9. Max(U) \in U
    BY <2>8 DEF Max
  <2>10. PICK m \in U : m = Max(U)
    BY <2>9
  <2>11. m \in Nat
    BY <2>2, <2>3
  <2> QED
    BY <2>4, <2>10, <2>11
<1> QED
    BY <1>2, <1>3, <1>4 DEF RefInv

\* Where there is no repository only init and clone do anything.
LEMMA NotHere ==
    ASSUME GitInv, RefInv, NEW c \in Calls, Handler(c), ~git.here
    PROVE  \/ pc'[c] \in {"done", "branch"} /\ git' = git
           \/ pc'[c] = "done" /\ git'.here
<1>1. pc[c] \in {"start", "branch", "done"} /\ \A op : ~Open(c, op)
    BY DEF RefInv, Open
<1>2. ShapeInv
    BY DEF GitInv
<1>3. \A r : Return(c, r) => pc'[c] = "done"
    BY <1>2 DEF Return, ShapeInv
<1>4. Fail(c) => pc'[c] = "done" /\ git' = git
    BY <1>3 DEF Fail
<1>5. Unprepared(c) \/ NotThere(c) \/ InitRepository(c) \/ Clone(c) \/ Lock(c)
    BY <1>1 DEF Handler, Prepared, Inspect, Add, WriteIndex, CommitTree, CommitParent,
       CommitCreate, CheckoutTree, SetHead, BranchCreate, BranchLookup, BranchDelete, Reset,
       MergeBranch, Fetch, Push, Analyse, FastForward, CheckoutForward, MergeUpstream,
       WorktreeBranch, LookForDir, MakeDir, Link
<1>6. CASE Unprepared(c) \/ NotThere(c)
    BY <1>4, <1>6 DEF Unprepared, NotThere
<1>7. CASE InitRepository(c)
    BY <1>2, <1>3, <1>7 DEF InitRepository, ShapeInv, GitFields
<1>8. CASE Clone(c)
  <2>1. CASE Fail(c)
    BY <1>4, <2>1
  <2>2. CASE ~Fail(c)
    BY <1>2, <1>3, <1>8, <2>2 DEF Clone, ShapeInv, GitFields
  <2> QED
    BY <2>1, <2>2
<1>9. CASE Lock(c)
    BY <1>2, <1>9 DEF Lock, ShapeInv
<1> QED
    BY <1>5, <1>6, <1>7, <1>8, <1>9

\* Every operation keeps the references right.
LEMMA RefCall ==
    ASSUME GitInv, RefInv, NEW c \in Calls, Call(c)
    PROVE  RefInv'
<1>1. Handler(c) /\ fresh' = fresh
    BY DEF Call, Observed
<1>2. Typed(c)
    BY <1>1, StepTyped
<1>3. /\ Len(commits) \in Nat /\ Len(commits') \in Nat
      /\ Mems(Len(commits)) \subseteq Mems(Len(commits'))
  <2>1. Len(commits) \in Nat /\ Len(commits') \in Nat
    <3>1. commits' \in Seq(CommitSet)
      BY <1>2 DEF Typed, CommitsInv
    <3> HIDE DEF CommitSet
    <3>2. Len(commits') \in Nat
      BY <3>1
    <3> QED
      BY <3>2, Counted DEF RefInv
  <2> QED
    BY <1>2, <2>1, RepositoryGrows DEF Typed, Longer
<1>4. \A d \in Calls : mem'[d] \in Mems(Len(commits'))
    BY <1>1, <1>2, <1>3, Control, ZenonT(30) DEF GitInv, RefInv, Typed
<1>5. git.here => git'.here
  <2>1. LinkKept \/ Link(c)
    BY <1>1, LinkEffects DEF GitInv
  <2> QED
    BY <2>1, LinkStep DEF LinkKept, Link, Fail, ShapeInv, GitFields, GitInv
<1>6. git'.here \/ \A b \in Branches : git'.tips[b] = 0
    BY <1>1, <1>5, NotHere DEF RefInv
<1>7. \A d \in Calls : pc'[d] \notin {"start", "branch", "done"} => git'.here
  <2>1. CASE git.here
    BY <1>5, <2>1
  <2>2. CASE ~git.here
    <3>1. pc'[c] \in {"branch", "done"}
      BY <1>1, <2>2, NotHere
    <3>2. \A d \in Calls \ {c} : pc'[d] \in {"start", "branch", "done"}
      BY <1>1, <2>2, Control DEF RefInv, GitInv
    <3> QED
      BY <3>1, <3>2
  <2> QED
    BY <2>1, <2>2
<1>8. \A d \in Calls : pc'[d] = "set head" => mem'[d].commit # 0
  <2>1. \A d \in Calls \ {c} : pc'[d] = "set head" => mem'[d].commit # 0
    BY <1>1, Control, ZenonT(30) DEF RefInv, GitInv
  <2>2. pc'[c] = "set head" => mem'[c].commit # 0
    <3>1. \/ pc'[c] \in {"done", "branch"}
          \/ \E p, m : GoesTo(c, p, m) /\ pc'[c] = p /\ mem'[c] = m
      BY <1>1, Control DEF GitInv
    <3>2. \A p, m : GoesTo(c, p, m) => (p = "set head" => m.commit # 0)
      BY DEF GoesTo
    <3> QED
      BY <3>1, <3>2
  <2> QED
    BY <2>1, <2>2
<1> QED
    BY <1>1, <1>2, <1>4, <1>6, <1>7, <1>8 DEF RefInv, Typed

\* An edit writes a number below Marked; a commit of another clone is one more.
LEMMA RefOthers ==
    ASSUME GitInv, RefInv, Edit \/ RemoteMoves \/ UNCHANGED vars
    PROVE  RefInv'
<1>1. CommitsInv /\ Len(commits) \in Nat /\ git \in Repository(Len(commits)) /\ fresh \in Nat
    BY Counted DEF RefInv
<1>2. CASE Edit
  <2>1. PICK f \in Edited, x \in {0, fresh} :
          git' = [git EXCEPT !.work = [git.work EXCEPT ![f] = x]]
    BY <1>2 DEF Edit
  <2>2. x \in 0..Marked
    BY <1>1, <1>2, GitAssumption DEF Edit, Marked
  <2>3. [git.work EXCEPT ![f] = x] \in Trees
    BY <1>1, <2>2 DEF Repository, Trees
  <2>4. git' \in Repository(Len(commits)) /\ git'.here = git.here /\ git'.tips = git.tips
    BY <1>1, <2>1, <2>3 DEF Repository
  <2>5. fresh' \in Nat /\ UNCHANGED <<commits, remote, pc, mem>>
    BY <1>1, <1>2 DEF Edit
  <2> QED
    BY <2>4, <2>5 DEF RefInv, CommitsInv
<1>3. CASE RemoteMoves
  <2>1. PICK f : /\ commits' = Append(commits, [tree |-> [TreeOf(remote) EXCEPT ![f] = fresh],
                                                parents |-> {remote}])
                 /\ remote # 0 /\ fresh <= MaxContent
    BY <1>3 DEF RemoteMoves
  <2>2. PICK e : e = [tree |-> [TreeOf(remote) EXCEPT ![f] = fresh], parents |-> {remote}]
    OBVIOUS
  <2>3. e \in CommitSet /\ e.parents \subseteq 1..Len(commits)
    <3>1. TreeOf(remote) \in Trees /\ remote \in 1..Len(commits)
      <4>1. remote \in 0..Len(commits) /\ remote # 0
        BY <2>1 DEF RefInv
      <4> QED
        BY <1>1, <4>1, TreeTyped
    <3>2. fresh \in 0..Marked
      BY <1>1, <2>1, GitAssumption DEF Marked
    <3>3. [TreeOf(remote) EXCEPT ![f] = fresh] \in Trees
      BY <3>1, <3>2 DEF Trees
    <3> QED
      BY <1>1, <2>2, <3>1, <3>3 DEF CommitSet
  <2>4. CommitsInv' /\ Longer /\ Len(commits') = Len(commits) + 1
    BY <1>1, <2>1, <2>2, <2>3, CommitTyped
  <2>5. /\ Repository(Len(commits)) \subseteq Repository(Len(commits'))
        /\ Mems(Len(commits)) \subseteq Mems(Len(commits'))
    BY <1>1, <2>4, RepositoryGrows
  <2>6. UNCHANGED <<git, pc, mem>> /\ fresh' \in Nat /\ remote' = Len(commits')
    BY <1>1, <1>3 DEF RemoteMoves
  <2> QED
    <3>1. git' \in Repository(Len(commits')) /\ \A c \in Calls : mem'[c] \in Mems(Len(commits'))
      BY <1>1, <2>5, <2>6 DEF RefInv
    <3>2. remote' \in 0..Len(commits')
      BY <1>1, <2>4, <2>6
    <3> QED
      BY <2>4, <2>6, <3>1, <3>2 DEF RefInv
<1>4. CASE UNCHANGED vars
    BY <1>4 DEF vars, RefInv, CommitsInv
<1> QED
    BY <1>2, <1>3, <1>4

\* The references of the repository stay among the commits there are.
THEOREM RefsCorrect == Spec => [](GitInv /\ RefInv)
<1>1. Init => RefInv
    BY RefInit
<1>2. GitInv /\ RefInv /\ [Next]_vars => RefInv'
    BY RefCall, RefOthers DEF Next
<1> QED
    BY <1>1, <1>2, GitCorrect, PTL DEF Spec
-----------------------------------------------------------------------------
\* The content x of the file f is not lost when it is overwritten.
Spared(f, x) == x \in {0, Marked} \/ \E n \in DOMAIN commits : commits[n].tree[f] = x

\* A file that is as in a commit's tree can be overwritten.
LEMMA TreesSpared ==
    ASSUME CommitsInv, NEW n \in 0..Len(commits), NEW f \in Files
    PROVE  Spared(f, TreeOf(n)[f])
<1>1. CASE n = 0
    BY <1>1 DEF TreeOf, Empty, Spared
<1>2. CASE n # 0
    BY <1>2, Counted DEF TreeOf, Spared
<1> QED
    BY <1>1, <1>2

\* GIT_CHECKOUT_SAFE: what it overwrites is the content of HEAD's commit, or already
\* that of the target.
LEMMA SafeCheckout ==
    ASSUME RefInv, NEW n \in 0..Len(commits), ~Refused(TreeOf(n), FALSE), NEW f \in Files
    PROVE  \/ CheckedOutTree(TreeOf(n), FALSE).work[f] = git.work[f]
           \/ Spared(f, git.work[f])
<1>1. PICK base : base = TreeOf(HeadCommit(git))
    OBVIOUS
<1>2. PICK t : t = TreeOf(n)
    OBVIOUS
<1>3. Spared(f, base[f]) /\ Spared(f, t[f]) /\ Spared(f, 0)
  <2>1. HeadCommit(git) \in 0..Len(commits)
    BY Counted, HeadTyped DEF RefInv
  <2> QED
    BY <1>1, <1>2, <2>1, TreesSpared DEF RefInv, Spared
<1>4. git \in Repository(Len(commits))
    BY DEF RefInv
<1>5. CheckedOutTree(t, FALSE).work[f] = IF f \in Touched(t, FALSE) THEN t[f] ELSE git.work[f]
    BY <1>4 DEF CheckedOutTree, Repository
<1>6. f \in Touched(t, FALSE) =>
        CASE base[f] = 0 -> git.work[f] = 0
          [] t[f] = 0 -> git.work[f] \in {0, base[f]}
          [] OTHER -> git.work[f] \in {base[f], t[f]}
    BY <1>1, <1>2 DEF Refused
<1>7. f \in Touched(t, FALSE) => git.work[f] \in {0, base[f], t[f]}
    BY <1>6
<1> QED
    BY <1>2, <1>3, <1>5, <1>7

\* The merge that is not refused: what it overwrites is in the index, and there it
\* is HEAD's or the merge's.
LEMMA SafeMerge ==
    ASSUME RefInv, NEW n \in 0..Len(commits), ~MergeRefused(n), NEW f \in Files
    PROVE  Merged(n, FALSE).work[f] = git.work[f] \/ Spared(f, git.work[f])
<1>1. PICK ours : ours = TreeOf(HeadCommit(git))
    OBVIOUS
<1>2. PICK t : t = MergedTree(n)
    OBVIOUS
<1>3. Spared(f, ours[f]) /\ Spared(f, t[f])
  <2>1. HeadCommit(git) \in 0..Len(commits)
    BY Counted, HeadTyped DEF RefInv
  <2>2. t[f] \in {TreeOf(n)[f], ours[f]}
    BY <1>1, <1>2 DEF MergedTree
  <2> QED
    BY <1>1, <2>1, <2>2, TreesSpared DEF RefInv
<1>4. git \in Repository(Len(commits))
    BY DEF RefInv
<1>5. Merged(n, FALSE).work[f] = IF f \in Clashes(n) THEN Marked
                                 ELSE IF t[f] = ours[f] \/ (git.index[f] = 0 /\ t[f] = 0)
                                      THEN git.work[f] ELSE t[f]
    BY <1>1, <1>2, <1>4 DEF Merged, Repository
<1>6. /\ git.index[f] \in {ours[f], t[f]}
      /\ f \in Clashes(n) \/ t[f] # ours[f] => git.work[f] = git.index[f]
    BY <1>1, <1>2 DEF MergeRefused
<1> QED
    BY <1>3, <1>5, <1>6

\* Every step of a call that writes into the working tree.
LEMMA WorkStep ==
    ASSUME GitInv, RefInv, NEW c \in Calls, Handler(c), NEW f \in Files
    PROVE  \/ git'.work[f] = git.work[f] \/ Spared(f, git.work[f])
           \/ Moved(c) /\ request[c].force
<1> DEFINE Goal == \/ git'.work[f] = git.work[f] \/ Spared(f, git.work[f])
                   \/ Moved(c) /\ request[c].force
           L == Len(commits)
<1>1. /\ ShapeInv /\ OpInv /\ L \in Nat /\ DOMAIN git = GitFields
      /\ request[c].force \in BOOLEAN /\ mem[c].commit \in 0..L
  <2>1. ShapeInv /\ OpInv /\ L \in Nat
    BY Counted DEF GitInv, RefInv
  <2>2. mem[c] \in Mems(L)
    BY DEF RefInv
  <2> QED
    BY <2>1, <2>2, GitAssumption DEF ShapeInv, Mems
<1>2. Fail(c) => Goal
    BY DEF Fail
<1>3. git' = git => Goal
    OBVIOUS
<1>4. \A r : Return(c, r) /\ pc[c] # "done" => Moved(c)
    BY <1>1 DEF Return, Moved, ShapeInv
<1>5. \A p, m : Go(c, p, m) /\ pc[c] # p => Moved(c)
    BY <1>1 DEF Go, Moved, ShapeInv
<1>6. ASSUME NEW n \in 0..L, git' = CheckedOutTree(TreeOf(n), request[c].force),
             ~Refused(TreeOf(n), request[c].force), Moved(c)
      PROVE  Goal
  <2>1. CASE request[c].force
    BY <1>6, <2>1
  <2>2. CASE request[c].force = FALSE
    BY <1>6, <2>2, SafeCheckout
  <2> QED
    BY <1>1, <2>1, <2>2
<1>7. ASSUME NEW n \in 0..L, MergeWith(c, n), pc[c] # "done"
      PROVE  Goal
  <2>1. CASE git' = [git EXCEPT !.merging = 0]
    BY <1>1, <2>1 DEF GitFields
  <2>2. CASE ~MergeRefused(n) /\ git' = Merged(n, request[c].force) /\ Moved(c)
    <3>1. CASE request[c].force
      BY <2>2, <3>1
    <3>2. CASE request[c].force = FALSE
      BY <2>2, <3>2, SafeMerge
    <3> QED
      BY <1>1, <3>1, <3>2
  <2> QED
    BY <1>4, <1>7, <2>1, <2>2 DEF MergeWith
<1>8. ASSUME NEW g, NEW n, g.work = git.work, DOMAIN g = GitFields
      PROVE  MoveHead(g, n).work = git.work /\ DOMAIN MoveHead(g, n) = GitFields
  <2>1. MoveHead(g, n) \in {[g EXCEPT !.tips = [g.tips EXCEPT ![g.head[2]] = n]],
                            [g EXCEPT !.head = <<"commit", n>>]}
    BY DEF MoveHead
  <2> QED
    BY <1>8, <2>1 DEF GitFields
<1> SUFFICES Goal
    OBVIOUS
<1> HIDE DEF Goal, L
<1>9. CASE \/ Unprepared(c) \/ NotThere(c) \/ Inspect(c) \/ Add(c) \/ CommitTree(c)
           \/ CommitParent(c) \/ BranchLookup(c) \/ Analyse(c) \/ Lock(c) \/ LookForDir(c)
    BY <1>2, <1>3, <1>9 DEF Unprepared, NotThere, Inspect, Add, CommitTree, CommitParent,
       BranchLookup, Analyse, Lock, LookForDir
<1>10. CASE InitRepository(c) \/ WriteIndex(c) \/ SetHead(c) \/ BranchCreate(c) \/ BranchDelete(c)
  <2>1. Fail(c) \/ git'.work = git.work
    BY <1>1, <1>10 DEF InitRepository, WriteIndex, SetHead, BranchCreate, BranchDelete,
       GitFields
  <2> QED
    BY <1>2, <2>1 DEF Goal
<1>11. CASE Fetch(c) \/ Push(c) \/ FastForward(c) \/ WorktreeBranch(c) \/ MakeDir(c) \/ Link(c)
  <2>1. CASE FastForward(c) \/ WorktreeBranch(c) \/ MakeDir(c) \/ Link(c)
    <3>1. Fail(c) \/ git'.work = git.work
      BY <1>1, <2>1 DEF FastForward, WorktreeBranch, MakeDir, Link, GitFields
    <3> QED
      BY <1>2, <3>1 DEF Goal
  <2>2. CASE Fetch(c)
    <3>1. Fail(c) \/ git' = Fetched(request[c])
      BY <2>2, FetchForms
    <3>2. Fetched(request[c]).work = git.work
      <4>1. PICK q : q = request[c]
        OBVIOUS
      <4>2. Fetched(q).work = git.work
        BY <1>1, FetchedForms DEF GitFields
      <4> QED
        BY <4>1, <4>2
    <3> QED
      BY <1>2, <3>1, <3>2 DEF Goal
  <2>3. CASE Push(c)
    <3>1. Fail(c) \/ git' = git \/ \E n : git' = [git EXCEPT !.tracking = n]
      BY <2>3, PushForms
    <3>2. Fail(c) \/ git'.work = git.work
      BY <1>1, <3>1 DEF GitFields
    <3> QED
      BY <1>2, <3>2 DEF Goal
  <2> QED
    BY <1>11, <2>1, <2>2, <2>3
<1>12. CASE Clone(c)
  <2>1. Fail(c) \/ git.work = Empty
    BY <1>12 DEF Clone
  <2> QED
    BY <1>2, <2>1 DEF Goal, Empty, Spared
<1>13. CASE CommitCreate(c)
  <2>1. \/ Fail(c)
        \/ git' = MoveHead(git, Len(commits'))
    BY <1>13 DEF CommitCreate
  <2> QED
    BY <1>1, <1>2, <1>8, <2>1 DEF Goal
<1>14. CASE CheckoutTree(c)
  <2>1. PICK n : n = Revparse(request[c].name)
    OBVIOUS
  <2>2. n \in 0..L
    BY <2>1, RevparseTyped DEF L
  <2>3. pc[c] = "start"
    BY <1>14 DEF CheckoutTree, Open, Asks
  <2>4. \/ Fail(c)
        \/ /\ git' = CheckedOutTree(TreeOf(n), request[c].force)
           /\ ~Refused(TreeOf(n), request[c].force) /\ Moved(c)
    BY <1>4, <1>5, <1>14, <2>1, <2>3 DEF CheckoutTree
  <2> QED
    BY <1>2, <1>6, <2>2, <2>4
<1>15. CASE CheckoutForward(c)
  <2>1. \/ Fail(c)
        \/ /\ git' = CheckedOutTree(TreeOf(mem[c].commit), request[c].force)
           /\ ~Refused(TreeOf(mem[c].commit), request[c].force) /\ Moved(c)
    BY <1>4, <1>15 DEF CheckoutForward
  <2> QED
    BY <1>1, <1>2, <1>6, <2>1
<1>16. CASE Reset(c)
  <2>1. PICK t : t = Revparse(request[c].ref)
    OBVIOUS
  <2>2. pc[c] = "start"
    BY <1>16 DEF Reset, Open, Asks
  <2>3. \/ Fail(c)
        \/ Moved(c) /\ request[c].force
        \/ \/ git' = MoveHead(git, t)
           \/ git' = [MoveHead(git, t) EXCEPT !.index = TreeOf(t), !.conflicts = {}, !.merging = 0]
    BY <1>1, <1>4, <1>16, <2>1, <2>2 DEF Reset
  <2>4. MoveHead(git, t).work = git.work /\ DOMAIN MoveHead(git, t) = GitFields
    BY <1>1, <1>8
  <2>5. \A g : DOMAIN g = GitFields /\ g.work = git.work =>
          [g EXCEPT !.index = TreeOf(t), !.conflicts = {}, !.merging = 0].work = git.work
    BY DEF GitFields
  <2> QED
    BY <1>2, <2>3, <2>4, <2>5 DEF Goal
<1>17. CASE MergeBranch(c)
  <2>1. pc[c] = "start" /\ git.tips[request[c].name] \in 0..L
    <3>1. request[c].name \in Branches /\ pc[c] = "start"
      BY <1>1, <1>17, GitAssumption DEF MergeBranch, Open, Asks, ShapeInv
    <3> QED
      BY <3>1 DEF RefInv, Repository, L
  <2> QED
    BY <1>2, <1>7, <1>17, <2>1 DEF MergeBranch
<1>18. CASE MergeUpstream(c)
    BY <1>1, <1>7, <1>18 DEF MergeUpstream
<1> QED
    BY <1>9, <1>10, <1>11, <1>12, <1>13, <1>14, <1>15, <1>16, <1>17, <1>18
       DEF Handler, Prepared, Goal

\* No checkout, merge, pull or reset without force overwrites a file whose content is
\* in no commit, whatever other requests, edits and commits come between its steps:
\* the check of a safe checkout and of a merge is part of the step that writes.
THEOREM WorkSurvives == Spec => UncommittedKept
<1>1. GitInv /\ RefInv /\ [Next]_vars =>
        [\A f \in Files :
          \/ git'.work[f] = git.work[f] \/ git.work[f] \in {0, Marked} \/ fresh' # fresh
          \/ \E n \in DOMAIN commits : commits[n].tree[f] = git.work[f]
          \/ \E c \in Calls : Moved(c) /\ request[c].force]_vars
  <2> SUFFICES ASSUME GitInv, RefInv, Next, NEW f \in Files
               PROVE  \/ git'.work[f] = git.work[f] \/ git.work[f] \in {0, Marked} \/ fresh' # fresh
                      \/ \E n \in DOMAIN commits : commits[n].tree[f] = git.work[f]
                      \/ \E c \in Calls : Moved(c) /\ request[c].force
    OBVIOUS
  <2>1. CASE Edit
    <3>1. fresh \in Nat /\ fresh' = fresh + 1
      BY <2>1 DEF Edit, RefInv
    <3> QED
      BY <3>1
  <2>2. CASE RemoteMoves
    BY <2>2 DEF RemoteMoves
  <2>3. ASSUME NEW c \in Calls, Call(c)
        PROVE  \/ git'.work[f] = git.work[f] \/ Spared(f, git.work[f])
               \/ Moved(c) /\ request[c].force
    BY <2>3, WorkStep DEF Call
  <2> QED
    BY <2>1, <2>2, <2>3 DEF Next, Spared
<1> QED
    BY <1>1, RefsCorrect, PTL DEF Spec, UncommittedKept
-----------------------------------------------------------------------------
\* The ancestors of the commits of a history, as a function that its own values
\* define: there is one, there is only one, and a longer history extends it.
AncestryUpTo(cs, k, f) ==
    f = [n \in 0..k |-> IF n = 0 THEN {} ELSE {n} \cup UNION {f[p] : p \in cs[n].parents}]
Older(cs) == \A n \in 1..Len(cs) : cs[n].parents \subseteq 1..(n - 1)

\* There is such a function, since a commit's parents are older: by the least
\* number up to which there is none.
LEMMA AncestryExists ==
    ASSUME NEW cs, Len(cs) \in Nat, Older(cs)
    PROVE  \E f : AncestryUpTo(cs, Len(cs), f)
<1> DEFINE T == {k \in Nat : k <= Len(cs) /\ ~ \E f : AncestryUpTo(cs, k, f)}
<1> SUFFICES ASSUME T # {} PROVE FALSE
    OBVIOUS
<1>1. PICK k \in T : \A j \in T : k <= j
    BY LeastExists
<1>2. AncestryUpTo(cs, 0, [n \in 0..0 |-> {}])
    BY DEF AncestryUpTo
<1>3. k # 0
    BY <1>2
<1>4. PICK f : AncestryUpTo(cs, k - 1, f)
  <2>1. k - 1 \in Nat /\ k - 1 \notin T
    BY <1>1, <1>3
  <2> QED
    BY <2>1
<1>5. /\ \A n \in 0..(k - 1) :
            f[n] = IF n = 0 THEN {} ELSE {n} \cup UNION {f[p] : p \in cs[n].parents}
      /\ k \in 1..Len(cs) /\ \A n \in 1..k : cs[n].parents \subseteq 0..(k - 1)
  <2>1. k \in 1..Len(cs)
    BY <1>3
  <2>2. \A n \in 1..k : cs[n].parents \subseteq 0..(k - 1)
    BY <2>1 DEF Older
  <2> QED
    BY <1>4, <2>1, <2>2 DEF AncestryUpTo
<1>6. PICK g : g = [n \in 0..k |-> IF n = k THEN {k} \cup UNION {f[p] : p \in cs[k].parents}
                                   ELSE f[n]]
    OBVIOUS
<1>7. /\ g = [n \in 0..k |-> g[n]] /\ \A n \in 0..(k - 1) : g[n] = f[n]
      /\ g[k] = {k} \cup UNION {f[p] : p \in cs[k].parents}
    BY <1>5, <1>6
<1>8. \A n \in 1..k : {g[p] : p \in cs[n].parents} = {f[p] : p \in cs[n].parents}
  <2> SUFFICES ASSUME NEW n \in 1..k
               PROVE  {g[p] : p \in cs[n].parents} = {f[p] : p \in cs[n].parents}
    OBVIOUS
  <2>1. \A p \in cs[n].parents : g[p] = f[p]
    BY <1>5, <1>7
  <2> QED
    BY <2>1
<1>9. ASSUME NEW n \in 0..k
      PROVE  g[n] = IF n = 0 THEN {} ELSE {n} \cup UNION {g[p] : p \in cs[n].parents}
  <2>1. CASE n = 0
    <3>1. 0 \in 0..(k - 1)
      BY <1>5
    <3>2. g[0] = f[0] /\ f[0] = {}
      BY <1>5, <1>7, <3>1
    <3> QED
      BY <2>1, <3>2
  <2>2. CASE n \in 1..(k - 1)
    <3>1. n \in 0..(k - 1) /\ n # 0 /\ n \in 1..k
      BY <1>5, <2>2
    <3>2. g[n] = f[n] /\ f[n] = {n} \cup UNION {f[p] : p \in cs[n].parents}
      BY <1>5, <1>7, <3>1
    <3> QED
      BY <1>8, <3>1, <3>2
  <2>3. CASE n = k
    <3>1. k \in 1..k /\ k # 0
      BY <1>5
    <3>2. {g[p] : p \in cs[k].parents} = {f[p] : p \in cs[k].parents}
      BY <1>8, <3>1
    <3> QED
      BY <1>7, <2>3, <3>1, <3>2
  <2> QED
    BY <1>5, <2>1, <2>2, <2>3
<1>10. [n \in 0..k |-> g[n]] =
         [n \in 0..k |-> IF n = 0 THEN {} ELSE {n} \cup UNION {g[p] : p \in cs[n].parents}]
    BY <1>9
<1>11. AncestryUpTo(cs, k, g)
    BY <1>7, <1>10 DEF AncestryUpTo
<1> QED
    BY <1>11

Parentage(cs, f, n) == {n} \cup UNION {f[p] : p \in cs[n].parents}

\* What such a function gives a commit.
LEMMA AncestryValue ==
    ASSUME NEW cs, NEW k \in Nat, NEW f, AncestryUpTo(cs, k, f), NEW n \in 0..k
    PROVE  /\ n = 0 => f[n] = {}
           /\ n # 0 => f[n] = Parentage(cs, f, n)
BY DEF AncestryUpTo, Parentage

\* Two histories that begin with the same commits give them the same ancestors: by
\* the least commit on which they would differ.
LEMMA AncestryAgrees ==
    ASSUME NEW cs, NEW ds, NEW f, NEW g, Len(cs) \in Nat, Len(ds) \in Nat, Older(cs),
           Len(cs) <= Len(ds), \A n \in 1..Len(cs) : ds[n] = cs[n],
           AncestryUpTo(cs, Len(cs), f), AncestryUpTo(ds, Len(ds), g)
    PROVE  \A n \in 0..Len(cs) : f[n] = g[n]
<1>1. ASSUME NEW n \in 0..Len(cs)
      PROVE  (n = 0 => f[n] = {}) /\ (n # 0 => f[n] = Parentage(cs, f, n))
  <2>1. PICK k \in Nat : k = Len(cs)
    OBVIOUS
  <2>2. AncestryUpTo(cs, k, f) /\ n \in 0..k
    BY <2>1, <1>1
  <2> QED
    BY <2>2 DEF AncestryUpTo, Parentage
<1>2. ASSUME NEW n \in 0..Len(ds)
      PROVE  (n = 0 => g[n] = {}) /\ (n # 0 => g[n] = Parentage(ds, g, n))
  <2>1. PICK k \in Nat : k = Len(ds)
    OBVIOUS
  <2>2. AncestryUpTo(ds, k, g) /\ n \in 0..k
    BY <2>1, <1>2
  <2> QED
    BY <2>2 DEF AncestryUpTo, Parentage
<1> DEFINE T == {n \in Nat : n <= Len(cs) /\ f[n] # g[n]}
<1> SUFFICES ASSUME T # {} PROVE FALSE
    OBVIOUS
<1>3. PICK n \in T : \A j \in T : n <= j
    BY LeastExists
<1>4. /\ n = 0 => f[n] = {} /\ g[n] = {}
      /\ n # 0 => f[n] = Parentage(cs, f, n) /\ g[n] = Parentage(ds, g, n)
  <2>1. n \in 0..Len(cs) /\ n \in 0..Len(ds)
    OBVIOUS
  <2>2. (n = 0 => f[n] = {}) /\ (n # 0 => f[n] = Parentage(cs, f, n))
    BY <1>1, <2>1
  <2>3. (n = 0 => g[n] = {}) /\ (n # 0 => g[n] = Parentage(ds, g, n))
    BY <1>2, <2>1
  <2> QED
    BY <2>2, <2>3
<1>5. n # 0
    BY <1>4
<1>6. ds[n] = cs[n] /\ cs[n].parents \subseteq 0..(n - 1)
    BY <1>5 DEF Older
<1>7. \A p \in 0..(n - 1) : f[p] = g[p]
    BY <1>3, <1>5
<1>8. {f[p] : p \in cs[n].parents} = {g[p] : p \in cs[n].parents}
    BY <1>6, <1>7
<1> QED
    BY <1>4, <1>5, <1>6, <1>8 DEF Parentage

\* Ancestors is that function.
LEMMA AncestorsAre == CommitsInv => AncestryUpTo(commits, Len(commits), Ancestors)
<1> SUFFICES ASSUME CommitsInv PROVE AncestryUpTo(commits, Len(commits), Ancestors)
    OBVIOUS
<1>1. Len(commits) \in Nat /\ Older(commits)
    BY Counted DEF CommitsInv, Older
<1>2. \E f : f = [n \in 0..Len(commits) |->
                    IF n = 0 THEN {} ELSE {n} \cup UNION {f[p] : p \in commits[n].parents}]
    BY <1>1, AncestryExists DEF AncestryUpTo
<1>3. Ancestors = [n \in 0..Len(commits) |->
                     IF n = 0 THEN {} ELSE {n} \cup UNION {Ancestors[p] : p \in commits[n].parents}]
    BY <1>2, Zenon DEF Ancestors
<1> QED
    BY <1>3 DEF AncestryUpTo
\* In a state: a commit and its parents are among its ancestors.
LEMMA AncestorsHold ==
    CommitsInv => \A n \in 1..Len(commits) :
        /\ n \in Ancestors[n]
        /\ \A p \in commits[n].parents : p \in Ancestors[n]
<1> SUFFICES ASSUME CommitsInv, NEW n \in 1..Len(commits)
             PROVE  /\ n \in Ancestors[n]
                    /\ \A p \in commits[n].parents : p \in Ancestors[n]
    OBVIOUS
<1>1. /\ Len(commits) \in Nat /\ n \in 0..Len(commits) /\ n # 0
      /\ commits[n].parents \subseteq 1..(n - 1)
    BY Counted DEF CommitsInv
<1>2. \A k \in 1..Len(commits) :
        Ancestors[k] = {k} \cup UNION {Ancestors[p] : p \in commits[k].parents}
  <2> SUFFICES ASSUME NEW k \in 1..Len(commits)
               PROVE  Ancestors[k] = {k} \cup UNION {Ancestors[p] : p \in commits[k].parents}
    OBVIOUS
  <2>1. k \in 0..Len(commits) /\ k # 0
    BY <1>1
  <2> QED
    BY <1>1, <2>1, AncestorsAre, AncestryValue DEF Parentage
<1>3. \A k \in 1..Len(commits) : k \in Ancestors[k]
    BY <1>2
<1>4. ASSUME NEW p \in commits[n].parents PROVE p \in Ancestors[n]
  <2>1. p \in 1..Len(commits)
    BY <1>1
  <2>2. p \in Ancestors[p]
    BY <1>3, <2>1
  <2> QED
    BY <1>2, <2>2
<1> QED
    BY <1>3, <1>4

\* In a step: the ancestors of a commit stay what they are.
LEMMA AncestorsStay ==
    ASSUME CommitsInv, CommitsInv', Longer
    PROVE  /\ \A n \in 0..Len(commits) : Ancestors'[n] = Ancestors[n]
           /\ \A n \in 1..Len(commits') : /\ n \in Ancestors'[n]
                                          /\ \A p \in commits'[n].parents : p \in Ancestors'[n]
<1>1. (CommitsInv => AncestryUpTo(commits, Len(commits), Ancestors))'
    BY AncestorsAre, PTL
<1>2. AncestryUpTo(commits', Len(commits'), Ancestors')
    BY <1>1
<1>3. Len(commits) \in Nat /\ Len(commits') \in Nat /\ Older(commits)
  <2>1. commits' \in Seq(CommitSet)
    BY DEF CommitsInv
  <2> HIDE DEF CommitSet
  <2>2. Len(commits') \in Nat
    BY <2>1
  <2> QED
    BY <2>2, Counted DEF CommitsInv, Older
<1>4. \A n \in 0..Len(commits) : Ancestors'[n] = Ancestors[n]
    BY <1>2, <1>3, AncestorsAre, AncestryAgrees DEF Longer
<1>5. (CommitsInv => \A n \in 1..Len(commits) :
         /\ n \in Ancestors[n]
         /\ \A p \in commits[n].parents : p \in Ancestors[n])'
    BY AncestorsHold, PTL
<1> QED
    BY <1>4, <1>5
-----------------------------------------------------------------------------
\* What a pull has found of the two tips, and a deletion of its request, when it comes
\* to move the branch.
TipInv ==
    \A c \in Calls : /\ pc[c] = "forward" => Leads(mem[c])
                     /\ pc[c] = "delete" => request[c].force

\* A branch of g is where it was, or ahead of it in the history there is then.
Ahead(g) == \A b \in Branches : \/ g.tips[b] = git.tips[b] \/ git.tips[b] = 0
                                \/ git.tips[b] \in Ancestors'[g.tips[b]]

\* A step of a call keeps what the others have found of the tips.
LEMMA TipCall ==
    ASSUME GitInv, RefInv, TipInv, NEW c \in Calls, Call(c)
    PROVE  TipInv'
<1>1. Handler(c) /\ request' = request
    BY DEF Call, Observed
<1>2. CommitsInv /\ CommitsInv' /\ Longer
    BY <1>1, StepTyped DEF Typed, RefInv
<1>3. \A n \in 0..Len(commits) : Ancestors'[n] = Ancestors[n]
    BY <1>2, AncestorsStay
<1>4. \A d \in Calls : mem[d].commit \in 0..Len(commits)
    BY DEF RefInv, Mems
<1>5. ASSUME NEW d \in Calls, d # c
      PROVE  /\ pc'[d] = "forward" => Leads(mem[d])'
             /\ pc'[d] = "delete" => request'[d].force
  <2>1. pc'[d] = pc[d] /\ mem'[d] = mem[d]
    BY <1>1, <1>5, Control DEF GitInv
  <2> QED
    BY <1>1, <1>3, <1>4, <2>1 DEF TipInv, Leads, IsAncestor
<1>6. /\ pc'[c] = "forward" => Leads(mem[c])'
      /\ pc'[c] = "delete" => request'[c].force
  <2>1. \/ pc'[c] \in {"done", "branch"}
        \/ \E p, m : GoesTo(c, p, m) /\ pc'[c] = p /\ mem'[c] = m
    BY <1>1, Control DEF GitInv
  <2>2. ASSUME NEW p, NEW m, GoesTo(c, p, m), pc'[c] = p, mem'[c] = m, p = "forward"
        PROVE  Leads(mem[c])'
    <3>1. m.tip \in Ancestors[m.commit] /\ commits' = commits
      BY <2>2 DEF GoesTo, Leads, IsAncestor
    <3>2. m.commit \in 0..Len(commits)
      BY <1>1, <2>2, <3>1, StepTyped DEF Typed, Mems
    <3> QED
      BY <1>3, <2>2, <3>1, <3>2 DEF Leads, IsAncestor
  <2>3. ASSUME NEW p, NEW m, GoesTo(c, p, m), p = "delete"
        PROVE  request'[c].force
    BY <1>1, <2>3 DEF GoesTo
  <2> QED
    BY <2>1, <2>2, <2>3
<1> QED
    BY <1>5, <1>6 DEF TipInv

\* So does an edit of a file and a move of the remote.
LEMMA TipOthers ==
    ASSUME GitInv, RefInv, TipInv, Edit \/ RemoteMoves \/ UNCHANGED vars
    PROVE  TipInv'
<1>1. RefInv' /\ UNCHANGED <<pc, mem, request>>
    BY RefOthers DEF Edit, RemoteMoves, vars
<1>2. CommitsInv /\ CommitsInv' /\ Longer
  <2>1. CommitsInv /\ CommitsInv' /\ Len(commits) \in Nat /\ commits \in Seq(CommitSet)
    BY <1>1, Counted DEF RefInv, CommitsInv
  <2>2. CASE commits' = commits
    BY <2>1, <2>2 DEF Longer
  <2>3. ASSUME NEW e, commits' = Append(commits, e)
        PROVE  Longer
    <3> HIDE DEF CommitSet
    <3> QED
      BY <2>1, <2>3 DEF Longer
  <2> QED
    BY <2>1, <2>2, <2>3 DEF Edit, RemoteMoves, vars
<1>3. \A n \in 0..Len(commits) : Ancestors'[n] = Ancestors[n]
    BY <1>2, AncestorsStay
<1>4. \A d \in Calls : mem[d].commit \in 0..Len(commits)
    BY DEF RefInv, Mems
<1> QED
    BY <1>1, <1>3, <1>4 DEF TipInv, Leads, IsAncestor
\* So is the remote's branch, unless the push asks for its removal.
RemoteAhead(c) ==
    \/ remote' = remote \/ remote = 0 \/ remote \in Ancestors'[remote']
    \/ Moved(c) /\ request[c].op = "push" /\ request[c].mode = "delete"
\* What may set a branch back without force.
Rewinds(c) ==
    /\ Moved(c)
    /\ \/ request[c].op = "reset"
       \/ request[c].op \in {"fetch", "pull"} /\ request[c].mode = "+"

\* Every step of a call that moves a branch.
LEMMA TipStep ==
    ASSUME GitInv, RefInv, TipInv, NEW c \in Calls, Handler(c)
    PROVE  \/ Moved(c) /\ request[c].force
           \/ RemoteAhead(c) /\ (Ahead(git') \/ Rewinds(c))
<1> DEFINE Goal == \/ Moved(c) /\ request[c].force
                   \/ RemoteAhead(c) /\ (Ahead(git') \/ Rewinds(c))
           L == Len(commits)
<1>1. /\ ShapeInv /\ OpInv /\ L \in Nat /\ DOMAIN git = GitFields /\ mem[c].commit \in 0..L
      /\ HeadCommit(git) \in 0..L /\ git.tips \in [Branches -> 0..L]
  <2>1. ShapeInv /\ OpInv /\ L \in Nat
    BY Counted DEF GitInv, RefInv
  <2>2. mem[c] \in Mems(L) /\ git \in Repository(L)
    BY DEF RefInv
  <2> QED
    BY <2>1, <2>2, HeadTyped DEF ShapeInv, Mems, Repository
<1>2. /\ \A n \in 0..L : Ancestors'[n] = Ancestors[n]
      /\ \A n \in 1..Len(commits') : \A p \in commits'[n].parents : p \in Ancestors'[n]
  <2>1. CommitsInv /\ CommitsInv' /\ Longer
    BY StepTyped DEF Typed, RefInv
  <2> QED
    BY <2>1, AncestorsStay
<1>3. /\ \A g : g.tips = git.tips => Ahead(g)
      /\ remote' = remote => RemoteAhead(c)
    BY DEF Ahead, RemoteAhead
<1>4. Fail(c) => Goal
    BY <1>3 DEF Fail
<1>5. \A r : Return(c, r) /\ pc[c] # "done" => Moved(c)
    BY <1>1 DEF Return, Moved, ShapeInv
<1>6. ASSUME NEW b \in Branches, NEW n, git' = [git EXCEPT !.tips = [git.tips EXCEPT ![b] = n]],
             git.tips[b] = 0 \/ git.tips[b] \in Ancestors'[n]
      PROVE  Ahead(git')
    BY <1>1, <1>6 DEF Ahead, GitFields
<1> SUFFICES Goal
    OBVIOUS
<1> HIDE DEF Goal, L
<1>7. CASE \/ Unprepared(c) \/ NotThere(c) \/ Inspect(c) \/ Add(c) \/ CommitTree(c)
           \/ CommitParent(c) \/ BranchLookup(c) \/ Analyse(c) \/ Lock(c) \/ LookForDir(c)
  <2>1. Fail(c) \/ UNCHANGED <<git, remote>>
    BY <1>7 DEF Unprepared, NotThere, Inspect, Add, CommitTree, CommitParent, BranchLookup,
       Analyse, Lock, LookForDir
  <2> QED
    BY <1>3, <1>4, <2>1 DEF Goal
<1>8. CASE \/ InitRepository(c) \/ WriteIndex(c) \/ SetHead(c) \/ MakeDir(c)
  <2>1. Fail(c) \/ (git'.tips = git.tips /\ remote' = remote)
    BY <1>1, <1>8 DEF InitRepository, WriteIndex, SetHead, MakeDir, GitFields
  <2> QED
    BY <1>3, <1>4, <2>1 DEF Goal
<1>9. CASE \/ CheckoutTree(c) \/ CheckoutForward(c) \/ MergeBranch(c) \/ MergeUpstream(c)
  <2>1. \A t, force : CheckedOutTree(t, force).tips = git.tips
    BY <1>1, ForcedFields DEF Keeps
  <2>2. \A n, force : Merged(n, force).tips = git.tips
    BY <1>1, MergedFields DEF Keeps
  <2>3. [git EXCEPT !.merging = 0].tips = git.tips
    BY <1>1 DEF GitFields
  <2>4. Fail(c) \/ (git'.tips = git.tips /\ remote' = remote)
    BY <1>9, <2>1, <2>2, <2>3, ZenonT(30) DEF CheckoutTree, CheckoutForward, MergeBranch,
       MergeUpstream, MergeWith
  <2> QED
    BY <1>3, <1>4, <2>4 DEF Goal
<1>10. CASE Clone(c)
  <2>1. CASE Fail(c)
    BY <1>4, <2>1
  <2>2. CASE ~Fail(c)
    <3>1. ~git.here /\ remote' = remote
      BY <1>10, <2>2 DEF Clone
    <3> QED
      BY <1>3, <3>1 DEF Goal, Ahead, RefInv
  <2> QED
    BY <2>1, <2>2
<1>11. CASE CommitCreate(c)
  <2>1. CASE Fail(c)
    BY <1>4, <2>1
  <2>2. CASE ~Fail(c)
    <3>1. PICK e : e = [tree |-> mem[c].tree, parents |-> {mem[c].commit} \ {0}]
      OBVIOUS
    <3>2. /\ commits' = Append(commits, e) /\ git' = MoveHead(git, Len(commits'))
          /\ remote' = remote /\ HeadCommit(git) = mem[c].commit
      BY <1>11, <2>2, <3>1 DEF CommitCreate
    <3>3. /\ Len(commits') = L + 1 /\ commits'[L + 1] = e
      <4>1. commits \in Seq(CommitSet)
        BY DEF RefInv, CommitsInv
      <4> HIDE DEF CommitSet
      <4> QED
        BY <3>2, <4>1 DEF L
    <3>4. CASE git.head[1] = "branch"
      <4>1. PICK b : b = git.head[2]
        OBVIOUS
      <4>2. b \in Branches /\ HeadCommit(git) = git.tips[b]
        <5>1. git.head \in Heads(L)
          BY DEF RefInv, Repository, L
        <5> QED
          BY <3>4, <4>1, <5>1 DEF Heads, HeadCommit
      <4>3. git' = [git EXCEPT !.tips = [git.tips EXCEPT ![b] = L + 1]]
        BY <3>2, <3>3, <3>4, <4>1 DEF MoveHead
      <4>4. git.tips[b] = 0 \/ git.tips[b] \in Ancestors'[L + 1]
        <5>1. git.tips[b] # 0 => git.tips[b] \in e.parents
          BY <3>1, <3>2, <4>2
        <5>2. L + 1 \in 1..Len(commits')
          BY <1>1, <3>3
        <5> QED
          BY <1>2, <3>3, <5>1, <5>2
      <4> QED
        BY <1>3, <1>6, <3>2, <4>2, <4>3, <4>4 DEF Goal
    <3>5. CASE git.head[1] # "branch"
      <4>1. git'.tips = git.tips
        BY <1>1, <3>2, <3>5 DEF MoveHead, GitFields
      <4> QED
        BY <1>3, <3>2, <4>1 DEF Goal
    <3> QED
      BY <3>4, <3>5
  <2> QED
    BY <2>1, <2>2
<1>12. CASE BranchCreate(c)
  <2>1. request[c].name \in Branches /\ pc[c] = "start"
    BY <1>1, <1>12, GitAssumption DEF BranchCreate, Open, Asks, ShapeInv
  <2>2. \/ Fail(c)
        \/ /\ git' = [git EXCEPT !.tips = [git.tips EXCEPT ![request[c].name] =
                                             Revparse(request[c].ref)]]
           /\ git.tips[request[c].name] = 0 \/ request[c].force
           /\ Return(c, "ok") /\ remote' = remote
    BY <1>12 DEF BranchCreate
  <2> QED
    BY <1>3, <1>4, <1>5, <1>6, <2>1, <2>2 DEF Goal
<1>13. CASE BranchDelete(c)
  <2>1. request[c].force /\ pc[c] = "delete"
    BY <1>13 DEF BranchDelete, TipInv
  <2>2. Fail(c) \/ Return(c, "ok")
    BY <1>13 DEF BranchDelete
  <2> QED
    BY <1>4, <1>5, <2>1, <2>2 DEF Goal
<1>14. CASE Reset(c)
  <2>1. request[c].op = "reset" /\ pc[c] = "start"
    BY <1>14 DEF Reset, Open, Asks
  <2>2. Fail(c) \/ (Return(c, "ok") /\ remote' = remote)
    BY <1>14 DEF Reset
  <2> QED
    BY <1>3, <1>4, <1>5, <2>1, <2>2 DEF Goal, Rewinds
<1>15. CASE Push(c)
  <2>1. CASE Fail(c)
    BY <1>4, <2>1
  <2>2. CASE ~Fail(c)
    <3>1. PICK tip : tip = IF request[c].mode = "delete" THEN 0 ELSE git.tips[request[c].name]
      OBVIOUS
    <3>2. tip \in 0..L /\ Moved(c)
      <4>1. request[c].name \in Branches /\ pc[c] = "start" /\ \E r : Return(c, r)
        BY <1>1, <1>15, <2>2, <3>1, GitAssumption, PushForms DEF ShapeInv
      <4> QED
        BY <1>1, <1>5, <3>1, <4>1
    <3>3. git'.tips = git.tips
      <4>1. git' = git \/ git' = [git EXCEPT !.tracking = tip]
        BY <1>15, <2>2, <3>1, PushForms
      <4> QED
        BY <1>1, <4>1 DEF GitFields
    <3>4. /\ request[c].op = "push" /\ remote' \in {remote, tip}
          /\ \/ request[c].mode = "delete" \/ request[c].force \/ remote = 0
             \/ IsAncestor(remote, tip)
      BY <1>15, <2>2, <3>1, PushForms
    <3>5. IsAncestor(remote, tip) /\ remote' = tip => remote \in Ancestors'[remote']
      BY <1>2, <3>2 DEF IsAncestor
    <3> QED
      BY <1>3, <3>2, <3>3, <3>4, <3>5 DEF Goal, RemoteAhead
  <2> QED
    BY <2>1, <2>2
<1>16. CASE FastForward(c)
  <2>1. \/ Fail(c)
        \/ /\ git' = [git EXCEPT !.tips = [git.tips EXCEPT !["main"] = mem[c].commit]]
           /\ git.tips["main"] = mem[c].tip /\ remote' = remote
    BY <1>16 DEF FastForward
  <2>2. mem[c].tip \in Ancestors'[mem[c].commit]
    BY <1>1, <1>2, <1>16 DEF FastForward, TipInv, Leads, IsAncestor
  <2> QED
    BY <1>3, <1>4, <1>6, <2>1, <2>2, GitAssumption DEF Goal
<1>17. CASE WorktreeBranch(c)
  <2>1. \/ Fail(c)
        \/ git' = git /\ remote' = remote
        \/ /\ request[c].ref # None /\ git.tips[request[c].ref] = 0 /\ remote' = remote
           /\ \E n : git' = [git EXCEPT !.tips = [git.tips EXCEPT ![request[c].ref] = n]]
    BY <1>17 DEF WorktreeBranch
  <2>2. request[c].ref \in Branches \cup {None}
    BY <1>1, <1>17, GitAssumption DEF WorktreeBranch, OpInv, ShapeInv
  <2> QED
    BY <1>3, <1>4, <1>6, <2>1, <2>2 DEF Goal
<1>18. CASE Link(c)
  <2>1. PICK b : b = IF mem[c].head = None THEN request[c].name ELSE mem[c].head
    OBVIOUS
  <2>2. PICK n : n = IF mem[c].head = None /\ git.tips[request[c].name] = 0 THEN HeadCommit(git)
                     ELSE git.tips[b]
    OBVIOUS
  <2>3. \/ Fail(c)
        \/ remote' = remote /\ git'.tips = git.tips
        \/ remote' = remote /\ git'.tips = [git.tips EXCEPT ![b] = n]
    BY <1>1, <1>18, <2>1, <2>2 DEF Link, GitFields
  <2>4. n # git.tips[b] => git.tips[b] = 0
    BY <2>1, <2>2
  <2>5. git'.tips = [git.tips EXCEPT ![b] = n] => Ahead(git')
    BY <1>1, <2>4 DEF Ahead
  <2> QED
    BY <1>3, <1>4, <2>3, <2>5 DEF Goal
<1>19. CASE Fetch(c)
  <2>1. PICK q : q = request[c]
    OBVIOUS
  <2>2. pc[c] = "start" /\ q.op \in {"fetch", "pull"}
    BY <1>19, <2>1, FetchForms
  <2>3. CASE Fail(c)
    BY <1>4, <2>3
  <2>4. CASE ~Fail(c)
    <3>1. git' = Fetched(q) /\ remote' = remote /\ Moved(c)
      <4>1. Return(c, "ok") \/ Go(c, "analysis", NoMem)
        BY <1>19, <2>4, FetchForms
      <4>2. Moved(c)
        BY <1>1, <2>2, <4>1 DEF Return, Go, Moved, ShapeInv
      <4> QED
        BY <1>19, <2>1, <2>4, <4>2, FetchForms
    <3>2. CASE Fetched(q) = git \/ Fetched(q) = [git EXCEPT !.tracking = remote]
      <4>1. git'.tips = git.tips
        BY <1>1, <3>1, <3>2 DEF GitFields
      <4> QED
        BY <1>3, <3>1, <4>1 DEF Goal
    <3>3. CASE /\ q.name \in Branches
               /\ \/ q.mode = "+" \/ git.tips[q.name] = 0
                  \/ IsAncestor(git.tips[q.name], remote)
               /\ Fetched(q) = [git EXCEPT !.tracking = remote,
                                           !.tips = [git.tips EXCEPT ![q.name] = remote]]
      <4>1. git'.tips = [git.tips EXCEPT ![q.name] = remote]
        BY <1>1, <3>1, <3>3 DEF GitFields
      <4>2. IsAncestor(git.tips[q.name], remote) => git.tips[q.name] \in Ancestors'[remote]
        <5>1. remote \in 0..L
          BY DEF RefInv, L
        <5> QED
          BY <1>2, <5>1 DEF IsAncestor
      <4>3. q.mode = "+" \/ Ahead(git')
        BY <1>1, <3>3, <4>1, <4>2 DEF Ahead
      <4>4. q.mode = "+" => Rewinds(c)
        BY <2>1, <2>2, <3>1 DEF Rewinds
      <4> QED
        BY <1>3, <3>1, <4>3, <4>4 DEF Goal
    <3> QED
      BY <3>2, <3>3, FetchedForms
  <2> QED
    BY <2>3, <2>4
<1> QED
    BY <1>7, <1>8, <1>9, <1>10, <1>11, <1>12, <1>13, <1>14, <1>15, <1>16, <1>17, <1>18,
       <1>19 DEF Handler, Prepared

\* A branch, here or on the remote, never loses a commit but by force, by a reset, or by
\* a refspec that asks for it, the "+" of a fetch or the empty source of a push:
\* a pull whose fast-forward was found before others moved the branch does not move it,
\* since the tip it read is compared in the step that moves it.
THEOREM BranchesKeepCommits == Spec => BranchesAdvance
<1> DEFINE A == \/ \E c \in Calls : Moved(c) /\ request[c].force
                \/ /\ \/ remote' = remote \/ remote = 0 \/ remote \in Ancestors'[remote']
                      \/ \E c \in Calls :
                            Moved(c) /\ request[c].op = "push" /\ request[c].mode = "delete"
                   /\ \/ \A b \in Branches : \/ git'.tips[b] = git.tips[b] \/ git.tips[b] = 0
                                              \/ git.tips[b] \in Ancestors'[git'.tips[b]]
                      \/ \E c \in Calls :
                            /\ Moved(c)
                            /\ \/ request[c].op = "reset"
                               \/ request[c].op \in {"fetch", "pull"} /\ request[c].mode = "+"
<1>1. Init => TipInv
    BY DEF Init, TipInv
<1>2. GitInv /\ RefInv /\ TipInv /\ [Next]_vars => TipInv'
    BY TipCall, TipOthers DEF Next
<1>3. GitInv /\ RefInv /\ TipInv /\ [Next]_vars => [A]_vars
  <2> SUFFICES ASSUME GitInv, RefInv, TipInv, Next
               PROVE  A
    OBVIOUS
  <2>1. CASE Edit
    <3>1. PICK f, x : git' = [git EXCEPT !.work = [git.work EXCEPT ![f] = x]]
      BY <2>1 DEF Edit
    <3>2. git'.tips = git.tips /\ remote' = remote
      BY <2>1, <3>1 DEF Edit, GitInv, ShapeInv, GitFields
    <3> QED
      BY <3>2
  <2>2. CASE RemoteMoves
    <3>1. RefInv' /\ CommitsInv /\ commits \in Seq(CommitSet) /\ Len(commits) \in Nat
      BY <2>2, RefOthers, Counted DEF RefInv, CommitsInv
    <3>2. PICK e : commits' = Append(commits, e) /\ e.parents = {remote}
      BY <2>2 DEF RemoteMoves
    <3>3. Longer /\ Len(commits') = Len(commits) + 1 /\ commits'[Len(commits')] = e
      <4> HIDE DEF CommitSet
      <4> QED
        BY <3>1, <3>2 DEF Longer
    <3>4. remote' = Len(commits') /\ git' = git
      BY <2>2 DEF RemoteMoves
    <3>5. CommitsInv'
      BY <3>1 DEF RefInv
    <3>6. remote' \in 1..Len(commits')
      BY <3>1, <3>3, <3>4
    <3>7. remote \in Ancestors'[remote']
      BY <3>1, <3>2, <3>3, <3>4, <3>5, <3>6, AncestorsStay
    <3> QED
      BY <3>4, <3>7
  <2>3. ASSUME NEW c \in Calls, Call(c)
        PROVE  A
    BY <2>3, TipStep DEF Call, Ahead, RemoteAhead, Rewinds
  <2> QED
    BY <2>1, <2>2, <2>3 DEF Next
<1> QED
    BY <1>1, <1>2, <1>3, RefsCorrect, PTL DEF Spec, BranchesAdvance
-----------------------------------------------------------------------------
\* The index and the working tree are those of the commit n, and no merge is going on.
OnTree(g, n) == /\ g.work = TreeOf(n) /\ g.index = TreeOf(n)
                /\ g.conflicts = {} /\ g.merging = 0
\* What a call has read, in a repository where nothing was changed when it began.  The
\* branch that HEAD names may have got its first commit from worktree_add, which will
\* then find it in use.
CleanAt(p, g, m, q) ==
    /\ p \in {"write index", "parent", "create"} =>
          m.tree = TreeOf(HeadCommit(g)) /\ m.conflicts = {}
    /\ p = "set head" => /\ OnTree(g, m.commit)
                         /\ q.mode = "branch" => g.tips[q.name] = m.commit
    /\ p \in LockStates => \/ Clean(g)
                           \/ p = "look" /\ m.head # None /\ g.head = <<"branch", m.head>>
CleanInv ==
    \A c \in Calls :
        quiet[c] /\ pc[c] \notin {"start", "done"} /\ Clean(before[c][1])
        => CleanAt(pc[c], git, mem[c], request[c])

\* Clean is being on the tree of HEAD's commit.
LEMMA CleanIs == \A g : Clean(g) <=> OnTree(g, HeadCommit(g))
BY DEF Clean, OnTree

\* A step that leaves the trees and HEAD's commit alone.
SameTree(g) == /\ g.work = git.work /\ g.index = git.index /\ g.conflicts = git.conflicts
               /\ g.merging = git.merging /\ HeadCommit(g) = HeadCommit(git)

\* Such a step keeps the repository clean.
LEMMA SameTreeClean ==
    ASSUME NEW g, SameTree(g), Clean(git)
    PROVE  Clean(g)
BY DEF SameTree, Clean

\* Setting a branch that HEAD does not name leaves HEAD's commit.
LEMMA TipSame ==
    ASSUME ShapeInv, NEW b, NEW n, git.head # <<"branch", b>>, RefInv
    PROVE  HeadCommit([git EXCEPT !.tips = [git.tips EXCEPT ![b] = n]]) = HeadCommit(git)
<1>1. git.head \in Heads(Len(commits)) /\ DOMAIN git = GitFields /\ DOMAIN git.tips = Branches
    BY DEF RefInv, Repository, ShapeInv
<1> QED
    BY <1>1 DEF Heads, HeadCommit, GitFields

\* HEAD is on the commit it was moved to, and the trees are where they were.
LEMMA MovedHead ==
    ASSUME NEW n \in Nat, NEW g \in Repository(n), NEW k
    PROVE  /\ HeadCommit(MoveHead(g, k)) = k
           /\ MoveHead(g, k).work = g.work /\ MoveHead(g, k).index = g.index
           /\ MoveHead(g, k).conflicts = g.conflicts /\ MoveHead(g, k).merging = g.merging
<1>1. g.head \in Heads(n) /\ DOMAIN g.tips = Branches /\ DOMAIN g = GitFields
    BY DEF Repository, GitFields
<1>2. CASE g.head[1] = "branch"
  <2>1. MoveHead(g, k) = [g EXCEPT !.tips = [g.tips EXCEPT ![g.head[2]] = k]]
    BY <1>2 DEF MoveHead
  <2>2. g.head[2] \in Branches
    BY <1>1, <1>2 DEF Heads
  <2> QED
    BY <1>1, <1>2, <2>1, <2>2 DEF HeadCommit, GitFields
<1>3. CASE g.head[1] # "branch"
  <2>1. MoveHead(g, k) = [g EXCEPT !.head = <<"commit", k>>]
    BY <1>3 DEF MoveHead
  <2>2. "commit" # "branch"
    OBVIOUS
  <2> QED
    BY <1>1, <2>1, <2>2 DEF HeadCommit, GitFields
<1> QED
    BY <1>2, <1>3

\* A checkout in a clean repository makes the working tree and the index the target's.
LEMMA CleanCheckout ==
    ASSUME RefInv, ShapeInv, Clean(git), NEW n \in 0..Len(commits), NEW force \in BOOLEAN
    PROVE  OnTree(CheckedOutTree(TreeOf(n), force), n)
<1>1. PICK t : t = TreeOf(n)
    OBVIOUS
<1>2. PICK base : base = TreeOf(HeadCommit(git))
    OBVIOUS
<1>3. t \in Trees /\ base \in Trees
    BY <1>1, <1>2, Counted, HeadTyped, TreeTyped DEF RefInv
<1>4. git.work = base /\ git.index = base /\ git.conflicts = {} /\ git.merging = 0
    BY <1>2 DEF Clean
<1>5. \A f \in Files : base[f] # t[f] <=> f \in Touched(t, force)
    BY <1>2, <1>4 DEF Touched
<1>6. [f \in Files |-> IF f \in Touched(t, force) THEN t[f] ELSE base[f]] = t
  <2>1. \A f \in Files : (IF f \in Touched(t, force) THEN t[f] ELSE base[f]) = t[f]
    BY <1>5
  <2>2. t = [f \in Files |-> t[f]]
    BY <1>3 DEF Trees
  <2> QED
    BY <2>1, <2>2
<1>7. CheckedOutTree(t, force) =
        [git EXCEPT !.work = [f \in Files |-> IF f \in Touched(t, force) THEN t[f] ELSE git.work[f]],
                    !.index = [f \in Files |-> IF f \in Touched(t, force) THEN t[f] ELSE git.index[f]],
                    !.conflicts = IF force THEN git.conflicts \ Touched(t, force) ELSE git.conflicts]
    BY DEF CheckedOutTree
<1>8. CheckedOutTree(t, force) = [git EXCEPT !.work = t, !.index = t, !.conflicts = {}]
    BY <1>4, <1>6, <1>7
<1> QED
    BY <1>1, <1>4, <1>8 DEF OnTree, ShapeInv, GitFields
\* Every step of a call that has been alone in a clean repository.
LEMMA CleanStep ==
    ASSUME GitInv, RefInv, NEW c \in Calls, Handler(c),
           CleanAt(pc[c], git, mem[c], request[c]),
           pc[c] \in {"start"} \cup Reading => Clean(git)
    PROVE  /\ \/ pc'[c] = "done"
              \/ commits' = commits /\ CleanAt(pc'[c], git', mem'[c], request[c])
           /\ pc'[c] = "done" /\ result'[c] = "ok" /\ KeepsClean(c) => IsClean'
<1> DEFINE L == Len(commits)
           Ends == pc'[c] = "done" /\ (result'[c] = "ok" /\ KeepsClean(c) => IsClean')
           Goes == pc'[c] # "done" /\ commits' = commits
                   /\ CleanAt(pc'[c], git', mem'[c], request[c])
<1>1. /\ ShapeInv /\ OpInv /\ L \in Nat /\ git \in Repository(L) /\ mem[c] \in Mems(L)
      /\ DOMAIN git = GitFields /\ DOMAIN git.tips = Branches /\ DOMAIN mem[c] = MemFields
      /\ DOMAIN NoMem = MemFields /\ NoMem.conflicts = {} /\ request[c].force \in BOOLEAN
  <2>1. ShapeInv /\ OpInv /\ L \in Nat /\ DOMAIN NoMem = MemFields /\ NoMem.conflicts = {}
    BY Counted DEF GitInv, RefInv, NoMem, MemFields
  <2>2. mem[c] \in Mems(L) /\ git \in Repository(L)
    BY DEF RefInv
  <2> QED
    BY <2>1, <2>2, GitAssumption DEF ShapeInv
<1>2. Fail(c) => Ends
    BY <1>1 DEF Fail, Return, ShapeInv
<1>3. \A r : Return(c, r) => pc'[c] = "done" /\ result'[c] = r
    BY <1>1 DEF Return, ShapeInv
<1>4. \A p, m : Go(c, p, m) => pc'[c] = p /\ mem'[c] = m
    BY <1>1 DEF Go, ShapeInv
<1>5. commits' = commits /\ Clean(git') => IsClean'
    BY DEF IsClean, Clean, TreeOf
<1>6. ASSUME NEW r, Return(c, r), ~KeepsClean(c) \/ (commits' = commits /\ Clean(git'))
      PROVE  Ends
    BY <1>3, <1>5, <1>6
<1>7. ASSUME NEW p, NEW m, Go(c, p, m), p # "done", commits' = commits,
             CleanAt(p, git', m, request[c])
      PROVE  Goes
    BY <1>4, <1>7
<1>8. ASSUME NEW g, SameTree(g), Clean(git) PROVE Clean(g)
    BY <1>8, SameTreeClean
<1>9. SameTree(git)
    BY DEF SameTree
<1> SUFFICES Ends \/ Goes
    OBVIOUS
<1> HIDE DEF L, Ends, Goes
<1>10. CASE Unprepared(c) \/ NotThere(c)
    BY <1>2, <1>10 DEF Unprepared, NotThere
<1>11. CASE \/ InitRepository(c) \/ Clone(c) \/ Inspect(c) \/ MergeBranch(c)
  <2>1. request[c].op \in {"init", "clone", "inspect", "merge"}
    BY <1>11 DEF InitRepository, Clone, Inspect, MergeBranch, Asks, Open
  <2>2. ~KeepsClean(c)
    BY <2>1 DEF KeepsClean
  <2>3. Fail(c) \/ \E r : Return(c, r)
    BY <1>11 DEF InitRepository, Clone, Inspect, MergeBranch, MergeWith
  <2> QED
    BY <1>2, <1>6, <2>2, <2>3
<1>12. CASE MergeUpstream(c) \/ CheckoutForward(c)
  <2>1. request[c].op = "pull"
    BY <1>1, <1>12 DEF MergeUpstream, CheckoutForward, OpInv
  <2>2. ~KeepsClean(c)
    BY <2>1 DEF KeepsClean
  <2>3. Fail(c) \/ \E r : Return(c, r)
    BY <1>12 DEF MergeUpstream, CheckoutForward, MergeWith
  <2> QED
    BY <1>2, <1>6, <2>2, <2>3
<1>13. CASE Add(c)
  <2>1. CASE Fail(c)
    BY <1>2, <2>1
  <2>2. CASE ~Fail(c)
    <3>1. PICK named : /\ Go(c, "write index",
                             [NoMem EXCEPT !.tree = [f \in Files |-> IF f \in named THEN git.work[f]
                                                                     ELSE git.index[f]],
                                           !.conflicts = git.conflicts \ named])
                       /\ UNCHANGED <<git, commits, remote>> /\ pc[c] = "start"
      BY <1>13, <2>2 DEF Add, Open, Asks
    <3>2. PICK t : t = TreeOf(HeadCommit(git))
      OBVIOUS
    <3>3. t \in Trees /\ git.work = t /\ git.index = t /\ git.conflicts = {}
      BY <1>1, <3>1, <3>2, HeadTyped, TreeTyped DEF Clean, RefInv, L
    <3>4. [f \in Files |-> IF f \in named THEN git.work[f] ELSE git.index[f]] = t
      BY <3>3 DEF Trees
    <3>5. PICK m : m = [NoMem EXCEPT !.tree = t, !.conflicts = {}]
      OBVIOUS
    <3>6. Go(c, "write index", m)
      <4>1. git.conflicts \ named = {}
        BY <3>3
      <4> QED
        BY <3>1, <3>4, <3>5, <4>1
    <3>7. m.tree = t /\ m.conflicts = {}
      BY <1>1, <3>5 DEF MemFields
    <3> QED
      BY <1>7, <3>1, <3>2, <3>6, <3>7 DEF CleanAt, LockStates
  <2> QED
    BY <2>1, <2>2
<1>14. CASE WriteIndex(c)
  <2>1. /\ git' = [git EXCEPT !.index = mem[c].tree, !.conflicts = mem[c].conflicts]
        /\ Return(c, "ok") /\ commits' = commits /\ pc[c] = "write index"
    BY <1>14 DEF WriteIndex
  <2>2. Clean(git) /\ mem[c].tree = TreeOf(HeadCommit(git)) /\ mem[c].conflicts = {}
    BY <2>1 DEF CleanAt, Reading
  <2>3. SameTree(git')
    BY <1>1, <2>1, <2>2 DEF SameTree, Clean, HeadCommit, GitFields
  <2> QED
    BY <1>6, <1>8, <2>1, <2>2, <2>3
<1>15. CASE CommitTree(c)
  <2>1. \/ Fail(c)
        \/ /\ Go(c, "parent", [NoMem EXCEPT !.tree = git.index])
           /\ UNCHANGED <<git, commits, remote>>
    BY <1>15 DEF CommitTree
  <2>2. Clean(git)
    BY <1>15 DEF CommitTree, Open, Asks
  <2>3. PICK m : m = [NoMem EXCEPT !.tree = git.index]
    OBVIOUS
  <2>4. m.tree = TreeOf(HeadCommit(git)) /\ m.conflicts = {}
    BY <1>1, <2>2, <2>3 DEF Clean, MemFields
  <2> QED
    BY <1>2, <1>7, <2>1, <2>3, <2>4 DEF CleanAt, LockStates
<1>16. CASE CommitParent(c)
  <2>1. /\ Go(c, "create", [mem[c] EXCEPT !.commit = HeadCommit(git)])
        /\ UNCHANGED <<git, commits, remote>> /\ pc[c] = "parent"
    BY <1>16 DEF CommitParent
  <2>2. PICK m : m = [mem[c] EXCEPT !.commit = HeadCommit(git)]
    OBVIOUS
  <2>3. m.tree = mem[c].tree /\ m.conflicts = mem[c].conflicts
    BY <1>1, <2>2 DEF MemFields
  <2> QED
    BY <1>7, <2>1, <2>2, <2>3 DEF CleanAt, LockStates
<1>17. CASE CommitCreate(c)
  <2>1. CASE Fail(c)
    BY <1>2, <2>1
  <2>2. CASE ~Fail(c)
    <3>1. PICK e : e = [tree |-> mem[c].tree, parents |-> {mem[c].commit} \ {0}]
      OBVIOUS
    <3>2. /\ commits' = Append(commits, e) /\ git' = MoveHead(git, Len(commits'))
          /\ Return(c, "ok") /\ pc[c] = "create"
      BY <1>17, <2>2, <3>1 DEF CommitCreate
    <3>3. Clean(git) /\ mem[c].tree = TreeOf(HeadCommit(git))
      BY <3>2 DEF CleanAt, Reading
    <3>4. Len(commits') = L + 1 /\ commits'[L + 1] = e
      <4>1. commits \in Seq(CommitSet)
        BY DEF RefInv, CommitsInv
      <4> HIDE DEF CommitSet
      <4> QED
        BY <3>2, <4>1 DEF L
    <3>5. /\ HeadCommit(git') = L + 1 /\ git'.work = git.work /\ git'.index = git.index
          /\ git'.conflicts = git.conflicts /\ git'.merging = git.merging
      BY <1>1, <3>2, <3>4, MovedHead
    <3>6. commits'[L + 1].tree = mem[c].tree /\ L + 1 # 0
      BY <1>1, <3>1, <3>4
    <3>7. IsClean'
      BY <3>3, <3>5, <3>6 DEF IsClean, Clean, TreeOf, HeadCommit
    <3> QED
      BY <1>3, <3>2, <3>7 DEF Ends
  <2> QED
    BY <2>1, <2>2
<1>18. CASE CheckoutTree(c)
  <2>1. PICK t : t = Revparse(request[c].name)
    OBVIOUS
  <2>2. t \in 0..L /\ Clean(git) /\ request[c].op = "checkout" /\ request[c] \in Requests
    BY <1>1, <1>18, <2>1, RevparseTyped DEF CheckoutTree, Open, Asks, ShapeInv, L
  <2>3. PICK g : g = CheckedOutTree(TreeOf(t), request[c].force)
    OBVIOUS
  <2>4. OnTree(g, t) /\ g.tips = git.tips
    BY <1>1, <2>2, <2>3, CleanCheckout, ForcedFields DEF Keeps, L
  <2>5. \/ Fail(c)
        \/ /\ git' = g /\ commits' = commits
           /\ \/ request[c].mode = "tag object" /\ Return(c, "ok")
              \/ Go(c, "set head", [NoMem EXCEPT !.commit = t])
    BY <1>18, <2>1, <2>3 DEF CheckoutTree
  <2>6. request[c].mode = "tag object" => ~KeepsClean(c)
    BY <2>2 DEF KeepsClean
  <2>7. request[c].mode = "branch" => git.tips[request[c].name] = t
    <3>1. request[c].mode = "branch" => request[c].name \in Branches /\ request[c].name # "HEAD"
      BY <2>2, GitAssumption
    <3> QED
      BY <2>1, <3>1 DEF Revparse
  <2>8. PICK m : m = [NoMem EXCEPT !.commit = t]
    OBVIOUS
  <2>9. m.commit = t
    BY <1>1, <2>8 DEF MemFields
  <2>10. CleanAt("set head", g, m, request[c])
    BY <2>4, <2>7, <2>9 DEF CleanAt, LockStates
  <2> QED
    BY <1>2, <1>6, <1>7, <2>5, <2>6, <2>8, <2>10
<1>19. CASE SetHead(c)
  <2>1. \/ Fail(c)
        \/ /\ git' = [git EXCEPT !.head = IF request[c].mode = "branch"
                                          THEN <<"branch", request[c].name>>
                                          ELSE <<"commit", mem[c].commit>>]
           /\ Return(c, "ok") /\ commits' = commits
    BY <1>19 DEF SetHead
  <2>2. /\ OnTree(git, mem[c].commit)
        /\ request[c].mode = "branch" => git.tips[request[c].name] = mem[c].commit
    BY <1>19 DEF SetHead, CleanAt
  <2>3. ~Fail(c) => HeadCommit(git') = mem[c].commit
    <3>1. CASE request[c].mode = "branch"
      BY <1>1, <2>1, <2>2, <3>1 DEF HeadCommit, GitFields
    <3>2. CASE request[c].mode # "branch"
      <4>1. "commit" # "branch"
        OBVIOUS
      <4> QED
        BY <1>1, <2>1, <3>2, <4>1 DEF HeadCommit, GitFields
    <3> QED
      BY <3>1, <3>2
  <2>4. ~Fail(c) => OnTree(git', mem[c].commit)
    BY <1>1, <2>1, <2>2 DEF OnTree, GitFields
  <2>5. ~Fail(c) => Clean(git')
    BY <2>3, <2>4, CleanIs
  <2> QED
    BY <1>2, <1>6, <2>1, <2>5
<1>20. CASE BranchCreate(c)
  <2>1. \/ Fail(c)
        \/ /\ git' = [git EXCEPT !.tips = [git.tips EXCEPT ![request[c].name] =
                                             Revparse(request[c].ref)]]
           /\ Return(c, "ok") /\ commits' = commits
    BY <1>20 DEF BranchCreate
  <2>2. Clean(git) /\ pc[c] = "start" /\ request[c].op = "branch_create"
    BY <1>20 DEF BranchCreate, Open, Asks
  <2>3. CASE git.head = <<"branch", request[c].name>>
    <3>1. ~KeepsClean(c)
      BY <2>2, <2>3 DEF KeepsClean, Was
    <3> QED
      BY <1>2, <1>6, <2>1, <3>1
  <2>4. CASE git.head # <<"branch", request[c].name>> /\ ~Fail(c)
    <3>1. HeadCommit(git') = HeadCommit(git)
      <4>1. git' = [git EXCEPT !.tips = [git.tips EXCEPT ![request[c].name] =
                                           Revparse(request[c].ref)]]
        BY <2>1, <2>4
      <4>2. PICK n : n = Revparse(request[c].ref)
        OBVIOUS
      <4> QED
        BY <1>1, <2>4, <4>1, <4>2, TipSame
    <3>2. SameTree(git')
      BY <1>1, <2>1, <2>4, <3>1 DEF SameTree, GitFields
    <3> QED
      BY <1>6, <1>8, <2>1, <2>2, <2>4, <3>2
  <2> QED
    BY <1>2, <2>3, <2>4
<1>21. CASE BranchLookup(c)
  <2>1. Fail(c) \/ \E m : Go(c, "delete", m) /\ commits' = commits
    BY <1>21 DEF BranchLookup
  <2> QED
    BY <1>2, <1>7, <2>1 DEF CleanAt, LockStates
<1>22. CASE BranchDelete(c)
  <2>1. \/ Fail(c)
        \/ /\ git' = [git EXCEPT !.tips = [git.tips EXCEPT ![request[c].name] = 0]]
           /\ ~CheckedOut(request[c].name) /\ Return(c, "ok") /\ commits' = commits
    BY <1>22 DEF BranchDelete
  <2>2. Clean(git)
    BY <1>22 DEF BranchDelete, Reading
  <2>3. CASE ~Fail(c)
    <3>1. HeadCommit(git') = HeadCommit(git)
      <4>1. git' = [git EXCEPT !.tips = [git.tips EXCEPT ![request[c].name] = 0]]
        BY <2>1, <2>3
      <4>2. git.head # <<"branch", request[c].name>>
        BY <2>1, <2>3 DEF CheckedOut
      <4> QED
        BY <1>1, <4>1, <4>2, TipSame
    <3>2. SameTree(git')
      BY <1>1, <2>1, <2>3, <3>1 DEF SameTree, GitFields
    <3> QED
      BY <1>6, <1>8, <2>1, <2>2, <2>3, <3>2
  <2> QED
    BY <1>2, <2>3
<1>23. CASE Reset(c)
  <2>1. PICK t : t = Revparse(request[c].ref)
    OBVIOUS
  <2>2. t \in 0..L /\ Clean(git) /\ request[c].op = "reset"
    BY <1>23, <2>1, RevparseTyped DEF Reset, Open, Asks, L
  <2>3. CASE request[c].mode # "hard"
    <3>1. ~KeepsClean(c) /\ (Fail(c) \/ Return(c, "ok"))
      BY <1>23, <2>2, <2>3 DEF KeepsClean, Reset
    <3> QED
      BY <1>2, <1>6, <3>1
  <2>4. CASE request[c].mode = "hard" /\ ~Fail(c)
    <3>1. PICK g : g = CheckedOutTree(TreeOf(t), TRUE)
      OBVIOUS
    <3>2. OnTree(g, t) /\ g \in Repository(L)
      BY <2>2, <3>1, <1>1, CleanCheckout, CheckedOutTyped, TreeTyped DEF L, RefInv
    <3>3. PICK h : h = MoveHead(g, t)
      OBVIOUS
    <3>4. /\ git' = [h EXCEPT !.index = TreeOf(t), !.conflicts = {}, !.merging = 0]
          /\ Return(c, "ok") /\ commits' = commits /\ t # 0
      BY <1>23, <2>1, <2>4, <3>1, <3>3 DEF Reset
    <3>5. HeadCommit(h) = t /\ h.work = g.work /\ h \in Repository(L)
      BY <1>1, <2>2, <3>2, <3>3, <3>4, MovedHead, MovedTyped
    <3>6. /\ HeadCommit(git') = t /\ git'.work = h.work /\ git'.index = TreeOf(t)
          /\ git'.conflicts = {} /\ git'.merging = 0
      BY <3>4, <3>5 DEF HeadCommit, Repository
    <3>7. Clean(git')
      BY <3>2, <3>5, <3>6 DEF OnTree, Clean
    <3> QED
      BY <1>6, <3>4, <3>7
  <2> QED
    BY <1>2, <2>3, <2>4
<1>24. CASE Fetch(c)
  <2>1. PICK q : q = request[c]
    OBVIOUS
  <2>2. Clean(git) /\ pc[c] = "start"
    BY <1>24, FetchForms
  <2>3. \/ Fail(c)
        \/ /\ git' = Fetched(q) /\ commits' = commits
           /\ (q.op = "fetch" /\ Return(c, "ok")) \/ Go(c, "analysis", NoMem)
    BY <1>24, <2>1, FetchForms
  <2>4. CASE commits' = commits /\ Go(c, "analysis", NoMem)
    <3>1. CleanAt("analysis", git', NoMem, request[c])
      BY DEF CleanAt, LockStates
    <3> QED
      BY <1>7, <2>4, <3>1
  <2>5. CASE git' = Fetched(q) /\ commits' = commits /\ q.op = "fetch" /\ Return(c, "ok")
    <3>1. KeepsClean(c) => git.head # <<"branch", q.name>>
      BY <2>1, <2>2, <2>5 DEF KeepsClean, Was
    <3>2. ASSUME git.head # <<"branch", q.name>> PROVE SameTree(git')
      <4>1. CASE Fetched(q) = git \/ Fetched(q) = [git EXCEPT !.tracking = remote]
        BY <1>1, <2>5, <4>1 DEF SameTree, HeadCommit, GitFields
      <4>2. CASE Fetched(q) = [git EXCEPT !.tracking = remote,
                                          !.tips = [git.tips EXCEPT ![q.name] = remote]]
        <5>1. HeadCommit([git EXCEPT !.tips = [git.tips EXCEPT ![q.name] = remote]])
                = HeadCommit(git)
          BY <1>1, <3>2, TipSame
        <5>2. /\ git'.head = git.head /\ git'.tips = [git.tips EXCEPT ![q.name] = remote]
              /\ git'.work = git.work /\ git'.index = git.index
              /\ git'.conflicts = git.conflicts /\ git'.merging = git.merging
          BY <1>1, <2>5, <4>2 DEF GitFields
        <5>3. HeadCommit(git') = HeadCommit(git)
          BY <1>1, <5>1, <5>2 DEF HeadCommit, GitFields
        <5> QED
          BY <5>2, <5>3 DEF SameTree
      <4> QED
        BY <4>1, <4>2, FetchedForms
    <3> QED
      BY <1>6, <1>8, <2>2, <2>5, <3>1, <3>2
  <2> QED
    BY <1>2, <2>3, <2>4, <2>5
<1>25. CASE Push(c)
  <2>1. PICK tip : tip = IF request[c].mode = "delete" THEN 0 ELSE git.tips[request[c].name]
    OBVIOUS
  <2>2. Clean(git)
    BY <1>25, <2>1, PushForms
  <2>3. \/ Fail(c)
        \/ /\ git' = git \/ git' = [git EXCEPT !.tracking = tip]
           /\ commits' = commits /\ \E r : Return(c, r)
    BY <1>25, <2>1, PushForms
  <2>4. CASE ~Fail(c)
    <3>1. SameTree(git')
      BY <1>1, <1>9, <2>3, <2>4 DEF SameTree, HeadCommit, GitFields
    <3> QED
      BY <1>6, <1>8, <2>2, <2>3, <2>4, <3>1
  <2> QED
    BY <1>2, <2>4
<1>26. CASE Analyse(c) \/ FastForward(c)
  <2>1. request[c].op = "pull"
    BY <1>1, <1>26 DEF Analyse, FastForward, OpInv
  <2>2. ~KeepsClean(c)
    BY <2>1 DEF KeepsClean
  <2>3. \/ Fail(c) \/ Return(c, "up_to_date")
        \/ \E p \in {"forward", "merge", "checkout"} : \E m : Go(c, p, m) /\ commits' = commits
    BY <1>26 DEF Analyse, FastForward
  <2>4. \A p \in {"forward", "merge", "checkout"} : \A m : CleanAt(p, git', m, request[c])
    BY DEF CleanAt, LockStates
  <2> QED
    BY <1>2, <1>6, <1>7, <2>2, <2>3, <2>4
<1>27. CASE Lock(c)
  <2>1. pc'[c] = "branch" /\ UNCHANGED <<git, commits>> /\ Clean(git)
    BY <1>1, <1>27 DEF Lock, Asks, ShapeInv
  <2> QED
    BY <2>1 DEF Goes, CleanAt, LockStates
<1>28. ASSUME Clean(git'), \/ Fail(c) \/ (Return(c, "ok") /\ commits' = commits)
                           \/ Return(c, "no directory") \/ Return(c, "error")
                           \/ \E p \in LockStates : \E m : Go(c, p, m) /\ commits' = commits
       PROVE  Ends \/ Goes
  <2>1. \A p \in LockStates : \A m : p # "done" /\ CleanAt(p, git', m, request[c])
    BY <1>28 DEF CleanAt, LockStates
  <2>2. \A r \in {"no directory", "error"} : Return(c, r) => Ends
    BY <1>3 DEF Ends
  <2> QED
    BY <1>2, <1>6, <1>7, <1>28, <2>1, <2>2
<1>29. CASE WorktreeBranch(c)
  <2>1. PICK b : b = request[c].ref
    OBVIOUS
  <2>2. \/ Fail(c)
        \/ /\ Go(c, "look", [NoMem EXCEPT !.head = b]) /\ commits' = commits
           /\ \/ git' = git
              \/ b # None /\ \E n : git' = [git EXCEPT !.tips = [git.tips EXCEPT ![b] = n]]
    BY <1>29, <2>1 DEF WorktreeBranch
  <2>3. Clean(git)
    BY <1>29 DEF WorktreeBranch, CleanAt, LockStates
  <2>4. CASE Go(c, "look", [NoMem EXCEPT !.head = b]) /\ git' = git /\ commits' = commits
    BY <1>8, <1>9, <1>28, <2>3, <2>4 DEF LockStates
  <2>5. ASSUME NEW n, git' = [git EXCEPT !.tips = [git.tips EXCEPT ![b] = n]], b # None,
               Go(c, "look", [NoMem EXCEPT !.head = b]), commits' = commits
        PROVE  Goes
    <3>1. /\ git'.head = git.head /\ git'.tips = [git.tips EXCEPT ![b] = n]
          /\ git'.work = git.work /\ git'.index = git.index
          /\ git'.conflicts = git.conflicts /\ git'.merging = git.merging
      BY <1>1, <2>5 DEF GitFields
    <3>2. CASE git.head = <<"branch", b>>
      <4>1. [NoMem EXCEPT !.head = b].head = b
        BY <1>1 DEF MemFields
      <4>2. CleanAt("look", git', [NoMem EXCEPT !.head = b], request[c])
        BY <2>5, <3>1, <3>2, <4>1 DEF CleanAt, LockStates
      <4> QED
        BY <1>7, <2>5, <4>2
    <3>3. CASE git.head # <<"branch", b>>
      <4>1. HeadCommit(git') = HeadCommit(git)
        BY <1>1, <2>5, <3>3, TipSame
      <4>2. Clean(git')
        BY <1>8, <2>3, <3>1, <4>1 DEF SameTree
      <4>3. CleanAt("look", git', [NoMem EXCEPT !.head = b], request[c])
        BY <4>2 DEF CleanAt, LockStates
      <4> QED
        BY <1>7, <2>5, <4>3
    <3> QED
      BY <3>2, <3>3
  <2> QED
    BY <1>2, <2>2, <2>4, <2>5
<1>30. CASE LookForDir(c) \/ MakeDir(c)
  <2>1. /\ git' = git \/ git' = [git EXCEPT !.dir = TRUE]
        /\ \/ Fail(c) \/ Return(c, "no directory")
           \/ \E p \in {"mkdir", "link"} : \E m : Go(c, p, m) /\ commits' = commits
    BY <1>30 DEF LookForDir, MakeDir, Fail
  <2>2. SameTree(git')
    BY <1>1, <1>9, <2>1 DEF SameTree, HeadCommit, GitFields
  <2>3. CASE Clean(git)
    BY <1>8, <1>28, <2>1, <2>2, <2>3 DEF LockStates
  <2>4. CASE ~Clean(git)
    <3>1. pc[c] = "look" /\ mem[c].head # None /\ CheckedOut(mem[c].head)
      BY <1>30, <2>4 DEF LookForDir, MakeDir, CleanAt, LockStates, CheckedOut
    <3>2. Fail(c)
      BY <1>30, <3>1 DEF LookForDir, MakeDir
    <3> QED
      BY <1>2, <3>2
  <2> QED
    BY <2>3, <2>4
<1>31. CASE Link(c)
  <2>1. PICK b : b = IF mem[c].head = None THEN request[c].name ELSE mem[c].head
    OBVIOUS
  <2>2. PICK n : n = IF mem[c].head = None /\ git.tips[request[c].name] = 0 THEN HeadCommit(git)
                     ELSE git.tips[b]
    OBVIOUS
  <2>3. \/ Fail(c)
        \/ /\ git' = [git EXCEPT !.admin = git.admin \cup {request[c].name}]
           /\ Return(c, "error")
        \/ /\ git' = [git EXCEPT !.admin = git.admin \cup {request[c].name},
                                 !.linked = [git.linked EXCEPT ![request[c].name] = b],
                                 !.tips = [git.tips EXCEPT ![b] = n]]
           /\ Return(c, "ok") /\ commits' = commits
           /\ n = git.tips[b] \/ (git.tips[b] = 0 /\ HeadCommit(git) # 0)
    BY <1>31, <2>1, <2>2 DEF Link
  <2>4. CASE ~Fail(c)
    <3>1. git'.head = git.head /\ (git'.tips = git.tips \/ git'.tips = [git.tips EXCEPT ![b] = n])
      BY <1>1, <2>3, <2>4 DEF GitFields
    <3>2. git.head[1] = "branch" => git.head[2] \in Branches
      <4>1. git.head \in Heads(L)
        BY <1>1 DEF Repository
      <4> QED
        BY <4>1 DEF Heads
    <3>3. git.head[1] = "branch" => git'.tips[git.head[2]] = git.tips[git.head[2]]
      <4>1. CASE git'.tips = git.tips
        BY <4>1
      <4>2. CASE git'.tips = [git.tips EXCEPT ![b] = n] /\ n = git.tips[b]
        BY <1>1, <3>2, <4>2
      <4>3. CASE git'.tips = [git.tips EXCEPT ![b] = n] /\ git.tips[b] = 0 /\ HeadCommit(git) # 0
        <5>1. git.head[1] = "branch" => git.head[2] # b
          BY <4>3 DEF HeadCommit
        <5> QED
          BY <1>1, <3>2, <4>3, <5>1
      <4>4. git'.tips = git.tips \/ n = git.tips[b] \/ (git.tips[b] = 0 /\ HeadCommit(git) # 0)
        BY <1>1, <2>3, <2>4 DEF GitFields
      <4> QED
        BY <3>1, <4>1, <4>2, <4>3, <4>4
    <3>4. HeadCommit(git') = HeadCommit(git)
      BY <3>1, <3>3 DEF HeadCommit
    <3>5. SameTree(git')
      BY <1>1, <2>3, <2>4, <3>4 DEF SameTree, GitFields
    <3>6. Clean(git)
      BY <1>31 DEF Link, CleanAt, LockStates
    <3> QED
      BY <1>8, <1>28, <2>3, <2>4, <3>5, <3>6
  <2> QED
    BY <1>2, <2>4
<1> QED
    BY <1>10, <1>11, <1>12, <1>13, <1>14, <1>15, <1>16, <1>17, <1>18, <1>19, <1>20, <1>21,
       <1>22, <1>23, <1>24, <1>25, <1>26, <1>27, <1>29, <1>30, <1>31 DEF Handler, Prepared
\* Only the last step of commit makes a commit.
LEMMA CommitsSame ==
    ASSUME ShapeInv, NEW c \in Calls, Handler(c)
    PROVE  commits' = commits \/ pc'[c] = "done"
<1>1. Fail(c) => commits' = commits
    BY DEF Fail
<1>2. CASE CommitCreate(c)
    BY <1>1, <1>2 DEF CommitCreate, Return, ShapeInv
<1>3. CASE \/ Unprepared(c) \/ NotThere(c) \/ InitRepository(c) \/ Clone(c) \/ Inspect(c)
           \/ Add(c) \/ WriteIndex(c) \/ CommitTree(c) \/ CommitParent(c)
    BY <1>1, <1>3 DEF Unprepared, NotThere, InitRepository, Clone, Inspect, Add, WriteIndex,
       CommitTree, CommitParent
<1>4. CASE \/ CheckoutTree(c) \/ SetHead(c) \/ BranchCreate(c) \/ BranchLookup(c)
           \/ BranchDelete(c) \/ Reset(c)
    BY <1>1, <1>4 DEF CheckoutTree, SetHead, BranchCreate, BranchLookup, BranchDelete, Reset
<1>5. CASE \/ MergeBranch(c) \/ Fetch(c) \/ Push(c) \/ Analyse(c) \/ FastForward(c)
           \/ CheckoutForward(c) \/ MergeUpstream(c)
    BY <1>1, <1>5 DEF MergeBranch, MergeWith, Fetch, Push, Analyse, FastForward,
       CheckoutForward, MergeUpstream
<1>6. CASE Lock(c) \/ WorktreeBranch(c) \/ LookForDir(c) \/ MakeDir(c) \/ Link(c)
    BY <1>1, <1>6 DEF Lock, WorktreeBranch, LookForDir, MakeDir, Link
<1> QED
    BY <1>2, <1>3, <1>4, <1>5, <1>6 DEF Handler, Prepared

\* An operation that is done takes no step.
LEMMA Undone ==
    ASSUME NEW c \in Calls, Handler(c)
    PROVE  pc[c] # "done"
<1>1. \A op : Asks(c, op) \/ Open(c, op) => pc[c] = "start"
    BY DEF Asks, Open
<1>2. CASE Unprepared(c) \/ NotThere(c)
    BY <1>2 DEF Unprepared, NotThere
<1>3. CASE \/ InitRepository(c) \/ Clone(c) \/ Inspect(c) \/ Add(c) \/ CommitTree(c)
           \/ CheckoutTree(c) \/ BranchCreate(c) \/ BranchLookup(c) \/ Reset(c)
  <2>1. \E op : Asks(c, op) \/ Open(c, op)
    BY <1>3, Zenon DEF InitRepository, Clone, Inspect, Add, CommitTree, CheckoutTree,
       BranchCreate, BranchLookup, Reset
  <2> QED
    BY <1>1, <2>1
<1>4. CASE MergeBranch(c) \/ Fetch(c) \/ Push(c) \/ Lock(c)
  <2>1. \E op : Asks(c, op) \/ Open(c, op)
    BY <1>4, Zenon DEF MergeBranch, Fetch, Push, Lock
  <2> QED
    BY <1>1, <2>1
<1>5. CASE WriteIndex(c) \/ CommitParent(c) \/ CommitCreate(c) \/ SetHead(c) \/ BranchDelete(c)
    BY <1>5 DEF WriteIndex, CommitParent, CommitCreate, SetHead, BranchDelete
<1>6. CASE Analyse(c) \/ FastForward(c) \/ CheckoutForward(c) \/ MergeUpstream(c)
    BY <1>6 DEF Analyse, FastForward, CheckoutForward, MergeUpstream
<1>7. CASE WorktreeBranch(c) \/ LookForDir(c) \/ MakeDir(c) \/ Link(c)
    BY <1>7 DEF WorktreeBranch, LookForDir, MakeDir, Link
<1> QED
    BY <1>2, <1>3, <1>4, <1>5, <1>6, <1>7 DEF Handler, Prepared

\* What CleanStep asks for, of a call that has been alone.
LEMMA CleanSoFar ==
    ASSUME QuietInv, CleanInv, NEW c \in Calls, quiet[c], Clean(Was(c)), pc[c] # "done"
    PROVE  /\ CleanAt(pc[c], git, mem[c], request[c])
           /\ pc[c] \in {"start"} \cup Reading => Clean(git)
<1>1. CASE pc[c] = "start"
    BY <1>1 DEF Was, CleanAt, LockStates
<1>2. CASE pc[c] # "start"
    BY <1>2 DEF Was, CleanInv, QuietInv
<1> QED
    BY <1>1, <1>2

\* Every step keeps what a call has read of a clean repository.
LEMMA CleanGoesOn ==
    ASSUME GitInv, RefInv, QuietInv, CleanInv, [Next]_vars
    PROVE  CleanInv'
<1>1. CASE UNCHANGED vars
  <2>1. UNCHANGED <<commits, git, request, pc, mem, before, quiet>>
    BY <1>1 DEF vars
  <2>2. ASSUME NEW c \in Calls, quiet'[c], pc'[c] \notin {"start", "done"}, Clean(before[c][1])'
        PROVE  CleanAt(pc[c], git, mem[c], request[c])'
    <3>1. Clean(before[c][1])
      BY <2>1, <2>2 DEF Clean, TreeOf, HeadCommit
    <3>2. CleanAt(pc[c], git, mem[c], request[c])
      BY <2>1, <2>2, <3>1 DEF CleanInv
    <3> QED
      BY <2>1, <3>2 DEF CleanAt, Clean, OnTree, TreeOf, HeadCommit
  <2> QED
    BY <2>2 DEF CleanInv
<1>2. CASE Edit \/ RemoteMoves
  <2>1. UNCHANGED pc /\ Disturbed(None)
    BY <1>2 DEF Edit, RemoteMoves
  <2>2. \A c \in Calls : quiet'[c] => pc[c] \in {"start", "done"}
    BY <2>1, GitAssumption DEF Disturbed
  <2> QED
    BY <2>1, <2>2 DEF CleanInv
<1>3. ASSUME NEW d \in Calls, Call(d)
      PROVE  CleanInv'
  <2>1. /\ Handler(d) /\ request' = request
        /\ quiet' = [c \in Calls |-> quiet[c] /\ (c = d \/ pc[c] \in {"start", "done"})]
        /\ before' = [before EXCEPT ![d] = IF pc'[d] = "done" THEN <<>>
                                           ELSE IF pc[d] = "start" THEN <<git>> ELSE before[d]]
    BY <1>3 DEF Call, Observed, Disturbed
  <2>2. \A c \in Calls \ {d} : quiet'[c] => pc'[c] \in {"start", "done"}
    BY <2>1, Control DEF GitInv
  <2>3. ASSUME quiet'[d], pc'[d] \notin {"start", "done"}, Clean(before[d][1])'
        PROVE  CleanAt(pc[d], git, mem[d], request[d])'
    <3>1. commits' = commits
      BY <2>1, <2>3, CommitsSame DEF GitInv
    <3>2. before'[d][1] = Was(d)
      <4>1. before'[d] = IF pc[d] = "start" THEN <<git>> ELSE before[d]
        BY <2>1, <2>3 DEF GitInv, ShapeInv
      <4>2. CASE pc[d] = "start"
        <5>1. before'[d] = <<git>>
          BY <4>1, <4>2
        <5> QED
          BY <4>2, <5>1, First DEF Was
      <4>3. CASE pc[d] # "start"
        BY <4>1, <4>3 DEF Was
      <4> QED
        BY <4>2, <4>3
    <3>3. Clean(before'[d][1])
      BY <2>3, <3>1 DEF Clean, TreeOf, HeadCommit
    <3>4. quiet[d] /\ Clean(Was(d))
      BY <2>1, <2>3, <3>2, <3>3
    <3>5. pc[d] # "done"
      BY <2>1, Undone
    <3>6. CleanAt(pc'[d], git', mem'[d], request[d])
      BY <2>1, <2>3, <3>4, <3>5, CleanSoFar, CleanStep
    <3> QED
      BY <2>1, <3>1, <3>6 DEF CleanAt, Clean, OnTree, TreeOf, HeadCommit
  <2> QED
    BY <2>2, <2>3 DEF CleanInv
<1> QED
    BY <1>1, <1>2, <1>3 DEF Next

\* Where nothing was changed locally nothing is after an operation that has been alone
\* and reports success, but for the operations that are made to leave a difference.
THEOREM CleanKept == Spec => CleanStaysClean
<1>1. Init => QuietInv /\ CleanInv
    BY DEF Init, QuietInv, Reading, CleanInv
<1>2. GitInv /\ RefInv /\ QuietInv /\ CleanInv /\ [Next]_vars => QuietInv' /\ CleanInv'
    BY QuietStep, CleanGoesOn
<1>3. GitInv /\ RefInv /\ QuietInv /\ CleanInv /\ [Next]_vars =>
        [\A c \in Calls : ReturnsAlone(c, "ok") /\ KeepsClean(c) /\ WasClean(c) => IsClean']_vars
  <2> SUFFICES ASSUME GitInv, RefInv, QuietInv, CleanInv, Next, NEW c \in Calls,
                      ReturnsAlone(c, "ok"), KeepsClean(c), WasClean(c)
               PROVE  IsClean'
    OBVIOUS
  <2>1. pc'[c] # pc[c] /\ pc'[c] = "done" /\ quiet[c] /\ result'[c] = "ok" /\ Clean(Was(c))
    BY DEF ReturnsAlone, Moved, WasClean
  <2>2. Handler(c)
    <3>1. PICK d \in Calls : Call(d)
      BY <2>1 DEF Next, Edit, RemoteMoves
    <3>2. Handler(d)
      BY <3>1 DEF Call, Observed
    <3>3. d = c
      BY <2>1, <3>2, Control DEF GitInv
    <3> QED
      BY <3>2, <3>3
  <2> QED
    BY <2>1, <2>2, CleanSoFar, CleanStep
<1> QED
    BY <1>1, <1>2, <1>3, RefsCorrect, PTL DEF Spec, CleanStaysClean
=============================================================================
