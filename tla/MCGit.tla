-------------------------------- MODULE MCGit --------------------------------
(***************************************************************************)
(* GitRepo on small histories: one commit, then two branches of it, whose  *)
(* edits of the same file conflict, and what the remote has.               *)
(***************************************************************************)
EXTENDS GitRepo

CONSTANT c1

R(op, name, ref, mode, force) ==
    [op |-> op, name |-> name, ref |-> ref, mode |-> mode, force |-> force]

RequestList ==
    << R("init", "", None, "", FALSE), R("clone", "", None, "", FALSE),
       R("inspect", "HEAD", None, "", FALSE),
       R("add", ".", None, "", FALSE), R("add", "f", None, "", FALSE),
       R("commit", "", None, "", FALSE),
       R("checkout", "main", None, "short", FALSE), R("checkout", "topic", None, "branch", FALSE),
       R("checkout", "topic", None, "branch", TRUE), R("checkout", "v1", None, "tag", FALSE),
       R("checkout", "v1", None, "tag object", FALSE),
       R("branch_create", "topic", "HEAD", "", TRUE), R("branch_create", "topic", "v1", "", FALSE),
       R("branch_delete", "topic", None, "", TRUE), R("branch_delete", "topic", None, "", FALSE),
       R("reset", "", "HEAD", "soft", FALSE), R("reset", "", "v1", "mixed", FALSE),
       R("reset", "", "topic", "hard", FALSE), R("reset", "", "topic", "hard", TRUE),
       R("merge", "topic", None, "", FALSE), R("merge", "topic", None, "", TRUE),
       R("fetch", "topic", None, "", FALSE), R("fetch", "main", None, "+", FALSE),
       R("pull", "", None, "", FALSE), R("pull", "", None, "", TRUE), R("pull", "main", None, "+", FALSE),
       R("push", "main", None, "", FALSE), R("push", "main", None, "+", FALSE),
       R("push", "main", None, "+", TRUE), R("push", "main", None, "none", FALSE),
       R("push", "main", None, "delete", FALSE),
       R("worktree_add", "topic", None, "", FALSE), R("worktree_add", "topic", None, "existing", FALSE),
       R("worktree_add", "side", "topic", "", FALSE), R("worktree_add", "topic", "topic", "v1", FALSE) >>
AllRequests == {RequestList[i] : i \in DOMAIN RequestList}

\* Two calls, in one of the two orders.
AllAsked ==
    {[c \in Calls |-> RequestList[IF c = c1 THEN p[1] ELSE p[2]]] :
        p \in {q \in (DOMAIN RequestList) \X (DOMAIN RequestList) : q[1] <= q[2]}}

PullRequests == {R("pull", "", None, "", FALSE)}
PullAsked == [Calls -> PullRequests]

Content(a, b) == [f \in Files |-> IF f = "f" THEN a ELSE b]
Commit(tree, parents) == [tree |-> tree, parents |-> parents]
History == <<Commit(Content(1, 0), {}), Commit(Content(2, 0), {1}),
             Commit(Content(1, 3), {1}), Commit(Content(4, 0), {1})>>

NoRepository ==
    [here |-> FALSE, origin |-> FALSE, head |-> <<"branch", "main">>,
     tips |-> [b \in Branches |-> 0], tracking |-> 0, index |-> Empty, conflicts |-> {},
     work |-> Empty, merging |-> 0, dir |-> FALSE, admin |-> {},
     linked |-> [b \in Branches |-> None]]
\* A clone with main and topic at their commits, and nothing changed.
At(main, topic) ==
    [NoRepository EXCEPT !.here = TRUE, !.origin = TRUE, !.tracking = 1,
        !.tips["main"] = main, !.tips["topic"] = topic,
        !.index = History[main].tree, !.work = History[main].tree]

\* A clone whose HEAD names a branch that is not there.  The content of its one commit
\* leaves one edit or push up to MaxContent.
Unborn == [At(1, 0) EXCEPT !.head = <<"branch", "topic">>, !.index = Empty, !.work = Empty]
Late == <<Commit(Content(4, 0), {})>>

\* A pull and a merge can fast-forward; both have diverged; a merge conflicts and a
\* push fast-forwards; there is no other branch; there is a file, but no repository.
AllStarts ==
    {[commits |-> History, git |-> At(s[1], s[2]), remote |-> s[3]] :
        s \in {<<1, 3, 4>>, <<2, 3, 4>>, <<2, 4, 1>>, <<1, 0, 1>>}}
    \cup {[commits |-> SubSeq(History, 1, 1), git |-> NoRepository, remote |-> 1],
          [commits |-> SubSeq(History, 1, 1), remote |-> 1,
           git |-> [NoRepository EXCEPT !.work["f"] = 2]],
          [commits |-> Late, git |-> Unborn, remote |-> 1],
          [commits |-> <<>>, git |-> [NoRepository EXCEPT !.here = TRUE], remote |-> 0]}
=============================================================================
