# Verification of criper-mcp

TLA+ modules, model-checking configurations and machine-checked proofs about
criper-mcp, an MCP server that gives its clients file, search, process and git
tools below one root directory.  The modules are written from the C++ code in
`src/src/` and `src/include/`; `PROJECT.json` maps each definition to the lines it
stands for and lists the runs, mutants, findings, hazards and theorems.

Run a check with `tlc -config <cfg> <module>` (for instance
`tlc -config MCExecOne.cfg MCExec`), and the proofs with `tlapm <module>` on the
modules that hold them: `ExecCommandProofs`, `StartupProofs`, `McpServerProofs`,
`GitProofs`, `PathProofs`, `SearchProofs`, `PatchProofs` and `FileProofs`.

## 1. The system

### Components, their state and operations

| component | code | state | operations |
|---|---|---|---|
| startup | `main.cpp` | options while `main` reads them | environment, arguments, create root, sandbox, construct and run the server |
| sandbox | `sandbox.cpp`, `sandbox_setup.cpp` | `mode_`, `supported_`, `active_`, `root_directory_`; in the kernel the Landlock domain of the process | probe, `initialize`, `activate` |
| HTTP and JSON-RPC server | `mcp_server.cpp` | none between requests; httplib has a queue of connections and a pool of threads | health, preflight, POST: one object or a batch |
| dispatcher | `fs_tools/dispatcher.cpp` | none | `FileTools::call`: a tool by its name; every exception becomes a tool error |
| process execution | `fs_exec.cpp`, `execute_command` in `support.cpp` | pipes, child, threads of a call; one descriptor table for all calls | pipes, fork, exec, threads, poll, kill, join |
| text operations | `fs_patch.cpp`, `support.cpp` | the text in memory | replace, insert, delete; first match or all |
| file tools | `fs_patch`, `fs_write`, `fs_read` | the files | read, truncate, write, append, verify |
| search tools | `fs_list`, `fs_find`, `fs_grep`, `fs_tail` | iterator, window, limits of a call | walks and line windows |
| path tools | `fs_stat`, `fs_chmod`, `fs_mkdir`, `fs_copy`, `fs_move`, `fs_remove`, `resolve_path` | the directory tree | check, then act on it |
| git tool | `git.cpp` | the repositories; libgit2's global options; one mutex | sequences of libgit2 calls |
| logging | `logger.hpp`, `debug_log` | a mutex | write a line |

### How they interact

`main` reads its options, restricts the process and only then serves.  httplib
accepts connections and hands them to a pool of threads.  A thread runs one
handler to its end: it parses the body, goes through the entries of a batch one
after another and runs each tool call itself, so a command of `fs_exec` blocks its
thread until it has ended.  The threads share nothing of the program's own but the
log, and they share all that the operating system gives a process: the descriptor
table, the children, the file system.  There is no lock on a file and none on the
descriptor table between `pipe` and `fork`.  A `fork` therefore gives a child the
pipe ends of all other calls, and two calls on one file, one directory or one
repository interleave system call by system call.  The git tool has one mutex,
which only `worktree_add` takes.

### What is hard

* *Processes.*  Each call of `execute_command` has up to four threads in the server,
  a child, and whatever the child leaves behind; pipes fill up on both sides; the
  deadline races the exit of the child; any of `pipe`, `fork`, `exec` and thread
  creation may fail; another call's child holds copies of the pipes.
* *Startup.*  Up to fifteen system calls, each of which may fail, between a process
  that may do anything and one that may do what the mode allows.
* *Batches.*  Errors in the middle, notifications that want no answer, exceptions
  that are not meant to leave a tool and do.
* *Files.*  Read, compute, truncate, write, verify, with other calls in between and
  with a disk that is full.
* *Paths.*  Resolve, look, act: what was looked at may be gone or be something else by
  then; a copy or a removal stops half-way; source and destination lie inside each other.
* *Repositories.*  An operation is several library calls; HEAD, branch, index and
  working tree are changed one after the other, and any call may refuse.
* *Loops over positions*: overlapping matches, replacements that contain the needle,
  windows at both ends of a file, limits that are reached exactly.

`PROJECT.json` lists each hazard at its line, with the properties that cover it.

### What makes each component correct

* startup: the mode that was asked for; served in full or not at all; no ruleset
  left open.
* server: one answer for each entry that wants one, calls in order, no answer lost but
  by text that is no UTF-8; every request is answered, unless a tool call that never ends
  stands in its way.
* process execution: to its caller a command is what `AbstractCommand` says; nothing
  left behind, no input cut off, no broken pipe, no stray kill, and an end.
* text operations: a call is one atomic edit or nothing.
* file tools: a result tells what is on disk; appends survive each other; a read is
  in place.
* search: the first entries that qualify, each with its context, and an honest
  `truncated`.
* path tools: copies and moves land whole; a failed operation loses nothing; a removal
  stays below its path; the tools on one path change nothing outside the root.
* git: HEAD, index and working tree fit together after a success; a failure changes
  nothing; what is in no commit is not lost, and what is in one stays on its branch;
  working trees stay apart.

## 2. The modules

| module | what it is | checked by | proofs |
|---|---|---|---|
| `AbstractCommand` | abstract: what `fs_exec` promises of a command | (refined by `ExecCommand`) | `ExecCommandProofs` |
| `ExecCommand` | `execute_command`, `wait_for_process` and the pipe threads for any number of calls | `MCExec` | `ExecCommandProofs` |
| `Startup` | `main`, `Sandbox::initialize` and `activate` | `MCProcess` | `StartupProofs` |
| `McpServer` | handlers, batches, tool errors, on httplib's pool | `MCProcess` | `McpServerProofs` |
| `Process` | the whole process: `Startup`, and `McpServer` from the time it serves | `MCProcess` | `McpServerProofs` |
| `AtomicPatch` | abstract: what one call of `fs_patch` promises | (refined by `PatchText`) | `PatchProofs` |
| `PatchText` | the loop over the operations and `replace_all` round by round | `MCPatch` | `PatchProofs` |
| `FileRace` | calls of `fs_patch`, `fs_write`, `fs_read` on one file | `MCFile` | `FileProofs` |
| `Search` | walks, window and tail | `MCSearch` | `SearchProofs` |
| `PathTree` | the path tools and `resolve_path` on one tree with links | `MCPath` | `PathProofs` |
| `GitRepo` | the operations of the git tool on one repository and its remote | `MCGit` | `GitProofs` |

Each `MC` module defines the values of the constants for its configurations.  Each
module with a mutant in a comment `Mutant:` defines it just before the operator it
stands in for; it is used by no specification, and `PROJECT.json` names the property
that breaks when it takes that operator's place.

### ExecCommand and AbstractCommand

`pc[c]` is where the thread that runs call `c` is; the names follow the code from
`pipe_in` (the first `pipe`) to `join`.  `thread[c][p]` is the `std::jthread` of a
pipe.  A pipe has two counters, bytes put in and bytes taken, which is all there is
to know of a first-in first-out buffer when the question is what arrives.
`srv`, `chd` and `kept` are the descriptor tables of the server, of each child and
of a descendant the child may leave behind: `Fork` copies `srv` into `chd`, and
`ChildExec` drops the ends of its own call only, as the code does.  The kernel's part
is `Held`, `CanWrite`, `AtEof` and `Die`.

`DeadlinePasses` may happen at any time while the call polls, so every timeout value
and every scheduling delay is included.  `SpawnFails` is `std::jthread`'s constructor
throwing.  That path closes nothing and waits for nobody, so the two cleanliness
properties exclude it and say so: it is a defect of the code, but no document denies
it and the code only gets there when it runs out of threads.
`AutoReap` is a server started with `SIGCHLD` ignored, whose `waitpid` then fails.  The identifier of
its child is free as soon as the child ends, so that `kill` may hit another process, and `PidLiveAtKill`
excludes that start and says so.

The program that is run is external.  `prog = "any"` does what it likes: reads or not,
writes or not, leaves a descendant or not, ends or not.  `prog = "filter"` writes its
output early or late, finishes an output it has begun before it reads on (so a full pipe blocks it while
its input waits), and ends only when it has seen the end of its input.

`AbstractCommand` has no pipes, threads or process ids.  The refinement mapping
(`Command` in `ExecCommand`) takes the phase from `pc` and `child`, the written bytes
from `put`, and the status, the deadline and the answer as they are.  What it rules out is
a write after the answer, an answer that lacks something written, a kill before the deadline,
and a kill that the answer does not tell.

### Startup

`phase` is where `main` is.  `AddRule` is one call of the lambda `add_rule`; `added` counts
rules along `PathList`, the order in which `activate` adds them.  `domain` is what the kernel
enforces.  `Initialize` and the other system calls may fail when `MayFail`.  Words of the
argument list are members of a small set; `PortOk` and `sandbox_mode_from_string` are
the conversions, by what they do to these words.  `ReadEnvironment` has both variables of the
environment: a port or a mode that is none ends the start, and so does a current directory that is gone.

### McpServer

A request carries a `body`: its kind and, for an object or a batch, entries by their
form (which check of `dispatch_request` they fail, or which method they call).  `at[r]` is
the entry the handler has come to.  `outcome` records how a tool call ended, independent of what is
answered.  A tool error quotes its exception, a `filesystem_error` quotes file names,
and these need not be UTF-8; `json::dump` then throws `type_error`, which no `catch` of
`handle_http_request` names, so httplib answers 500.  With the debug log on, that
happens as soon as the response is logged, and the rest of the batch does not run.  A
successful result with such text cannot get that far: `make_tool_result` dumps it
inside `FileTools::call`, which makes a tool error of the exception.  The same happens to a health check
when the name of the root is no UTF-8 (`rootText`), and to a body whose parse error quotes a byte of a letter
(`no_utf8`).

The queue and the pool (`Arrive`, `Accept`) are httplib's and external.  `Serve` is all that a thread does by
itself; the end of a tool call (`EndCall`, `EndCallBadText`) is not part of it, since it need not come.

### Process

`Process` puts the two together: no request comes before `main` serves, and `main` stops only when
no request is left, because httplib's `listen` waits for its threads.  `Watched` bounds the starts after which
there are requests.

### AtomicPatch and PatchText

`AtomicPatch` has one step.  It defines the edits by a scan of the text from the left; `PatchText`
has the code's positions, `find`, `replace` and the cursor of `replace_all`, one step for each round.
The refinement mapping is the identity on `original`, `ops`, `file` and `result`: the other
variables are internal and the steps before `Write` are stutters.

### FileRace

The file is a sequence of pieces, a piece being what one system call moves.  `WriteAt`
leaves a hole when a stream writes behind the end, after another call has truncated the
file.  An edit of `fs_patch` replaces one piece; one that looks for the empty text (`Nothing`) finds it at
the start of any text, an empty one too.  `size` is what `tellg` told a read when it
opened the file.  `held` is a ghost: it records that the file was
exactly the new text at some time after the call opened it.  A hole reads as zero bytes, so a text
with pieces of zero bytes cannot be told from one that has not been written there yet:
`VerifiedMeansHeld` is about texts without such pieces.

Opens, reads and writes may fail, and `bad` is a ghost that records which stream of a call did.  The input
stream of a patch is not looked at: if it cannot be opened, or a read fails, what came before is the text.  Where
the operations find their match in it, or there are none, or one that replaces the empty text, the
file is cut off there and the result says that it is patched.  `AloneHonest` states what is so in that case:
the file is an edited part of what it was.

### Search

The tree is the list of its entries in the order of the iterator, with their depths: `Following`
is the iterator's `++`, with or without `disable_recursion_pending`.  What the pattern matches is a flag of an
entry or a line.

Four kinds of entries make a call fail.  A `denied` directory cannot be opened: the iterator throws when it wants
to go into it, and at once if it is the target.  A `loop` is a link that cannot be followed, because
it leads round in a circle or through a directory that may not be searched: `is_directory` throws in the recursive
loops, and `relative_string` when the entry is to be named.  A `hidden` file lies in a directory that may
be read and not searched, so that it has no status.  `Unseen` has what throws before an entry is
looked at, `NoStat` and `LookFails` what throws when it is offered, for each tool.  The tree stands still.

### PathTree

A path is the sequence of its names, `fs` the node at each path.  `Real` follows every link of a
path, `Spot` all but one at its end, which is the difference between `status` and `symlink_status`.
`normal` is `normalize_client_path` with `lexically_normal`: ".." takes a name away or leads out of the root, and
a path that begins with "/" is read as one below the root, unless it is below it already.  `resolve_path` follows
the longest prefix that exists, as `weakly_canonical` does, and `Escapes` is its check that what
comes out is below the root.  The name `..` (`Up`) in `Names` stands for what is around the root, so that links of a
tree can lead out of it and something is there to be changed.

The tools check and act in separate steps, and two calls mix: `fs_chmod` and `fs_mkdir` resolve
their path in `Begin` and act in `Chmod` and `Mkdir`.  What the library does entry by entry is one step for each
entry: `CopyEntry` for `fs::copy`, `RemoveAll` for `remove_all`, each of which may fail and leave what it has done.
`rename`, `mkdir`, `chmod` and `create_directories` are one step, and act where their path leads by then: a link
that has appeared in a resolved path is followed.  A chain of three links stands for the forty that the kernel
follows; a path with a longer one, or with links that lead to each other, is `Tangled` and cannot be resolved.  A
rename across file systems becomes a copy and a removal, as in `fs_move`.  The umask is assumed to let the mode of a
new directory through.

`OutsideKept` is about the tools on one path and a call that is alone.  The inside of a tree is not resolved: a
copy goes through a link that it finds at a place it copies to, so `fs_copy` and `fs_move` are not part of it; and a call beside
others acts where its path leads by then (`RemovalStaysBelow` says so for removals).

### GitRepo

A step is one call of libgit2 with the checks the library makes (external, modelled by how `git.cpp`
uses it); `git_worktree_add` is three, because its look for `.git/worktrees` and the making of it are
what the mutex of `git.cpp` is for.  A file's content is a number, 0 for no file, and each edit makes
a new number, so that a content can be followed through index, commits and working tree.  `Edit`
changes a file of the working tree beside the calls, `RemoteMoves` is a push of another clone.
A request of `fetch` and `pull` may carry a refspec that sends the remote's branch to one here,
with or without a plus, and one of `push` may have a plus, or nothing on its left, which deletes the branch
there, or be missing; a call has one refspec at the most.  `Push` may fail after the remote has taken the update, when its
answer is lost, and a remote may refuse a branch without an error, since the code sets no callback that is told
of it (`git.cpp:445`).  `mem` is what a handler has read and not yet used.  `before` and `quiet` are ghosts: the
repository when a call began, and whether anything else has happened since.
A linked working tree is only the branch it is on.

## 3. What the runs show

| run | question | instance | result |
|---|---|---|---|
| `exec_one` | does one command implement the abstract one, leave nothing behind, and end; is the timeout needed for a filter? | pipes of 1 byte, 2 bytes of input and of each output, two statuses, all failures, descendant, auto-reap | holds |
| `exec_cross` | and does a filter need the timeout beside another call? | 2 calls, filters, no failures | **violated**: it may |
| `process` | which mode runs, is anything served outside the sandbox, what is answered, and is everybody answered? | all lists of up to 2 of 10 words and of 3 and 4 with a switch or a repeated option, environments with and without mode and port, all kernels and roots, every failure; then 3 requests on 2 threads, one with any body of 2 entries, or any entry between 2 calls, or an error before them; log on and off | holds |
| `startup_readme` | README: strict mode and a kernel without Landlock | the same starts, no failures | **violated** |
| `patch` | is a call atomic? | texts up to 4 letters, needles up to 2, 1 or 2 operations | holds |
| `patch_schema` | schema: `all` and a non-empty `find` | texts with a repeated letter; an insertion at it with `all`, then a replacement of the empty text | **violated** |
| `file` | does a result tell the truth, what does verification show, do appends survive, where is a read? | a file of 3 pieces; any call beside a short one and a read that is refused, or three that append, patch and read; failures of opens, reads and writes | holds |
| `search` | first entries, windows, matches, tails, honest `truncated` | trees of 4 and 5 entries with what cannot be opened or followed, files of up to 7 lines, limits from 0 to beyond the end, context 0 to 3 | holds |
| `path` | do copies and moves land whole, is anything lost, what does a removal reach, what is touched outside? | 7 trees over 3 names and what is around the root, up to 4 deep, with links; 36 requests, each beside a stat, and 14 pairs that act on the same directories; every removal, copy and rename may fail | holds |
| `path_link` | schema: is a link removed? | the same trees and requests | **violated** |
| `git` | is anything lost, do HEAD, index and tree fit, what does a failure leave, do calls end? | any 2 of 35 requests, 8 repositories, edits of one file and pushes of others, the network may fail | holds |
| `git_pull` | "checkout fast-forward": does a pull update the working tree? | 1 pull on the same repositories | **violated** |

### Bounds and why they are enough

* A pipe of one byte is full after one write: with two bytes of input and output both
  sides block, which is the case that matters, and a partial write is one of the two.
* Two calls are the least for which a descriptor table is shared, which is what `exec_cross` is about.  Two calls
  with data, or with programs that do as they like, do not finish in reasonable time.  The safety properties of any
  number of calls with any data and any programs are covered by the proofs; that a command ends is checked of one
  call, with a descendant in the place of the other call's child.
* Two words are an option with its value, a switch and an option without one, or an option whose value looks like
  another option; three put a switch before, and four give an option twice.  The proofs cover lists of any length.
* Requests come after a start without arguments and environment (`PlainStarts`): the server keeps
  nothing of its start but the root and whether it logs, and the run has both values of either.
* An entry between two calls lets an error stand between them, one before two calls a wrong step
  past it be seen; bodies of two let it stand first and last.  Three requests on two threads make one wait.
* Four letters and needles of two over two letters have overlapping, adjacent and nested
  matches, and replacements that contain the needle.
* Three pieces and two calls have every interleaving of two read-modify-writes; a read
  behind the end beside them is refused, empty or not, by when it opens the file.  Three that
  write or read are needed to see what `VerifiedMeansHeld` says: it excludes two *other* calls that
  rewrite the file, since a verification reads piece by piece and may put together, from two
  writers, a text that was never on disk, and a read of the verification that fails.
* Seven lines and a context of up to three cover a window that fits, one that does not,
  and files shorter than it.
* Depth four has room for a copy of a directory into its own source, and for a destination below a
  replaced directory on the way; `MaxDepth` also stands for the longest path of
  the system, where a copy of a directory into itself ends.  What is around the root counts as one level.  The trees
  have a link to a directory, a link in a removed tree, a link that leads nowhere, links that lead to each other, links
  that lead out of the root, to a directory and to a file, and a directory whose place another with a link in it
  can take.  The pairs in `MCPath` are those whose calls meet.
* Four commits are a root, two children that conflict in one file and differ in another, and a
  commit that only the remote has.  `MaxContent` 5 lets there be one edit or one push of others beside
  two calls.  Three branches are one checked out, one to move or link, and one for a second
  working tree.

### Fairness

* `ServerFairness` (ExecCommand): the operating system schedules every thread of the server; a
  thread that can move moves.  Threads blocked in `read` or `write` cannot move, which the guards
  say.  Nothing makes `pipe`, `fork` or the start of a thread fail, so the fairness is of the steps that
  do not (`outcome'[c] \notin Faults`): a run in which they fail for ever is none of its cases.
* `ClockFairness`, that `steady_clock` goes on, is a premise of `EndsUnlessHeld`, and only of it.
  Nothing is assumed of programs there: they may hang.  The one exception is the code's, a
  process it cannot kill that holds a pipe for ever.
* `ProgramFairness`, that programs make progress, is a premise of `FilterNeedsNoTimeout`, where the question
  is whether the timeout is needed, so the clock may stand still.
* `ProcessFairness` (and `ServerFairness` of McpServer): the threads of the pool are scheduled, which is weak fairness
  of `Serve(w)`.  Nothing is assumed of a tool call: it need not end, since `EndsUnlessHeld` has an exception and
  the calls of libgit2 over the network have no timeout.  `EveryRequestAnswered` is therefore conditional: a
  request is answered, or its own call never ends, or every thread is held for ever by such calls while it waits.
  `main` need not stop, and requests arrive as they like.
* `WF_vars(Prepared(c) /\ Observed(c))` (GitRepo): a handler runs on a thread of its own and libgit2's calls
  return.  The mutex of `worktree_add` need not be fair: each of finitely many calls takes it once.
* None in PatchText, FileRace, Search and PathTree: they have no temporal property.

Deadlock is not checked: every instance has a finite number of calls or requests, and stops when
they are done, or when `main` exits.

### Findings

The violated runs above are disagreements between the code and what it or its documents
say; `PROJECT.json` quotes both sides.

* `exec_cross`: the pipes are created without `O_CLOEXEC`, so that a command that reads to the end of
  its input (`cat`, `sort`, `wc`) hangs until its timeout when another `fs_exec` forked at the wrong moment,
  and two such commands hang each other.
* `git_pull`: a pull that fast-forwards moves the branch before it checks the commit out; a safe checkout
  compares with HEAD, which is the target by then, and writes nothing.  The working tree
  keeps the old files, and the next commit of everything undoes what was pulled.
* `startup_readme`: without Landlock `main` exits, where the README says that the server still runs (`README.md:142`);
  and in strict mode three devices are open besides the root, where it says that only the root is
  visible (`README.md:136`).  The code is on the safe side of the first.
* `patch_schema`: `insert_before` and `insert_after` ignore `all` (against the schema at `fs_patch.cpp:38`), and a
  replacement of the empty text without `all` succeeds and puts its text at the start, while every other operation
  refuses it and the schema asks for a non-empty one (`fs_patch.cpp:26`).
* `path_link`: `fs_remove` of a symbolic link (`fs_remove.cpp:20`: "a file, symlink, or directory") removes what the link
  leads to and leaves the link, because `resolve_path` has followed it.

Seen in the same code while the modules were written, and in the modules, but without a run:

* The body and the parameters of a call go to the log before anything is redacted
  (`mcp_server.cpp:278` and `:115`; `README.md:208` says that credentials are redacted).
* `PatchRead` and `OpenToWrite` of FileRace: of two patches of different places both may succeed and verify, and one edit
  is gone, when the second read the file before the first wrote it.  A patch of a file that could not be
  read to its end cuts it off there and reports success.
* `WriteFails` and `ReadOpen` of FileRace: `fs_write` on a full disk and `fs_read` of a file it cannot
  open both return a result.
* `SpawnFails` of ExecCommand: a thread that cannot be started leaves the child and the pipes behind, or ends the process;
  and with `SIGCHLD` ignored at the start every result is an error and `kill` may hit a process that has
  taken the child's identifier.
* `GrepLine` of Search: `fs_grep` says `truncated` when its matches are exactly the limit and nothing is left.
* `Unseen` and `NoStat` of Search: one link that leads round in a circle makes a listing of everything else fail.
* `Clear` of PathTree: a move with overwrite removes the destination first.  If the source lies inside it,
  the source goes with it; if the destination lies inside the source, it is removed for a rename that
  cannot succeed; and if the rename fails, what was there is gone.  A link that leads nowhere does not count as existing and
  is not removed: a rename replaces it, but a move between file systems writes the file through it, to where it
  leads.  `MovedKept` says what remains true.
* `Rename` of PathTree: without overwrite, a destination made after the look is replaced.
* `RemoveAll` of PathTree: a removal resolves its path once; when a directory on it is replaced by a link
  before the removal acts, it acts where the link leads (`RemovalStaysBelow` says so).
* `Push` and `Fetch` of GitRepo: the guard of `push` (`git.cpp:858`) looks for a plus alone, so that a refspec with
  nothing on its left deletes the remote branch without force; the refspecs of `fetch` and `pull` are not looked at, so
  that a plus moves a branch here to anywhere, and one that names the branch checked out moves HEAD and leaves index and tree.
* `CheckoutTree` and `SetHead` of GitRepo: a checkout by a short name or a hash switches the working tree and
  then fails, since `set_head` wants a full name; the name of an annotated tag switches the tree and leaves HEAD.
* `CommitCreate`: the commit after a merge has one parent and leaves `MERGE_HEAD` in place, so that the
  merged branch is not part of the history.
* `CommitTree` reads the index before the parent: a commit that comes in between makes the new one undo it.
* `WriteIndex`: an `add` writes back the index it has read, over what another call has staged.
* `WorktreeBranch` and `Link`: a `worktree_add` that fails leaves the branch or the directory it has made.

## 4. What is proved

TLAPS checks the following for every value of the constants that the named assumptions allow: any
number of calls, requests, threads and branches, any texts, files and trees, any failures.

*ExecCommandProofs.*  `TypeOK` is inductive by itself.  No safety property is; the argument goes
through invariants that build on each other:

1. `CallInv`: the program counter of a call determines which of its threads run, whether it has a
   child and in which state, and its exception.
2. `FdInv`: the server has exactly those ends open that the program counters and threads account
   for.  With 1 it gives `NoFdLeak`; 1 alone gives `NoOrphanChild` and `PidLiveAtKill`.
3. `OutInv`: once a reader has stopped, its pipe is empty and nobody holds the write end.  The lemma
   `ClosedForGood` is the reason: only `pipe` makes a descriptor, so an end that no process holds
   stays closed.  It gives `OutputComplete`, since `Return` joins the readers first.
4. `OwnInv`: only the child or a descendant of a call that has forked holds ends, and a live child
   has its own three.  It gives `OutputHasReader`.
5. `WriterInv`: the writer stops only when all is written or nobody can read.  With 4 it
   gives `FilterSeesAllInput`.
6. `KillInv`: how the flag, the deadline and the status of a call hang together.  It gives `KillMeansTimeout`.

Each invariant is kept step by step, one case for each action; `StepOfDoneReader`,
`StepOfReturnedCall` and `StepOfDoneWriter` say once what any step can do to a part that has finished.
The assumption that matters is `StatusAssumption`: a program does not end by itself with `SIGKILL` or
with 127, which a wait status cannot tell from the server's own kill and from a failed exec.

*ExecCommandProofs, the refinement.*  `EndInv` (a wait status exactly when the child has ended, no descendant before the child) with
`KillInv`, `OutInv` and `FdInv` gives `CommandRefined`: each step of `ExecCommand` is a step of
`AbstractCommand` or leaves all of it unchanged.

*StartupProofs.*  `SandboxInv` says what the phase determines: how many rules, whether the
descriptor is open, and that from `construct` on in a sandboxed mode the domain is the complete
ruleset.  `CompleteRuleset` shows that twelve, or four, rules added in order are the set `FailClosed`
describes.  `ModeInv` gives `ModeAsRequested` for argument lists of any length: the mode so far is that of the
last option the loop has passed, which `AsksFrom` counts from the left as the loop does.

*McpServerProofs.*  `PlaceInv`: a request is at one thread, or once in the queue; httplib's pool gives that, and
the others rest on it.  `RanInv`: the calls that ran are those before the entry the handler has come to; it gives
`CallsInOrder`.  `LossInv` gives `LostOnlyByBadText`.  `MatchInv` gives `AnswersMatchBody`: the responses
there are belong, in order and one each, to the entries done so far that want one; a step appends the
response of the entry it passes or none, and extends the function that says which response is whose.
`ProcessComposed`: a behaviour of `Process` is one of `Startup` and one of `McpServer`, so that all theorems about either
hold of the whole.

*GitProofs.*  `GitInv` has four parts: `ShapeInv` (domains), `OpInv` (a step belongs to its operation), `LockInv`
(between the look for the directory and its making the call has the lock, which gives
`WorktreesTogether`) and `LinkInv` (what `worktree_add` has seen of its branch stays true, because a linked
branch is neither deleted nor linked by anyone without the lock; it gives `LinkedApart`).  `QuietInv`
ties the ghosts to the repository and gives `FailureHarmless`, which excepts the operations whose steps before the
one that fails stay, and a push that was sent.

The action properties about what is kept need more.  `RefInv` types the data: every reference, and every
commit that a call has in its memory, is a commit there is, and parents are older than their children.  From this
`UncommittedKept` follows step by step: a file that a safe checkout or merge writes was, by its refusals, absent
or as it is in a commit.  The lemmas on `Ancestors` (`AncestorsAre`, `AncestorsHold`,
`AncestorsStay`) say that a new commit has its parents' histories and changes nobody else's; with `TipInv`, that a
pull that is about to move a branch has found its tip in the history of the target, they give `BranchesAdvance`, with the refspecs that
no guard looks at as its exceptions.
`CleanInv` says what a lone call that began in a clean repository has read and written so far, and gives
`CleanStaysClean`.

*SearchProofs.*  Every line sequence that is ever built is a range of line numbers (`GrepInv`, `TailInv`),
and each round turns a range into a range: this gives `WindowIsContext` and `TailAsDefined`, and with
`LimitInv` the length of every answer.  The walks are defined by `Chain`, which puts what the entries offer one
behind the other.  `WalkInv`: between two entries the answer is the chain up to there, and nothing that was passed makes
the call fail; the entries that the iterator skips offer nothing.  It gives `WalkAsDefined`.
`GrepWalkInv` has two such levels, the entries and the lines of one file, each cut at the limit, and gives
`GrepAsDefined`.

*PatchProofs.*  `RoundInv` is the heart of the refinement of `AtomicPatch`: within `replace_all`, what is before
the cursor followed by the scan of the rest is the scan of the text the operation started with.  A round keeps it
because the scan from a position on depends only on the text from there on (`ScanSuffix`), copies what
no occurrence touches (`ScanSkips`), and does at an occurrence what the round does (`ScanStep`).  `ProgressInv`
carries this over the list of operations.

*FileProofs.*  `TypeInv` gives each call the places of its tool and the position that fits what it has
read.  `AloneInv` follows a patch that has only reads beside it: until it opens the file to write, the
file is as it was, and what it has read is that or, if its stream failed, a part; then it is a beginning of the new text, as long as the position says; when that is
written, it is the new text.  With what a list of edits makes of a text (`UptoStep`, `EditedPieces`,
`EditedEdges`, by the induction up to a number of `UpTo`) this gives `AloneHonest`.  It also gives the half of
`ReadInPlace` about patches, since at every moment each piece of the file has its place in the old or the new
text (`FilePlaced`); the other half rests on `FileGrows`: appends and reads only ever add to the end.

`AppendInv` gives `AppendsSurvive`: there is a function from the places behind the old text to the pieces
that were accepted, which takes every piece once and each call's in order; an append extends it by one place.
`WatchInv` gives `VerifiedMeansHeld`.  For a patch whose text has not been on disk alone, and beside it one call
that rewrites the file or any number of appends, it has two numbers (`Kept`): how many pieces the other call has
written, and how many of its own the patch had written when the other truncated the file; between them there are
holes.  As long as the file is not the new text, the verification cannot end with `ok` (`Doubt`): the file is longer
than the text, or a piece ahead of the verification is wrong for good, or a hole ahead waits for the other call.

*PathProofs.*  `PathInv` has the types.  Its main part is that the tree stays a tree: what is made is made in a
directory, and what is taken away has nothing below it.  It is the theorem `PathTypes`, for any names,
depths, trees and requests.

`ToolInv` and `WayInv` say which tool comes to which place, and that a lone call finds no link above the paths
it has resolved.  A step that makes nothing but directories and files makes no link; the only step
of a lone call that moves links is its last.  With what `remove_all` can reach this gives `RemovalStaysBelow`.

`CopyInv` compares the tree of a lone call with the one it began with, in five parts: `Kept`, nothing is gone but
what a move clears or removes; `Held`, nothing has come to be in the source; `Apart`, nothing has changed beside the two
paths; `Unmade`, until the first entry is copied nothing is at the destination, unless it was there; and `Landing`,
how far the copy is.  That is `Whole`: what is due is not there yet, what is not there yet is due, and all the rest is
as in the source.  `Chased` is about a destination inside its source, where an entry is always due that will meet its own
copy, so that such a copy does not succeed; `Through` is about a file that is written through a link.  These
parts need each other: that a copied directory has the entries it had in the first tree is `Held`, that nothing is
in the way of the next entry is `Unmade` and `Whole`.  They give `FilesKept`, `MovedKept` and `LandsWhole`.

*Recursion.*  The recursive functions of `AtomicPatch`, `FileRace`, `Search` and `GitRepo` and the loops of `Startup`
are reasoned about by their least counterexample.  `LeastExists`, that a non-empty set of natural numbers has a least
element, follows from a theorem of the library on finite sets that takes no operator as a parameter; each module
that needs it proves it.

The types of `ExecCommand`, `Startup`, `McpServer`, `Search` and `PatchText` are theorems and need no run; those of
`FileRace` and `PathTree` are theorems and checked; that of `GitRepo` is in `ShapeInv` and `RefInv`.

Every safety invariant and every action property that a passing run checks is stated by a theorem, and so are the two
refinements.  Only model-checked are the four liveness properties, `EndsUnlessHeld`, `FilterNeedsNoTimeout`,
`EveryRequestAnswered` and `GitCallsEnd`, since liveness under fairness and `ENABLED` are out of the
prover's reach.

### What the proofs showed about the modules

An invariant that could not be made inductive was each time a state the runs' bounds had left out.  The modules
and properties were corrected, and the instances now have these states:

* `VerifiedMeansHeld` is false of a text with pieces of zero bytes, since the verification takes a hole for one.
* `CleanStaysClean` is false of the creation of the branch that an unborn HEAD names: HEAD then has a commit
  and the working tree has nothing of it.
* A clone goes into a directory that is empty or not there, and is refused otherwise.
* `create_directories`, `chmod` and a copy follow a link that has come to be in a resolved path, and links that lead
  to each other cannot be resolved.
* `MovedKept` has to allow for the file that is written through a link that leads nowhere.

## 5. What is not modelled

* Parsing of arguments and schemas: the modules start from their results.
* The routing of a tool call by its name in the dispatcher, and the status line it prints.
* Regular expressions, case folding, the binary-file heuristic, UTF-8 sanitising: a flag says what
  matches.
* CORS headers, the wording of responses and of log lines; the log itself.
* httplib, nlohmann json, libgit2, std::filesystem, the kernel: external, by how the code uses them.
* Calls of the path tools that name the root itself, and what `relative_string` throws when an answer of theirs is put
  together after the work is done.
* Credentials, signatures and TLS of the git tool, and the files of linked working trees.
* Descriptor numbers: a server that is started without standard descriptors may get a pipe end with the
  number 0, 1 or 2 (`support.cpp:508`).
* A listing of a tree that changes meanwhile, where a file goes between its status and its size (`support.cpp:418`):
  Search walks a tree that stands still.
* More than one refspec in a request of `fetch`, `pull` or `push`, and refspecs with other names on their left.
* What a failed start of a thread leaves behind (`SpawnFails`), and whom `kill` hits when `SIGCHLD` is ignored: both are in
  the module and excepted by its properties.
* What a commit after a merge should be (`git.cpp:800`): the model has what it is, and no document
  says more.

The hazards in `PROJECT.json` that no property covers, or only in part, say why in their notes.

## 6. What could come next

1. Search over a tree that `PathTree`'s calls change, and a listing that meets an entry that has gone.
2. ExecCommand with descriptor numbers, for a server that is started without standard descriptors.
3. An abstract specification of the path tools, which `PathTree` implements for a lone call.
4. `OutsideKept` for copies and moves, with an exact account of the links a copy goes through.
5. Numeric edges: the deadline for timeouts beyond 292 years, the offsets of `fs_read`.
