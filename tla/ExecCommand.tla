----------------------------- MODULE ExecCommand -----------------------------
(***************************************************************************)
(* The process layer of fs_exec: execute_command and wait_for_process in   *)
(* fs_tools/support.cpp, called by call_fs_exec.  The HTTP server runs     *)
(* tool calls on several threads of one process, so several calls of       *)
(* execute_command share one descriptor table: a fork copies every pipe    *)
(* end that is open at that moment, those of other calls included (pipe()  *)
(* is used without O_CLOEXEC).                                             *)
(*                                                                         *)
(* Each call opens three pipes, forks, closes the child's ends, starts one *)
(* thread per pipe, polls waitpid until the child is reaped or a deadline  *)
(* passes, kills the child in the second case, joins the threads and       *)
(* returns.  The program that is run is external: it reads its input,      *)
(* writes output, may leave a descendant behind and stops when it likes.   *)
(* Bytes are counted, not named: a pipe is first-in first-out.             *)
(***************************************************************************)
EXTENDS Integers, FiniteSets

CONSTANTS
    Calls,      \* the concurrent calls of execute_command
    PipeCap,    \* how many bytes a pipe buffers
    MaxIn,      \* bound: the longest stdin_text
    MaxOut,     \* bound: how much the program writes to each output
    Statuses,   \* the wait statuses with which a program ends by itself
    Programs,   \* which kinds of program are run: "any", "filter"
    AutoReap,   \* may the server have been started with SIGCHLD ignored?
    MayFail     \* may pipe, fork, exec and thread creation fail?

ASSUME CapAssumption == PipeCap \in Nat \ {0} /\ MaxIn \in Nat /\ MaxOut \in Nat
\* A wait status cannot tell who sent SIGKILL, nor whether 127 came from the
\* program or from the failed exec: these two are left to the server.
ASSUME StatusAssumption ==
    Statuses \subseteq ({"exited", "signaled"} \X Nat)
                        \ {<<"signaled", 9>>, <<"exited", 127>>}
ASSUME ProgramAssumption == Programs \subseteq {"any", "filter"}
ASSUME FaultAssumption == AutoReap \subseteq BOOLEAN /\ MayFail \in BOOLEAN

Pipes == {"in", "out", "err"}
Ends == Calls \X Pipes \X {"r", "w"}

\* All six ends of a call, the three its child works with, and the other three.
Own(c) == {c} \X Pipes \X {"r", "w"}
ChildEnd(c, p) == <<c, p, IF p = "in" THEN "r" ELSE "w">>
ServerEnd(c, p) == <<c, p, IF p = "in" THEN "w" ELSE "r">>

VARIABLES
    pc,         \* where the thread that runs the call is
    outcome,    \* which exception left execute_command, "ok" if none
    result,     \* ExecResult
    timedOut,   \* result.timed_out while wait_for_process runs
    thread,     \* stdin_writer, stdout_reader and stderr_reader of each call
    srv,        \* the pipe ends open in the server process
    child,      \* the process the call forked
    chd,        \* the pipe ends open in the child
    status,     \* the wait status the child ended with
    heir,       \* a descendant that the child started
    kept,       \* the pipe ends open in the descendant
    put,        \* bytes ever written into each pipe
    took,       \* bytes ever read from each pipe
    need,       \* length of stdin_text
    expired,    \* has the deadline of wait_for_process passed?
    prog,       \* the kind of program
    autoReap    \* does the kernel discard the status of dead children?

callVars == <<pc, outcome, result, timedOut>>
procVars == <<child, chd, status, heir, kept>>
dataVars == <<put, took>>
paramVars == <<need, prog, autoReap>>
vars == <<callVars, thread, srv, procVars, dataVars, expired, paramVars>>

PCs == {"start", "pipe_in", "pipe_out", "pipe_err", "fork",
        "close_in", "close_out", "close_err",
        "spawn_in", "spawn_out", "spawn_err",
        "poll", "check", "kill", "reap", "join", "unwind",
        "returned", "failed"}

\* Which program counter a step on pipe p starts from and leads to.
PipeAt == [in |-> "pipe_in", out |-> "pipe_out", err |-> "pipe_err"]
AfterPipe == [in |-> "pipe_out", out |-> "pipe_err", err |-> "fork"]
CloseAt == [in |-> "close_in", out |-> "close_out", err |-> "close_err"]
AfterClose == [in |-> "close_out", out |-> "close_err", err |-> "spawn_in"]
SpawnAt == [in |-> "spawn_in", out |-> "spawn_out", err |-> "spawn_err"]
AfterSpawn == [in |-> "spawn_out", out |-> "spawn_err", err |-> "poll"]

NoStatus == <<"none", 0>>
Killed == <<"signaled", 9>>
ExecFailed == <<"exited", 127>>
NoResult == [exit |-> -1, timed_out |-> FALSE, stdout |-> 0, stderr |-> 0]

Outcomes == {"none", "ok", "rejected", "pipe_failed", "fork_failed",
             "spawn_failed", "wait_failed"}

TypeOK ==
    /\ pc \in [Calls -> PCs]
    /\ outcome \in [Calls -> Outcomes]
    /\ result \in [Calls -> [exit : Int, timed_out : BOOLEAN,
                             stdout : Nat, stderr : Nat]]
    /\ timedOut \in [Calls -> BOOLEAN]
    /\ thread \in [Calls -> [Pipes -> {"off", "run", "done"}]]
    /\ srv \subseteq Ends
    /\ child \in [Calls -> {"none", "forked", "running", "zombie", "gone"}]
    /\ chd \in [Calls -> SUBSET Ends]
    /\ status \in [Calls -> Statuses \cup {NoStatus, Killed, ExecFailed}]
    /\ heir \in [Calls -> {"none", "running", "gone"}]
    /\ kept \in [Calls -> SUBSET Ends]
    /\ put \in [Calls -> [Pipes -> Nat]]
    /\ took \in [Calls -> [Pipes -> Nat]]
    /\ need \in [Calls -> 0..MaxIn]
    /\ expired \in [Calls -> BOOLEAN]
    /\ prog \in [Calls -> Programs]
    /\ autoReap \in AutoReap
    /\ \A c \in Calls, p \in Pipes : took[c][p] <= put[c][p]

Init ==
    /\ pc = [c \in Calls |-> "start"]
    /\ outcome = [c \in Calls |-> "none"]
    /\ result = [c \in Calls |-> NoResult]
    /\ timedOut = [c \in Calls |-> FALSE]
    /\ thread = [c \in Calls |-> [p \in Pipes |-> "off"]]
    /\ srv = {}
    /\ child = [c \in Calls |-> "none"]
    /\ chd = [c \in Calls |-> {}]
    /\ status = [c \in Calls |-> NoStatus]
    /\ heir = [c \in Calls |-> "none"]
    /\ kept = [c \in Calls |-> {}]
    /\ put = [c \in Calls |-> [p \in Pipes |-> 0]]
    /\ took = [c \in Calls |-> [p \in Pipes |-> 0]]
    /\ need \in [Calls -> 0..MaxIn]
    /\ expired = [c \in Calls |-> FALSE]
    /\ prog \in [Calls -> Programs]
    /\ autoReap \in AutoReap

-----------------------------------------------------------------------------
\* What the kernel knows of a pipe.

Held(e) == e \in srv \/ \E c \in Calls : e \in chd[c] \/ e \in kept[c]
Buffered(c, p) == put[c][p] - took[c][p]
CanWrite(c, p) == Buffered(c, p) < PipeCap /\ Held(<<c, p, "r">>)
AtEof(c, p) == Buffered(c, p) = 0 /\ ~Held(<<c, p, "w">>)

Goto(c, l) == pc' = [pc EXCEPT ![c] = l]
Throw(c, l, why) == Goto(c, l) /\ outcome' = [outcome EXCEPT ![c] = why]
Put(c, p) == put' = [put EXCEPT ![c][p] = @ + 1] /\ UNCHANGED took
Take(c, p) == took' = [took EXCEPT ![c][p] = @ + 1] /\ UNCHANGED put

-----------------------------------------------------------------------------
\* The thread that runs the call.

\* call_fs_exec accepts the arguments and calls execute_command ...
Begin(c) ==
    /\ pc[c] = "start"
    /\ Goto(c, "pipe_in")
    /\ UNCHANGED <<outcome, result, timedOut, thread, srv, procVars, dataVars,
                   expired, paramVars>>

\* ... or refuses them: an argv that is empty or not strings, a cwd that is
\* missing or no directory, an env value that is no string.
Reject(c) ==
    /\ pc[c] = "start"
    /\ Throw(c, "failed", "rejected")
    /\ UNCHANGED <<result, timedOut, thread, srv, procVars, dataVars, expired,
                   paramVars>>

OpenPipe(c, p) ==
    /\ pc[c] = PipeAt[p]
    /\ Goto(c, AfterPipe[p])
    /\ srv' = srv \cup {<<c, p, "r">>, <<c, p, "w">>}
    /\ UNCHANGED <<outcome, result, timedOut, thread, procVars, dataVars,
                   expired, paramVars>>

\* Mutant: the error path forgets the pipes already opened.
PipeFailsLeaking(c) ==
    /\ MayFail
    /\ \E p \in Pipes : pc[c] = PipeAt[p]
    /\ Throw(c, "failed", "pipe_failed")
    /\ UNCHANGED <<result, timedOut, thread, srv, procVars, dataVars, expired,
                   paramVars>>

\* pipe() fails (descriptor limit): whatever was opened is closed again.
PipeFails(c) ==
    /\ MayFail
    /\ \E p \in Pipes : pc[c] = PipeAt[p]
    /\ Throw(c, "failed", "pipe_failed")
    /\ srv' = srv \ Own(c)
    /\ UNCHANGED <<result, timedOut, thread, procVars, dataVars, expired,
                   paramVars>>

\* The child starts with a copy of every end the server has open.
Fork(c) ==
    /\ pc[c] = "fork"
    /\ Goto(c, "close_in")
    /\ child' = [child EXCEPT ![c] = "forked"]
    /\ chd' = [chd EXCEPT ![c] = srv]
    /\ UNCHANGED <<outcome, result, timedOut, thread, srv, status, heir, kept,
                   dataVars, expired, paramVars>>

ForkFails(c) ==
    /\ MayFail
    /\ pc[c] = "fork"
    /\ Throw(c, "failed", "fork_failed")
    /\ srv' = srv \ Own(c)
    /\ UNCHANGED <<result, timedOut, thread, procVars, dataVars, expired,
                   paramVars>>

\* The parent closes stdin_pipe[0], stdout_pipe[1], stderr_pipe[1].
CloseChildEnd(c, p) ==
    /\ pc[c] = CloseAt[p]
    /\ Goto(c, AfterClose[p])
    /\ srv' = srv \ {ChildEnd(c, p)}
    /\ UNCHANGED <<outcome, result, timedOut, thread, procVars, dataVars,
                   expired, paramVars>>

\* Mutant: the input is written before the readers are started.
SpawnInTurn(c, p) ==
    /\ pc[c] = SpawnAt[p]
    /\ p # "in" => thread[c]["in"] = "done"
    /\ Goto(c, AfterSpawn[p])
    /\ thread' = [thread EXCEPT ![c][p] = "run"]
    /\ UNCHANGED <<outcome, result, timedOut, srv, procVars, dataVars, expired,
                   paramVars>>

\* One std::jthread per pipe ...
Spawn(c, p) ==
    /\ pc[c] = SpawnAt[p]
    /\ Goto(c, AfterSpawn[p])
    /\ thread' = [thread EXCEPT ![c][p] = "run"]
    /\ UNCHANGED <<outcome, result, timedOut, srv, procVars, dataVars, expired,
                   paramVars>>

\* ... whose constructor may throw: the threads already started are joined by
\* their destructors, nothing closes the other ends and nobody waits for the
\* child.
SpawnFails(c) ==
    /\ MayFail
    /\ \E p \in Pipes : pc[c] = SpawnAt[p]
    /\ Throw(c, "unwind", "spawn_failed")
    /\ UNCHANGED <<result, timedOut, thread, srv, procVars, dataVars, expired,
                   paramVars>>

\* Mutant: the poll does not look at what waitpid returned.
PollBlindly(c) ==
    /\ pc[c] = "poll"
    /\ Goto(c, "check")
    /\ child' = [child EXCEPT ![c] = IF @ = "zombie" THEN "gone" ELSE @]
    /\ UNCHANGED <<outcome, result, timedOut, thread, srv, chd, status, heir,
                   kept, dataVars, expired, paramVars>>

\* waitpid(pid, &status, WNOHANG)
Poll(c) ==
    /\ pc[c] = "poll"
    /\ \/ /\ child[c] = "zombie"
          /\ child' = [child EXCEPT ![c] = "gone"]
          /\ Goto(c, "join")
          /\ UNCHANGED outcome
       \/ /\ child[c] = "gone"
          /\ Throw(c, "unwind", "wait_failed")
          /\ UNCHANGED child
       \/ /\ child[c] \notin {"zombie", "gone"}
          /\ Goto(c, "check")
          /\ UNCHANGED <<outcome, child>>
    /\ UNCHANGED <<result, timedOut, thread, srv, chd, status, heir, kept,
                   dataVars, expired, paramVars>>

CheckDeadline(c) ==
    /\ pc[c] = "check"
    /\ Goto(c, IF expired[c] THEN "kill" ELSE "poll")
    /\ timedOut' = [timedOut EXCEPT ![c] = expired[c]]
    /\ UNCHANGED <<outcome, result, thread, srv, procVars, dataVars, expired,
                   paramVars>>

\* A process dies: its ends are closed, and unless SIGCHLD is ignored it stays
\* a zombie until somebody waits for it.
Die(c, st) ==
    /\ child' = [child EXCEPT ![c] = IF autoReap THEN "gone" ELSE "zombie"]
    /\ chd' = [chd EXCEPT ![c] = {}]
    /\ status' = [status EXCEPT ![c] = st]

\* Mutant: no waitpid after the kill.
KillWithoutWait(c) ==
    /\ pc[c] = "kill"
    /\ Goto(c, "join")
    /\ IF child[c] \in {"forked", "running"}
         THEN Die(c, Killed)
         ELSE UNCHANGED <<child, chd, status>>
    /\ UNCHANGED <<outcome, result, timedOut, thread, srv, heir, kept, dataVars,
                   expired, paramVars>>

\* Mutant: SIGTERM instead of SIGKILL, which the program may ignore.
KillPolitely(c) ==
    /\ pc[c] = "kill"
    /\ Goto(c, "reap")
    /\ UNCHANGED <<outcome, result, timedOut, thread, srv, procVars, dataVars,
                   expired, paramVars>>

\* kill(pid, SIGKILL) reaches the child only: not the descendants it left.
Kill(c) ==
    /\ pc[c] = "kill"
    /\ Goto(c, "reap")
    /\ IF child[c] \in {"forked", "running"}
         THEN Die(c, Killed)
         ELSE UNCHANGED <<child, chd, status>>
    /\ UNCHANGED <<outcome, result, timedOut, thread, srv, heir, kept, dataVars,
                   expired, paramVars>>

\* The blocking waitpid after the kill.
Reap(c) ==
    /\ pc[c] = "reap"
    /\ \/ /\ child[c] = "zombie"
          /\ child' = [child EXCEPT ![c] = "gone"]
          /\ Goto(c, "join")
          /\ UNCHANGED outcome
       \/ /\ child[c] = "gone"
          /\ Throw(c, "unwind", "wait_failed")
          /\ UNCHANGED child
    /\ UNCHANGED <<result, timedOut, thread, srv, chd, status, heir, kept,
                   dataVars, expired, paramVars>>

\* Mutant: the readers are not joined.
JoinedWriter(c) == thread[c]["in"] # "run"

Joined(c) == \A p \in Pipes : thread[c][p] # "run"

\* Mutant: the number of the signal is not offset.
ExitCodeOfSignal(st) == IF st[1] = "none" THEN -1 ELSE st[2]

\* exit_code: -1 for a status that is neither an exit nor a signal.
ExitCode(st) == CASE st[1] = "exited" -> st[2]
                  [] st[1] = "signaled" -> 128 + st[2]
                  [] OTHER -> -1

\* The three joins, then the result is put together.
Return(c) ==
    /\ pc[c] = "join"
    /\ Joined(c)
    /\ Throw(c, "returned", "ok")
    /\ result' = [result EXCEPT ![c] = [exit |-> ExitCode(status[c]),
                                        timed_out |-> timedOut[c],
                                        stdout |-> took[c]["out"],
                                        stderr |-> took[c]["err"]]]
    /\ UNCHANGED <<timedOut, thread, srv, procVars, dataVars, expired, paramVars>>

\* An exception leaves execute_command: the jthread destructors join.
Unwind(c) ==
    /\ pc[c] = "unwind"
    /\ Joined(c)
    /\ Goto(c, "failed")
    /\ UNCHANGED <<outcome, result, timedOut, thread, srv, procVars, dataVars,
                   expired, paramVars>>

-----------------------------------------------------------------------------
\* The pipe threads.

\* write_all_to_fd: one more byte is accepted by the pipe.
WriterPut(c) ==
    /\ thread[c]["in"] = "run"
    /\ put[c]["in"] < need[c]
    /\ CanWrite(c, "in")
    /\ Put(c, "in")
    /\ UNCHANGED <<callVars, thread, srv, procVars, expired, paramVars>>

\* Mutant: a short write is taken for a complete one.
WriterEndsShort(c) ==
    /\ thread[c]["in"] = "run"
    /\ put[c]["in"] > 0 \/ put[c]["in"] = need[c] \/ ~Held(<<c, "in", "r">>)
    /\ thread' = [thread EXCEPT ![c]["in"] = "done"]
    /\ srv' = srv \ {ServerEnd(c, "in")}
    /\ UNCHANGED <<callVars, procVars, dataVars, expired, paramVars>>

\* It ends when everything is written or on EPIPE (SIGPIPE is ignored), and
\* the thread closes its end.
WriterEnds(c) ==
    /\ thread[c]["in"] = "run"
    /\ put[c]["in"] = need[c] \/ ~Held(<<c, "in", "r">>)
    /\ thread' = [thread EXCEPT ![c]["in"] = "done"]
    /\ srv' = srv \ {ServerEnd(c, "in")}
    /\ UNCHANGED <<callVars, procVars, dataVars, expired, paramVars>>

\* read_from_fd: a read returns data ...
ReaderTakes(c, p) ==
    /\ thread[c][p] = "run"
    /\ Buffered(c, p) > 0
    /\ Take(c, p)
    /\ UNCHANGED <<callVars, thread, srv, procVars, expired, paramVars>>

\* Mutant: an empty pipe is taken for the end of the output.
ReaderEndsWhenEmpty(c, p) ==
    /\ thread[c][p] = "run"
    /\ Buffered(c, p) = 0
    /\ thread' = [thread EXCEPT ![c][p] = "done"]
    /\ srv' = srv \ {ServerEnd(c, p)}
    /\ UNCHANGED <<callVars, procVars, dataVars, expired, paramVars>>

\* ... or 0: no process has the write end any more; the thread closes its end.
ReaderEnds(c, p) ==
    /\ thread[c][p] = "run"
    /\ AtEof(c, p)
    /\ thread' = [thread EXCEPT ![c][p] = "done"]
    /\ srv' = srv \ {ServerEnd(c, p)}
    /\ UNCHANGED <<callVars, procVars, dataVars, expired, paramVars>>

-----------------------------------------------------------------------------
\* The child and what becomes of it.

\* dup2 and close between fork and execvp: of its own call the child keeps its
\* three ends, of the ends of other calls it keeps all it inherited.
ChildExec(c) ==
    /\ child[c] = "forked"
    /\ child' = [child EXCEPT ![c] = "running"]
    /\ chd' = [chd EXCEPT ![c] = @ \ {ServerEnd(c, p) : p \in Pipes}]
    /\ UNCHANGED <<callVars, thread, srv, status, heir, kept, dataVars, expired,
                   paramVars>>

\* chdir or execvp fails: _exit(127).
ChildExecFails(c) ==
    /\ MayFail
    /\ child[c] = "forked"
    /\ Die(c, ExecFailed)
    /\ UNCHANGED <<callVars, thread, srv, heir, kept, dataVars, expired,
                   paramVars>>

\* A filter that has begun with an output finishes it before it reads on: it may
\* be blocked in write while its input waits.
ChildReads(c) ==
    /\ child[c] = "running"
    /\ Buffered(c, "in") > 0
    /\ prog[c] = "filter" => \A p \in {"out", "err"} : put[c][p] \in {0, MaxOut}
    /\ Take(c, "in")
    /\ UNCHANGED <<callVars, thread, srv, procVars, expired, paramVars>>

\* The child or its descendant writes output.
Writes(c, p) ==
    /\ \/ child[c] = "running" /\ <<c, p, "w">> \in chd[c]
       \/ heir[c] = "running" /\ <<c, p, "w">> \in kept[c]
    /\ put[c][p] < MaxOut
    /\ CanWrite(c, p)
    /\ Put(c, p)
    /\ UNCHANGED <<callVars, thread, srv, procVars, expired, paramVars>>

\* A program that puts itself, or a part of it, into the background.
ChildLeavesHeir(c) ==
    /\ child[c] = "running" /\ prog[c] = "any" /\ heir[c] = "none"
    /\ heir' = [heir EXCEPT ![c] = "running"]
    /\ kept' = [kept EXCEPT ![c] = chd[c]]
    /\ UNCHANGED <<callVars, thread, srv, child, chd, status, dataVars, expired,
                   paramVars>>

\* A filter (cat, sort, wc) ends when it has seen the end of its input and has
\* written its output; any other program ends when it likes.
ChildEnds(c) ==
    /\ child[c] = "running"
    /\ prog[c] = "filter" => AtEof(c, "in") /\ \A p \in {"out", "err"} :
                                                   put[c][p] = MaxOut
    /\ \E st \in Statuses : Die(c, st)
    /\ UNCHANGED <<callVars, thread, srv, heir, kept, dataVars, expired,
                   paramVars>>

HeirEnds(c) ==
    /\ heir[c] = "running"
    /\ heir' = [heir EXCEPT ![c] = "gone"]
    /\ kept' = [kept EXCEPT ![c] = {}]
    /\ UNCHANGED <<callVars, thread, srv, child, chd, status, dataVars, expired,
                   paramVars>>

\* steady_clock reaches the deadline that wait_for_process computed.
DeadlinePasses(c) ==
    /\ pc[c] \in {"poll", "check"}
    /\ ~expired[c]
    /\ expired' = [expired EXCEPT ![c] = TRUE]
    /\ UNCHANGED <<callVars, thread, srv, procVars, dataVars, paramVars>>

-----------------------------------------------------------------------------
Caller(c) ==
    \/ Begin(c) \/ Reject(c) \/ PipeFails(c) \/ Fork(c) \/ ForkFails(c)
    \/ \E p \in Pipes : OpenPipe(c, p) \/ CloseChildEnd(c, p) \/ Spawn(c, p)
    \/ SpawnFails(c) \/ Poll(c) \/ CheckDeadline(c) \/ Kill(c) \/ Reap(c)
    \/ Return(c) \/ Unwind(c)

Writer(c) == WriterPut(c) \/ WriterEnds(c)
Reader(c, p) == ReaderTakes(c, p) \/ ReaderEnds(c, p)

Child(c) ==
    \/ ChildExec(c) \/ ChildExecFails(c) \/ ChildReads(c) \/ ChildEnds(c)
    \/ \E p \in {"out", "err"} : Writes(c, p)

Next ==
    \E c \in Calls :
        \/ Caller(c)
        \/ Writer(c)
        \/ \E p \in {"out", "err"} : Reader(c, p)
        \/ Child(c)
        \/ ChildLeavesHeir(c)
        \/ HeirEnds(c)
        \/ DeadlinePasses(c)

Spec == Init /\ [][Next]_vars

Faults == {"pipe_failed", "fork_failed", "spawn_failed"}

\* The operating system schedules every thread of the server; nothing makes pipe,
\* fork or the start of a thread fail.
ServerFairness ==
    \A c \in Calls : /\ WF_vars(Caller(c) /\ outcome'[c] \notin Faults)
                     /\ WF_vars(Writer(c))
                     /\ \A p \in {"out", "err"} : WF_vars(Reader(c, p))
FairSpec == Spec /\ ServerFairness

\* The clock goes on.
ClockFairness == \A c \in Calls : WF_vars(DeadlinePasses(c))

\* The programs make progress: in general they may hang, or leave a descendant
\* that hangs.
ProgramFairness == \A c \in Calls : WF_vars(Child(c))

-----------------------------------------------------------------------------
Ended(c) == pc[c] \in {"returned", "failed"}
Outputs == {"out", "err"}

\* A finished call has closed all six pipe ends in the server, on every path
\* through execute_command but the one where std::jthread's constructor throws
\* (nothing closes the remaining ends there).
NoFdLeak ==
    \A c \in Calls :
        Ended(c) /\ outcome[c] # "spawn_failed" => srv \cap Own(c) = {}

\* A finished call has left neither a running child nor a zombie, with the
\* same exception.
NoOrphanChild ==
    \A c \in Calls :
        Ended(c) /\ outcome[c] # "spawn_failed" => child[c] \in {"none", "gone"}

\* The text returned is everything that the child and its descendants ever
\* write: nothing is lost when the child is killed, and nobody can write after
\* the readers have stopped.
OutputComplete ==
    \A c \in Calls :
        pc[c] = "returned" => /\ result[c].stdout = put[c]["out"]
                              /\ result[c].stderr = put[c]["err"]

\* While a call's child or a descendant of it can write to stdout or stderr, the
\* server keeps the read end open, on every path (thrown exceptions included):
\* no program is stopped by a broken pipe.
OutputHasReader ==
    \A c \in Calls : \A p \in Outputs :
        <<c, p, "w">> \in chd[c] \cup kept[c] => <<c, p, "r">> \in srv

\* When wait_for_process calls kill, the process id still belongs to the child: it has
\* not been reaped and cannot have been given to another process.  So it is only while
\* the kernel keeps dead children: in a server that was started with SIGCHLD ignored a
\* child that ends between the poll and the kill is gone at once, nothing in the code
\* guards against it, and kill may hit whoever has the number next.
PidLiveAtKill ==
    \A c \in Calls :
        pc[c] = "kill" /\ ~autoReap => child[c] \in {"forked", "running", "zombie"}

\* A child is killed only after its deadline, and then the caller is told;
\* and timed_out is never reported before the deadline.  (The converse does not
\* hold: a child may end by itself between the last poll and the kill.)
KillMeansTimeout ==
    \A c \in Calls :
        /\ pc[c] = "returned" /\ status[c] = Killed => result[c].timed_out
        /\ result[c].timed_out => expired[c]

\* A filter that ended by itself has read all of stdin_text: no partial write,
\* early close or failed start makes it see a truncated input.
FilterSeesAllInput ==
    \A c \in Calls :
        prog[c] = "filter" /\ status[c] \in Statuses => took[c]["in"] = need[c]

\* Another process than the call's own child keeps one of the call's pipes from
\* ending: a descendant, or the child or descendant of a concurrent call.
HeldByOthers(c) ==
    \E p \in Pipes : \E d \in Calls :
        \/ ChildEnd(c, p) \in kept[d]
        \/ d # c /\ ChildEnd(c, p) \in chd[d]

\* The timeout works: whatever the program does, a call that waits for it ends,
\* unless some process it cannot kill keeps a pipe open for ever.
EndsUnlessHeld ==
    ClockFairness =>
        \A c \in Calls : (pc[c] = "poll") ~> (Ended(c) \/ []HeldByOthers(c))

\* Reading and writing on threads of their own keeps pipes from filling up on
\* both sides: once the filter is started and its threads can be, it ends, and its
\* call returns, without the help of the timeout.
FilterNeedsNoTimeout ==
    ProgramFairness =>
        \A c \in Calls : (pc[c] = SpawnAt["in"] /\ prog[c] = "filter")
                            ~> (Ended(c) \/ expired[c] \/ outcome[c] = "spawn_failed")

\* A call of execute_command is a command as AbstractCommand promises: nothing is
\* written after the answer, which holds everything that ever was, and what a
\* thread, a pipe or a concurrent call does cannot be seen in it.
Phase(c) == CASE pc[c] = "returned" -> "answered"
              [] pc[c] = "failed" -> "failed"
              [] pc[c] \notin {"returned", "failed"} ->
                    IF child[c] = "none" THEN "asked" ELSE "running"
Command == INSTANCE AbstractCommand WITH
    phase <- [c \in Calls |-> Phase(c)],
    written <- [c \in Calls |-> [stdout |-> put[c]["out"], stderr |-> put[c]["err"]]],
    fate <- status,
    late <- expired,
    answer <- result
ImplementsCommand == Command!CommandSpec
=============================================================================
