-------------------------- MODULE ExecCommandProofs --------------------------
(***************************************************************************)
(* What execute_command guarantees for any number of concurrent calls, any *)
(* pipe capacity and any amount of data, and that it implements            *)
(* AbstractCommand.                                                        *)
(***************************************************************************)
EXTENDS ExecCommand, TLAPS

\* Every variable keeps its type, and no pipe gives out more than was put in.
THEOREM TypeCorrect == Spec => []TypeOK
<1> USE CapAssumption, StatusAssumption, ProgramAssumption, FaultAssumption
<1>1. Init => TypeOK
  BY DEF Init, TypeOK, PCs, Outcomes, NoResult, Pipes, Ends
<1>2. TypeOK /\ [Next]_vars => TypeOK'
  <2> SUFFICES ASSUME TypeOK, [Next]_vars PROVE TypeOK'
    OBVIOUS
  <2> USE DEF TypeOK, PCs, Outcomes
  <2>1. CASE UNCHANGED vars
    BY <2>1 DEF vars, callVars, procVars, dataVars, paramVars
  <2>2. ASSUME NEW c \in Calls, Caller(c) PROVE TypeOK'
    <3> USE DEF callVars, procVars, dataVars, paramVars, Goto, Throw
    <3>1. CASE Begin(c)
      BY <3>1 DEF Begin
    <3>2. CASE Reject(c)
      BY <3>2 DEF Reject
    <3>3. CASE PipeFails(c)
      BY <3>3 DEF PipeFails, Own
    <3>4. CASE Fork(c)
      BY <3>4 DEF Fork
    <3>5. CASE ForkFails(c)
      BY <3>5 DEF ForkFails
    <3>6. ASSUME NEW p \in Pipes, OpenPipe(c, p) PROVE TypeOK'
      BY <3>6 DEF OpenPipe, AfterPipe, Pipes, Ends
    <3>7. ASSUME NEW p \in Pipes, CloseChildEnd(c, p) PROVE TypeOK'
      BY <3>7 DEF CloseChildEnd, AfterClose, Pipes
    <3>8. ASSUME NEW p \in Pipes, Spawn(c, p) PROVE TypeOK'
      BY <3>8 DEF Spawn, AfterSpawn, Pipes
    <3>9. CASE SpawnFails(c)
      BY <3>9 DEF SpawnFails
    <3>10. CASE Poll(c)
      <4>1. \/ UNCHANGED child
            \/ child' = [child EXCEPT ![c] = "gone"]
        BY <3>10 DEF Poll
      <4>2. \/ UNCHANGED outcome
            \/ outcome' = [outcome EXCEPT ![c] = "wait_failed"]
        BY <3>10 DEF Poll
      <4>3. \E l \in PCs : pc' = [pc EXCEPT ![c] = l]
        BY <3>10 DEF Poll
      <4>4. child' \in [Calls -> {"none", "forked", "running", "zombie", "gone"}]
        BY <4>1
      <4>5. outcome' \in [Calls -> Outcomes]
        BY <4>2
      <4>6. pc' \in [Calls -> PCs]
        BY <4>3
      <4>7. UNCHANGED <<result, timedOut, thread, srv, chd, status, heir, kept,
                        dataVars, expired, paramVars>>
        BY <3>10 DEF Poll
      <4> QED
        BY <4>4, <4>5, <4>6, <4>7
    <3>11. CASE CheckDeadline(c)
      BY <3>11 DEF CheckDeadline
    <3>12. CASE Kill(c)
      <4>1. CASE child[c] \in {"forked", "running"}
        BY <3>12, <4>1, ZenonT(30) DEF Kill, Die
      <4>2. CASE child[c] \notin {"forked", "running"}
        BY <3>12, <4>2 DEF Kill
      <4> QED
        BY <4>1, <4>2
    <3>13. CASE Reap(c)
      BY <3>13, ZenonT(30) DEF Reap
    <3>14. CASE Return(c)
      <4>1. ExitCode(status[c]) \in Int
        <5>1. status[c] \in {"exited", "signaled"} \X Nat \/ status[c] = NoStatus
          BY DEF Killed, ExecFailed
        <5>2. CASE status[c] = NoStatus
          BY <5>2 DEF ExitCode, NoStatus
        <5>3. CASE status[c] \in {"exited", "signaled"} \X Nat
          <6>1. status[c][1] \in {"exited", "signaled"} /\ status[c][2] \in Nat
            BY <5>3
          <6> QED
            BY <6>1 DEF ExitCode
        <5> QED
          BY <5>1, <5>2, <5>3
      <4>2. /\ took[c]["out"] \in Nat
            /\ took[c]["err"] \in Nat
            /\ timedOut[c] \in BOOLEAN
        BY DEF Pipes
      <4>3. [exit |-> ExitCode(status[c]), timed_out |-> timedOut[c],
             stdout |-> took[c]["out"], stderr |-> took[c]["err"]]
              \in [exit : Int, timed_out : BOOLEAN, stdout : Nat, stderr : Nat]
        BY <4>1, <4>2
      <4> QED
        BY <3>14, <4>3 DEF Return
    <3>15. CASE Unwind(c)
      BY <3>15 DEF Unwind
    <3> HIDE DEF TypeOK, PCs, Outcomes
    <3> QED
      BY <2>2, <3>1, <3>2, <3>3, <3>4, <3>5, <3>6, <3>7, <3>8, <3>9, <3>10,
         <3>11, <3>12, <3>13, <3>14, <3>15 DEF Caller
  <2>3. ASSUME NEW c \in Calls, Writer(c) PROVE TypeOK'
    <3> USE DEF callVars, procVars, dataVars, paramVars
    <3>1. CASE WriterPut(c)
      BY <3>1 DEF WriterPut, Put, Pipes
    <3>2. CASE WriterEnds(c)
      BY <3>2 DEF WriterEnds, Pipes
    <3> QED
      BY <2>3, <3>1, <3>2 DEF Writer
  <2>4. ASSUME NEW c \in Calls, NEW p \in {"out", "err"}, Reader(c, p)
        PROVE TypeOK'
    <3> USE DEF callVars, procVars, dataVars, paramVars
    <3>1. CASE ReaderTakes(c, p)
      BY <3>1 DEF ReaderTakes, Take, Buffered, Pipes
    <3>2. CASE ReaderEnds(c, p)
      BY <3>2 DEF ReaderEnds, Pipes
    <3> QED
      BY <2>4, <3>1, <3>2 DEF Reader
  <2>5. ASSUME NEW c \in Calls, Child(c) PROVE TypeOK'
    <3> USE DEF callVars, procVars, dataVars, paramVars
    <3>1. CASE ChildExec(c)
      BY <3>1 DEF ChildExec
    <3>2. CASE ChildExecFails(c)
      BY <3>2 DEF ChildExecFails, Die
    <3>3. CASE ChildReads(c)
      BY <3>3 DEF ChildReads, Take, Buffered, Pipes
    <3>4. CASE ChildEnds(c)
      BY <3>4 DEF ChildEnds, Die
    <3>5. ASSUME NEW p \in {"out", "err"}, Writes(c, p) PROVE TypeOK'
      BY <3>5 DEF Writes, Put, Pipes
    <3> HIDE DEF TypeOK, PCs, Outcomes
    <3> QED
      BY <2>5, <3>1, <3>2, <3>3, <3>4, <3>5 DEF Child
  <2>6. ASSUME NEW c \in Calls, ChildLeavesHeir(c) PROVE TypeOK'
    BY <2>6 DEF ChildLeavesHeir, callVars, dataVars, paramVars
  <2>7. ASSUME NEW c \in Calls, HeirEnds(c) PROVE TypeOK'
    BY <2>7 DEF HeirEnds, callVars, dataVars, paramVars
  <2>8. ASSUME NEW c \in Calls, DeadlinePasses(c) PROVE TypeOK'
    BY <2>8 DEF DeadlinePasses, callVars, procVars, dataVars, paramVars
  <2> HIDE DEF TypeOK, PCs, Outcomes
  <2> QED
    BY <2>1, <2>2, <2>3, <2>4, <2>5, <2>6, <2>7, <2>8 DEF Next
<1> QED
  BY <1>1, <1>2, PTL DEF Spec

-----------------------------------------------------------------------------
(***************************************************************************)
(* The inductive invariant, in the parts that the theorems below establish *)
(* one after the other.                                                    *)
(***************************************************************************)

Failures == {"rejected", "pipe_failed", "fork_failed", "spawn_failed",
             "wait_failed"}
AfterFork == {"close_in", "close_out", "close_err",
              "spawn_in", "spawn_out", "spawn_err",
              "poll", "check", "kill", "reap", "join", "unwind", "returned"}
Waiting == {"poll", "check", "kill", "reap", "join", "returned"}

\* Where a call can be once the thread of pipe p has been started.
Started == [in |-> Waiting \cup {"spawn_out", "spawn_err", "unwind", "failed"},
            out |-> Waiting \cup {"spawn_err", "unwind", "failed"},
            err |-> Waiting \cup {"unwind", "failed"}]

\* Where a call is while the server has the child's end of pipe p.
Window == [in |-> {"pipe_out", "pipe_err", "fork", "close_in"},
           out |-> {"pipe_err", "fork", "close_in", "close_out"},
           err |-> {"fork", "close_in", "close_out", "close_err"}]

Forked(c) == pc[c] \in AfterFork \/ outcome[c] \in {"spawn_failed", "wait_failed"}

\* Program counter, outcome, threads and child of one call agree.
CallInv ==
    \A c \in Calls :
        /\ pc[c] \notin {"unwind", "returned", "failed"} => outcome[c] = "none"
        /\ pc[c] = "unwind" => outcome[c] \in {"spawn_failed", "wait_failed"}
        /\ pc[c] = "returned" => outcome[c] = "ok"
        /\ pc[c] = "failed" => outcome[c] \in Failures
        /\ child[c] = "none" <=> ~Forked(c)
        /\ \A p \in Pipes : thread[c][p] # "off" => pc[c] \in Started[p]
        /\ \A p \in Pipes :
              (\/ pc[c] \in Started[p] \ {"unwind", "failed"}
               \/ outcome[c] = "wait_failed") => thread[c][p] # "off"
        /\ pc[c] = "returned" \/ (pc[c] = "failed" /\ outcome[c] = "wait_failed")
             => \A p \in Pipes : thread[c][p] = "done"
        /\ pc[c] \in {"join", "returned"} \/ outcome[c] = "wait_failed"
             => child[c] = "gone"
        /\ child[c] = "gone" /\ ~autoReap => pc[c] \in {"join", "returned"}

\* Exactly which ends the server has open.
FdInv ==
    \A c \in Calls, p \in Pipes :
        /\ ChildEnd(c, p) \in srv <=> pc[c] \in Window[p]
        /\ ServerEnd(c, p) \in srv
             <=> pc[c] \in Window[p] \/ (Forked(c) /\ thread[c][p] # "done")

\* What a child and its descendant have of their own call's pipes.
OwnInv ==
    \A c \in Calls :
        /\ chd[c] # {} => child[c] \in {"forked", "running"}
        /\ child[c] \in {"forked", "running"}
             => \A p \in Pipes : ChildEnd(c, p) \in chd[c]
        /\ kept[c] # {} => Forked(c)

\* A reader that has stopped left an empty pipe nobody can write to.
OutInv ==
    \A c \in Calls, p \in Outputs :
        thread[c][p] = "done" => /\ ~Held(<<c, p, "w">>)
                                 /\ put[c][p] = took[c][p]

\* The result is what the readers took.
ResultInv ==
    \A c \in Calls :
        pc[c] = "returned" => /\ result[c].stdout = took[c]["out"]
                              /\ result[c].stderr = took[c]["err"]

-----------------------------------------------------------------------------
\* The program counter of a call tells which of its threads run, whether it has
\* a child and with which exception it ended.
THEOREM CallCorrect == Spec => []CallInv
<1>1. Init => CallInv
  BY DEF Init, CallInv, Forked, AfterFork, Waiting, Started, Pipes
<1>2. TypeOK /\ CallInv /\ [Next]_vars => CallInv'
  <2> SUFFICES ASSUME TypeOK, CallInv, [Next]_vars PROVE CallInv'
    OBVIOUS
  <2>0. /\ pc \in [Calls -> PCs] /\ outcome \in [Calls -> Outcomes]
        /\ thread \in [Calls -> [Pipes -> {"off", "run", "done"}]]
        /\ child \in [Calls -> {"none", "forked", "running", "zombie", "gone"}]
    BY DEF TypeOK
  <2>1. CASE UNCHANGED vars
    BY <2>1, <2>0 DEF vars, callVars, procVars, dataVars, paramVars, CallInv,
       Forked, AfterFork, Waiting, Started, Failures, Pipes, callVars, procVars,
       dataVars, paramVars
  <2>2. ASSUME NEW c \in Calls, Caller(c)
        PROVE  CallInv'
    <3>1. CASE Begin(c)
      BY <3>1, <2>0 DEF Begin, Goto, CallInv, Forked, AfterFork, Waiting,
         Started, Failures, Pipes, callVars, procVars, dataVars, paramVars
    <3>2. CASE Reject(c)
      BY <3>2, <2>0 DEF Reject, Throw, Goto, CallInv, Forked, AfterFork,
         Waiting, Started, Failures, Pipes, callVars, procVars, dataVars,
         paramVars
    <3>3. CASE PipeFails(c)
      BY <3>3, <2>0 DEF PipeFails, PipeAt, Throw, Goto, CallInv, Forked,
         AfterFork, Waiting, Started, Failures, Pipes, callVars, procVars,
         dataVars, paramVars
    <3>4. CASE Fork(c)
      BY <3>4, <2>0 DEF Fork, Goto, CallInv, Forked, AfterFork, Waiting,
         Started, Failures, Pipes, callVars, procVars, dataVars, paramVars
    <3>5. CASE ForkFails(c)
      BY <3>5, <2>0 DEF ForkFails, Throw, Goto, CallInv, Forked, AfterFork,
         Waiting, Started, Failures, Pipes, callVars, procVars, dataVars,
         paramVars
    <3>6. ASSUME NEW p \in Pipes, OpenPipe(c, p) PROVE CallInv'
      BY <3>6, <2>0 DEF OpenPipe, PipeAt, AfterPipe, Goto, CallInv, Forked,
         AfterFork, Waiting, Started, Failures, Pipes, callVars, procVars,
         dataVars, paramVars
    <3>7. ASSUME NEW p \in Pipes, CloseChildEnd(c, p) PROVE CallInv'
      BY <3>7, <2>0 DEF CloseChildEnd, CloseAt, AfterClose, Goto, CallInv,
         Forked, AfterFork, Waiting, Started, Failures, Pipes, callVars,
         procVars, dataVars, paramVars
    <3>8. ASSUME NEW p \in Pipes, Spawn(c, p) PROVE CallInv'
      <4>1. /\ \A d \in Calls : pc'[d] = IF d = c THEN AfterSpawn[p] ELSE pc[d]
            /\ \A d \in Calls, q \in Pipes :
                  thread'[d][q] = IF d = c /\ q = p THEN "run" ELSE thread[d][q]
            /\ UNCHANGED <<outcome, child, autoReap>>
            /\ pc[c] = SpawnAt[p]
        BY <3>8, <2>0 DEF Spawn, Goto, procVars, paramVars
      <4>2. CASE p = "in"
        BY <4>1, <4>2 DEF SpawnAt, AfterSpawn, CallInv, Forked, AfterFork,
           Waiting, Started, Failures, Pipes
      <4>3. CASE p = "out"
        BY <4>1, <4>3 DEF SpawnAt, AfterSpawn, CallInv, Forked, AfterFork,
           Waiting, Started, Failures, Pipes
      <4>4. CASE p = "err"
        BY <4>1, <4>4 DEF SpawnAt, AfterSpawn, CallInv, Forked, AfterFork,
           Waiting, Started, Failures, Pipes
      <4> QED
        BY <4>2, <4>3, <4>4 DEF Pipes
    <3>9. CASE SpawnFails(c)
      BY <3>9, <2>0 DEF SpawnFails, SpawnAt, Throw, Goto, CallInv, Forked,
         AfterFork, Waiting, Started, Failures, Pipes, callVars, procVars,
         dataVars, paramVars
    <3>10. CASE Poll(c)
      BY <3>10, <2>0 DEF Poll, Throw, Goto, CallInv, Forked, AfterFork, Waiting,
         Started, Failures, Pipes, callVars, procVars, dataVars, paramVars
    <3>11. CASE CheckDeadline(c)
      BY <3>11, <2>0 DEF CheckDeadline, Goto, CallInv, Forked, AfterFork,
         Waiting, Started, Failures, Pipes, callVars, procVars, dataVars,
         paramVars
    <3>12. CASE Kill(c)
      BY <3>12, <2>0 DEF Kill, Die, Goto, CallInv, Forked, AfterFork, Waiting,
         Started, Failures, Pipes, callVars, procVars, dataVars, paramVars
    <3>13. CASE Reap(c)
      BY <3>13, <2>0 DEF Reap, Throw, Goto, CallInv, Forked, AfterFork, Waiting,
         Started, Failures, Pipes, callVars, procVars, dataVars, paramVars
    <3>14. CASE Return(c)
      BY <3>14, <2>0 DEF Return, Throw, Goto, Joined, CallInv, Forked,
         AfterFork, Waiting, Started, Failures, Pipes, callVars, procVars,
         dataVars, paramVars
    <3>15. CASE Unwind(c)
      BY <3>15, <2>0 DEF Unwind, Goto, Joined, CallInv, Forked, AfterFork,
         Waiting, Started, Failures, Pipes, callVars, procVars, dataVars,
         paramVars
    <3> QED
      BY <2>2, <3>1, <3>2, <3>3, <3>4, <3>5, <3>6, <3>7, <3>8, <3>9, <3>10,
         <3>11, <3>12, <3>13, <3>14, <3>15 DEF Caller
  <2>3. ASSUME NEW c \in Calls, Writer(c)
        PROVE  CallInv'
    <3>1. CASE WriterPut(c)
      BY <3>1, <2>0 DEF WriterPut, CallInv, Forked, AfterFork, Waiting, Started,
         Failures, Pipes, callVars, procVars, dataVars, paramVars
    <3>2. CASE WriterEnds(c)
      BY <3>2, <2>0 DEF WriterEnds, CallInv, Forked, AfterFork, Waiting,
         Started, Failures, Pipes, callVars, procVars, dataVars, paramVars
    <3> QED
      BY <2>3, <3>1, <3>2 DEF Writer
  <2>4. ASSUME NEW c \in Calls, NEW p \in Outputs, Reader(c, p)
        PROVE  CallInv'
    <3>1. CASE ReaderTakes(c, p)
      BY <3>1, <2>0 DEF ReaderTakes, CallInv, Forked, AfterFork, Waiting,
         Started, Failures, Pipes, callVars, procVars, dataVars, paramVars
    <3>2. CASE ReaderEnds(c, p)
      BY <3>2, <2>0 DEF ReaderEnds, Outputs, CallInv, Forked, AfterFork,
         Waiting, Started, Failures, Pipes, callVars, procVars, dataVars,
         paramVars
    <3> QED
      BY <2>4, <3>1, <3>2 DEF Reader
  <2>5. ASSUME NEW c \in Calls, Child(c)
        PROVE  CallInv'
    <3>1. CASE ChildExec(c)
      BY <3>1, <2>0 DEF ChildExec, CallInv, Forked, AfterFork, Waiting, Started,
         Failures, Pipes, callVars, procVars, dataVars, paramVars
    <3>2. CASE ChildExecFails(c)
      BY <3>2, <2>0 DEF ChildExecFails, Die, CallInv, Forked, AfterFork,
         Waiting, Started, Failures, Pipes, callVars, procVars, dataVars,
         paramVars
    <3>3. CASE ChildReads(c)
      BY <3>3, <2>0 DEF ChildReads, CallInv, Forked, AfterFork, Waiting,
         Started, Failures, Pipes, callVars, procVars, dataVars, paramVars
    <3>4. CASE ChildEnds(c)
      BY <3>4, <2>0 DEF ChildEnds, Die, CallInv, Forked, AfterFork, Waiting,
         Started, Failures, Pipes, callVars, procVars, dataVars, paramVars
    <3>5. ASSUME NEW p \in Outputs, Writes(c, p) PROVE CallInv'
      BY <3>5, <2>0 DEF Writes, CallInv, Forked, AfterFork, Waiting, Started,
         Failures, Pipes, callVars, procVars, dataVars, paramVars
    <3> QED
      BY <2>5, <3>1, <3>2, <3>3, <3>4, <3>5 DEF Child, Outputs
  <2>6. ASSUME NEW c \in Calls, ChildLeavesHeir(c) PROVE CallInv'
    BY <2>6, <2>0 DEF ChildLeavesHeir, CallInv, Forked, AfterFork, Waiting,
       Started, Failures, Pipes, callVars, procVars, dataVars, paramVars
  <2>7. ASSUME NEW c \in Calls, HeirEnds(c) PROVE CallInv'
    BY <2>7, <2>0 DEF HeirEnds, CallInv, Forked, AfterFork, Waiting, Started,
       Failures, Pipes, callVars, procVars, dataVars, paramVars
  <2>8. ASSUME NEW c \in Calls, DeadlinePasses(c) PROVE CallInv'
    BY <2>8, <2>0 DEF DeadlinePasses, CallInv, Forked, AfterFork, Waiting,
       Started, Failures, Pipes, callVars, procVars, dataVars, paramVars
  <2> QED
    BY <2>1, <2>2, <2>3, <2>4, <2>5, <2>6, <2>7, <2>8 DEF Next, Outputs
<1> QED
  BY <1>1, <1>2, TypeCorrect, PTL DEF Spec

-----------------------------------------------------------------------------
\* The ends of two pipes differ, and so do the two ends of one.
LEMMA EndsDistinct ==
    ASSUME NEW c \in Calls, NEW d \in Calls, NEW p \in Pipes, NEW q \in Pipes
    PROVE  /\ ChildEnd(c, p) # ServerEnd(d, q)
           /\ ChildEnd(c, p) = ChildEnd(d, q) => c = d /\ p = q
           /\ ServerEnd(c, p) = ServerEnd(d, q) => c = d /\ p = q
           /\ {<<c, p, "r">>, <<c, p, "w">>} = {ChildEnd(c, p), ServerEnd(c, p)}
           /\ ChildEnd(c, p) \in Own(d) <=> c = d
           /\ ServerEnd(c, p) \in Own(d) <=> c = d
BY DEF ChildEnd, ServerEnd, Own, Pipes

\* The server has exactly those pipe ends open that the program counter and the
\* threads of the calls account for.
THEOREM FdCorrect == Spec => []FdInv
<1>1. Init => FdInv
  BY SMTT(30) DEF Init, FdInv, Forked, AfterFork, Window, Pipes
<1>2. TypeOK /\ CallInv /\ FdInv /\ [Next]_vars => FdInv'
  <2> SUFFICES ASSUME TypeOK, CallInv, FdInv, [Next]_vars PROVE FdInv'
    OBVIOUS
  <2>0. /\ pc \in [Calls -> PCs] /\ outcome \in [Calls -> Outcomes]
        /\ thread \in [Calls -> [Pipes -> {"off", "run", "done"}]]
    BY DEF TypeOK
  <2>1. CASE UNCHANGED vars
    BY <2>1, <2>0, EndsDistinct DEF vars, callVars, procVars, dataVars,
       paramVars, FdInv, CallInv, Forked, AfterFork, Window, Started, Failures,
       Waiting, Pipes, callVars, procVars, dataVars, paramVars
  <2>2. ASSUME NEW c \in Calls, Caller(c)
        PROVE  FdInv'
    <3>1. CASE Begin(c)
      BY <3>1, <2>0, EndsDistinct, SMTT(30) DEF Begin, Goto, FdInv, CallInv, Forked,
         AfterFork, Window, Started, Failures, Waiting, Pipes, callVars,
         procVars, dataVars, paramVars
    <3>2. CASE Reject(c)
      BY <3>2, <2>0, EndsDistinct DEF Reject, Throw, Goto, FdInv, CallInv,
         Forked, AfterFork, Window, Started, Failures, Waiting, Pipes, callVars,
         procVars, dataVars, paramVars
    <3>3. CASE PipeFails(c)
      BY <3>3, <2>0, EndsDistinct, SMTT(30) DEF PipeFails, PipeAt, Throw, Goto, FdInv,
         CallInv, Forked, AfterFork, Window, Started, Failures, Waiting, Pipes,
         callVars, procVars, dataVars, paramVars
    <3>4. CASE Fork(c)
      BY <3>4, <2>0, EndsDistinct DEF Fork, Goto, FdInv, CallInv, Forked,
         AfterFork, Window, Started, Failures, Waiting, Pipes, callVars,
         procVars, dataVars, paramVars
    <3>5. CASE ForkFails(c)
      BY <3>5, <2>0, EndsDistinct DEF ForkFails, Throw, Goto, FdInv, CallInv,
         Forked, AfterFork, Window, Started, Failures, Waiting, Pipes, callVars,
         procVars, dataVars, paramVars
    <3>6. ASSUME NEW p \in Pipes, OpenPipe(c, p) PROVE FdInv'
      <4>1. /\ \A d \in Calls : pc'[d] = IF d = c THEN AfterPipe[p] ELSE pc[d]
            /\ pc[c] = PipeAt[p]
            /\ UNCHANGED outcome
        BY <3>6, <2>0 DEF OpenPipe, Goto
      <4>2. \A d \in Calls, q \in Pipes : thread'[d][q] # "done" <=> thread[d][q] # "done"
        BY <3>6, <2>0, CallInv DEF OpenPipe, SpawnAt, AfterSpawn, Started, Pipes, CallInv, Waiting
      <4>3. \A d \in Calls, q \in Pipes :
              /\ ChildEnd(d, q) \in srv'
                   <=> ChildEnd(d, q) \in srv \/ (d = c /\ q = p)
              /\ ServerEnd(d, q) \in srv'
                   <=> ServerEnd(d, q) \in srv \/ (d = c /\ q = p)
        <5>1. srv' = srv \cup {ChildEnd(c, p), ServerEnd(c, p)}
          BY <3>6, EndsDistinct DEF OpenPipe
        <5> QED
          BY <5>1, EndsDistinct
      <4>4. CASE p = "in"
        BY <4>1, <4>2, <4>3, <4>4 DEF PipeAt, AfterPipe, FdInv, CallInv, Forked, AfterFork,
           Window, Started, Waiting, Pipes
      <4>5. CASE p = "out"
        BY <4>1, <4>2, <4>3, <4>5 DEF PipeAt, AfterPipe, FdInv, CallInv, Forked, AfterFork,
           Window, Started, Waiting, Pipes
      <4>6. CASE p = "err"
        BY <4>1, <4>2, <4>3, <4>6 DEF PipeAt, AfterPipe, FdInv, CallInv, Forked, AfterFork,
           Window, Started, Waiting, Pipes
      <4> QED
        BY <4>4, <4>5, <4>6 DEF Pipes
    <3>7. ASSUME NEW p \in Pipes, CloseChildEnd(c, p) PROVE FdInv'
      <4>1. /\ \A d \in Calls : pc'[d] = IF d = c THEN AfterClose[p] ELSE pc[d]
            /\ pc[c] = CloseAt[p]
            /\ UNCHANGED outcome
        BY <3>7, <2>0 DEF CloseChildEnd, Goto
      <4>2. \A d \in Calls, q \in Pipes : thread'[d][q] # "done" <=> thread[d][q] # "done"
        BY <3>7, <2>0, CallInv DEF CloseChildEnd, SpawnAt, AfterSpawn, Started, Pipes, CallInv, Waiting
      <4>3. \A d \in Calls, q \in Pipes :
              /\ ChildEnd(d, q) \in srv'
                   <=> ChildEnd(d, q) \in srv /\ ~(d = c /\ q = p)
              /\ ServerEnd(d, q) \in srv' <=> ServerEnd(d, q) \in srv
        BY <3>7, EndsDistinct DEF CloseChildEnd
      <4>4. CASE p = "in"
        BY <4>1, <4>2, <4>3, <4>4 DEF CloseAt, AfterClose, FdInv, CallInv, Forked, AfterFork,
           Window, Started, Waiting, Pipes
      <4>5. CASE p = "out"
        BY <4>1, <4>2, <4>3, <4>5 DEF CloseAt, AfterClose, FdInv, CallInv, Forked, AfterFork,
           Window, Started, Waiting, Pipes
      <4>6. CASE p = "err"
        BY <4>1, <4>2, <4>3, <4>6 DEF CloseAt, AfterClose, FdInv, CallInv, Forked, AfterFork,
           Window, Started, Waiting, Pipes
      <4> QED
        BY <4>4, <4>5, <4>6 DEF Pipes
    <3>8. ASSUME NEW p \in Pipes, Spawn(c, p) PROVE FdInv'
      <4>1. /\ \A d \in Calls : pc'[d] = IF d = c THEN AfterSpawn[p] ELSE pc[d]
            /\ pc[c] = SpawnAt[p]
            /\ UNCHANGED outcome
        BY <3>8, <2>0 DEF Spawn, Goto
      <4>2. \A d \in Calls, q \in Pipes : thread'[d][q] # "done" <=> thread[d][q] # "done"
        BY <3>8, <2>0, CallInv DEF Spawn, SpawnAt, AfterSpawn, Started, Pipes, CallInv, Waiting
      <4>3. UNCHANGED srv
        BY <3>8 DEF Spawn
      <4>4. CASE p = "in"
        BY <4>1, <4>2, <4>3, <4>4 DEF SpawnAt, AfterSpawn, FdInv, CallInv, Forked, AfterFork,
           Window, Started, Waiting, Pipes
      <4>5. CASE p = "out"
        BY <4>1, <4>2, <4>3, <4>5 DEF SpawnAt, AfterSpawn, FdInv, CallInv, Forked, AfterFork,
           Window, Started, Waiting, Pipes
      <4>6. CASE p = "err"
        BY <4>1, <4>2, <4>3, <4>6 DEF SpawnAt, AfterSpawn, FdInv, CallInv, Forked, AfterFork,
           Window, Started, Waiting, Pipes
      <4> QED
        BY <4>4, <4>5, <4>6 DEF Pipes
    <3>9. CASE SpawnFails(c)
      BY <3>9, <2>0, EndsDistinct, SMTT(30) DEF SpawnFails, SpawnAt, Throw, Goto, FdInv,
         CallInv, Forked, AfterFork, Window, Started, Failures, Waiting, Pipes,
         callVars, procVars, dataVars, paramVars
    <3>10. CASE Poll(c)
      <4>1. /\ \A d \in Calls \ {c} : pc'[d] = pc[d] /\ outcome'[d] = outcome[d]
            /\ pc[c] \in {"poll", "reap"} /\ pc'[c] \in {"join", "unwind", "check"}
            /\ UNCHANGED <<srv, thread>>
        BY <3>10, <2>0 DEF Poll, Throw, Goto
      <4>2. \A d \in Calls : (Forked(d)' <=> Forked(d))
                             /\ \A p \in Pipes : pc'[d] \in Window[p] <=> pc[d] \in Window[p]
        BY <4>1 DEF Forked, AfterFork, Window, Pipes
      <4> QED
        BY <4>1, <4>2 DEF FdInv
    <3>11. CASE CheckDeadline(c)
      BY <3>11, <2>0, EndsDistinct, SMTT(30) DEF CheckDeadline, Goto, FdInv, CallInv,
         Forked, AfterFork, Window, Started, Failures, Waiting, Pipes, callVars,
         procVars, dataVars, paramVars
    <3>12. CASE Kill(c)
      BY <3>12, <2>0, EndsDistinct, SMTT(30) DEF Kill, Die, Goto, FdInv, CallInv, Forked,
         AfterFork, Window, Started, Failures, Waiting, Pipes, callVars,
         procVars, dataVars, paramVars
    <3>13. CASE Reap(c)
      <4>1. /\ \A d \in Calls \ {c} : pc'[d] = pc[d] /\ outcome'[d] = outcome[d]
            /\ pc[c] \in {"poll", "reap"} /\ pc'[c] \in {"join", "unwind", "check"}
            /\ UNCHANGED <<srv, thread>>
        BY <3>13, <2>0 DEF Reap, Throw, Goto
      <4>2. \A d \in Calls : (Forked(d)' <=> Forked(d))
                             /\ \A p \in Pipes : pc'[d] \in Window[p] <=> pc[d] \in Window[p]
        BY <4>1 DEF Forked, AfterFork, Window, Pipes
      <4> QED
        BY <4>1, <4>2 DEF FdInv
    <3>14. CASE Return(c)
      BY <3>14, <2>0, EndsDistinct DEF Return, Throw, Goto, Joined, FdInv,
         CallInv, Forked, AfterFork, Window, Started, Failures, Waiting, Pipes,
         callVars, procVars, dataVars, paramVars
    <3>15. CASE Unwind(c)
      BY <3>15, <2>0, EndsDistinct DEF Unwind, Goto, Joined, FdInv, CallInv,
         Forked, AfterFork, Window, Started, Failures, Waiting, Pipes, callVars,
         procVars, dataVars, paramVars
    <3> QED
      BY <2>2, <3>1, <3>2, <3>3, <3>4, <3>5, <3>6, <3>7, <3>8, <3>9, <3>10,
         <3>11, <3>12, <3>13, <3>14, <3>15 DEF Caller
  <2>3. ASSUME NEW c \in Calls, Writer(c)
        PROVE  FdInv'
    <3>1. CASE WriterPut(c)
      BY <3>1, <2>0, EndsDistinct DEF WriterPut, FdInv, CallInv, Forked,
         AfterFork, Window, Started, Failures, Waiting, Pipes, callVars,
         procVars, dataVars, paramVars
    <3>2. CASE WriterEnds(c)
      BY <3>2, <2>0, EndsDistinct DEF WriterEnds, FdInv, CallInv, Forked,
         AfterFork, Window, Started, Failures, Waiting, Pipes, callVars,
         procVars, dataVars, paramVars
    <3> QED
      BY <2>3, <3>1, <3>2 DEF Writer
  <2>4. ASSUME NEW c \in Calls, NEW p \in Outputs, Reader(c, p)
        PROVE  FdInv'
    <3>1. CASE ReaderTakes(c, p)
      BY <3>1, <2>0, EndsDistinct DEF ReaderTakes, FdInv, CallInv, Forked,
         AfterFork, Window, Started, Failures, Waiting, Pipes, callVars,
         procVars, dataVars, paramVars
    <3>2. CASE ReaderEnds(c, p)
      BY <3>2, <2>0, EndsDistinct DEF ReaderEnds, Outputs, FdInv, CallInv,
         Forked, AfterFork, Window, Started, Failures, Waiting, Pipes, callVars,
         procVars, dataVars, paramVars
    <3> QED
      BY <2>4, <3>1, <3>2 DEF Reader
  <2>5. ASSUME NEW c \in Calls, Child(c)
        PROVE  FdInv'
    <3>1. CASE ChildExec(c)
      BY <3>1, <2>0, EndsDistinct DEF ChildExec, FdInv, CallInv, Forked,
         AfterFork, Window, Started, Failures, Waiting, Pipes, callVars,
         procVars, dataVars, paramVars
    <3>2. CASE ChildExecFails(c)
      BY <3>2, <2>0, EndsDistinct DEF ChildExecFails, Die, FdInv, CallInv,
         Forked, AfterFork, Window, Started, Failures, Waiting, Pipes, callVars,
         procVars, dataVars, paramVars
    <3>3. CASE ChildReads(c)
      BY <3>3, <2>0, EndsDistinct DEF ChildReads, FdInv, CallInv, Forked,
         AfterFork, Window, Started, Failures, Waiting, Pipes, callVars,
         procVars, dataVars, paramVars
    <3>4. CASE ChildEnds(c)
      BY <3>4, <2>0, EndsDistinct DEF ChildEnds, Die, FdInv, CallInv, Forked,
         AfterFork, Window, Started, Failures, Waiting, Pipes, callVars,
         procVars, dataVars, paramVars
    <3>5. ASSUME NEW p \in Outputs, Writes(c, p) PROVE FdInv'
      BY <3>5, <2>0, EndsDistinct DEF Writes, FdInv, CallInv, Forked, AfterFork,
         Window, Started, Failures, Waiting, Pipes, callVars, procVars,
         dataVars, paramVars
    <3> QED
      BY <2>5, <3>1, <3>2, <3>3, <3>4, <3>5 DEF Child, Outputs
  <2>6. ASSUME NEW c \in Calls, ChildLeavesHeir(c) PROVE FdInv'
    BY <2>6, <2>0, EndsDistinct DEF ChildLeavesHeir, FdInv, CallInv, Forked,
       AfterFork, Window, Started, Failures, Waiting, Pipes, callVars, procVars,
       dataVars, paramVars
  <2>7. ASSUME NEW c \in Calls, HeirEnds(c) PROVE FdInv'
    BY <2>7, <2>0, EndsDistinct DEF HeirEnds, FdInv, CallInv, Forked, AfterFork,
       Window, Started, Failures, Waiting, Pipes, callVars, procVars, dataVars,
       paramVars
  <2>8. ASSUME NEW c \in Calls, DeadlinePasses(c) PROVE FdInv'
    BY <2>8, <2>0, EndsDistinct DEF DeadlinePasses, FdInv, CallInv, Forked,
       AfterFork, Window, Started, Failures, Waiting, Pipes, callVars, procVars,
       dataVars, paramVars
  <2> QED
    BY <2>1, <2>2, <2>3, <2>4, <2>5, <2>6, <2>7, <2>8 DEF Next, Outputs
<1> QED
  BY <1>1, <1>2, TypeCorrect, CallCorrect, PTL DEF Spec

-----------------------------------------------------------------------------
\* Whatever fails, a call that has ended has left no descriptor open in the
\* server, unless a thread could not be started.
THEOREM NoDescriptorLeak == Spec => []NoFdLeak
<1>1. CallInv /\ FdInv => NoFdLeak
  <2> SUFFICES ASSUME CallInv, FdInv, NEW c \in Calls, Ended(c),
                      outcome[c] # "spawn_failed", NEW e \in Own(c), e \in srv
               PROVE  FALSE
    BY DEF NoFdLeak
  <2>1. PICK p \in Pipes : e = ChildEnd(c, p) \/ e = ServerEnd(c, p)
    BY DEF Own, ChildEnd, ServerEnd, Pipes
  <2>2. pc[c] \notin Window[p]
    BY DEF Ended, Window, Pipes
  <2>3. ~(Forked(c) /\ thread[c][p] # "done")
    BY DEF Ended, Forked, AfterFork, Failures, CallInv
  <2> QED
    BY <2>1, <2>2, <2>3 DEF FdInv
<1> QED
  BY <1>1, CallCorrect, FdCorrect, PTL

\* With the same exception, a call that has ended has waited for its child.
THEOREM NoOrphan == Spec => []NoOrphanChild
<1>1. CallInv => NoOrphanChild
  BY DEF CallInv, NoOrphanChild, Ended, Forked, AfterFork, Failures
<1> QED
  BY <1>1, CallCorrect, PTL

\* kill is never called with the identifier of a process that was waited for.
THEOREM NoStrayKill == Spec => []PidLiveAtKill
<1>1. TypeOK /\ CallInv => PidLiveAtKill
  BY ZenonT(30) DEF TypeOK, CallInv, PidLiveAtKill, Forked, AfterFork
<1> QED
  BY <1>1, TypeCorrect, CallCorrect, PTL

-----------------------------------------------------------------------------
\* An end that no process has open stays closed: pipe() is the only source.
LEMMA ClosedForGood ==
    ASSUME TypeOK, [Next]_vars, NEW e, ~Held(e),
           \A c \in Calls, p \in Pipes :
              OpenPipe(c, p) => e \notin {<<c, p, "r">>, <<c, p, "w">>}
    PROVE  ~Held(e)'
<1>0. /\ chd \in [Calls -> SUBSET Ends] /\ kept \in [Calls -> SUBSET Ends]
  BY DEF TypeOK
<1>1. CASE UNCHANGED vars
  BY <1>1, <1>0 DEF vars, callVars, procVars, dataVars, paramVars, Held,
     callVars, procVars, dataVars, paramVars
<1>2. ASSUME NEW c \in Calls, Caller(c)
      PROVE  ~Held(e)'
  <2>1. CASE Begin(c)
    BY <2>1, <1>0 DEF Begin, Held, callVars, procVars, dataVars, paramVars
  <2>2. CASE Reject(c)
    BY <2>2, <1>0 DEF Reject, Held, callVars, procVars, dataVars, paramVars
  <2>3. CASE PipeFails(c)
    BY <2>3, <1>0 DEF PipeFails, Held, callVars, procVars, dataVars, paramVars
  <2>4. CASE Fork(c)
    BY <2>4, <1>0 DEF Fork, Held, callVars, procVars, dataVars, paramVars
  <2>5. CASE ForkFails(c)
    BY <2>5, <1>0 DEF ForkFails, Held, callVars, procVars, dataVars, paramVars
  <2>6. ASSUME NEW p \in Pipes, OpenPipe(c, p) PROVE ~Held(e)'
    BY <2>6, <1>0 DEF OpenPipe, Held, callVars, procVars, dataVars, paramVars
  <2>7. ASSUME NEW p \in Pipes, CloseChildEnd(c, p) PROVE ~Held(e)'
    BY <2>7, <1>0 DEF CloseChildEnd, Held, callVars, procVars, dataVars,
       paramVars
  <2>8. ASSUME NEW p \in Pipes, Spawn(c, p) PROVE ~Held(e)'
    BY <2>8, <1>0 DEF Spawn, Held, callVars, procVars, dataVars, paramVars
  <2>9. CASE SpawnFails(c)
    BY <2>9, <1>0 DEF SpawnFails, Held, callVars, procVars, dataVars,
       paramVars
  <2>10. CASE Poll(c)
    BY <2>10, <1>0 DEF Poll, Held, callVars, procVars, dataVars, paramVars
  <2>11. CASE CheckDeadline(c)
    BY <2>11, <1>0 DEF CheckDeadline, Held, callVars, procVars, dataVars,
       paramVars
  <2>12. CASE Kill(c)
    BY <2>12, <1>0 DEF Kill, Die, Held, callVars, procVars, dataVars,
       paramVars
  <2>13. CASE Reap(c)
    BY <2>13, <1>0 DEF Reap, Held, callVars, procVars, dataVars, paramVars
  <2>14. CASE Return(c)
    BY <2>14, <1>0 DEF Return, Held, callVars, procVars, dataVars, paramVars
  <2>15. CASE Unwind(c)
    BY <2>15, <1>0 DEF Unwind, Held, callVars, procVars, dataVars, paramVars
  <2> QED
    BY <1>2, <2>1, <2>2, <2>3, <2>4, <2>5, <2>6, <2>7, <2>8, <2>9, <2>10,
       <2>11, <2>12, <2>13, <2>14, <2>15 DEF Caller
<1>3. ASSUME NEW c \in Calls, Writer(c)
      PROVE  ~Held(e)'
  <2>1. CASE WriterPut(c)
    BY <2>1, <1>0 DEF WriterPut, Held, callVars, procVars, dataVars, paramVars
  <2>2. CASE WriterEnds(c)
    BY <2>2, <1>0 DEF WriterEnds, Held, callVars, procVars, dataVars,
       paramVars
  <2> QED
    BY <1>3, <2>1, <2>2 DEF Writer
<1>4. ASSUME NEW c \in Calls, NEW p \in Outputs, Reader(c, p)
      PROVE  ~Held(e)'
  <2>1. CASE ReaderTakes(c, p)
    BY <2>1, <1>0 DEF ReaderTakes, Held, callVars, procVars, dataVars,
       paramVars
  <2>2. CASE ReaderEnds(c, p)
    BY <2>2, <1>0 DEF ReaderEnds, Held, callVars, procVars, dataVars,
       paramVars
  <2> QED
    BY <1>4, <2>1, <2>2 DEF Reader
<1>5. ASSUME NEW c \in Calls, Child(c)
      PROVE  ~Held(e)'
  <2>1. CASE ChildExec(c)
    BY <2>1, <1>0 DEF ChildExec, Held, callVars, procVars, dataVars, paramVars
  <2>2. CASE ChildExecFails(c)
    BY <2>2, <1>0 DEF ChildExecFails, Die, Held, callVars, procVars, dataVars,
       paramVars
  <2>3. CASE ChildReads(c)
    BY <2>3, <1>0 DEF ChildReads, Held, callVars, procVars, dataVars,
       paramVars
  <2>4. CASE ChildEnds(c)
    BY <2>4, <1>0 DEF ChildEnds, Die, Held, callVars, procVars, dataVars,
       paramVars
  <2>5. ASSUME NEW p \in Outputs, Writes(c, p) PROVE ~Held(e)'
    BY <2>5, <1>0 DEF Writes, Held, callVars, procVars, dataVars, paramVars
  <2> QED
    BY <1>5, <2>1, <2>2, <2>3, <2>4, <2>5 DEF Child, Outputs
<1>6. ASSUME NEW c \in Calls, ChildLeavesHeir(c) PROVE ~Held(e)'
  BY <1>6, <1>0 DEF ChildLeavesHeir, Held, callVars, procVars, dataVars,
     paramVars
<1>7. ASSUME NEW c \in Calls, HeirEnds(c) PROVE ~Held(e)'
  BY <1>7, <1>0 DEF HeirEnds, Held, callVars, procVars, dataVars, paramVars
<1>8. ASSUME NEW c \in Calls, DeadlinePasses(c) PROVE ~Held(e)'
  BY <1>8, <1>0 DEF DeadlinePasses, Held, callVars, procVars, dataVars,
     paramVars
<1> QED
  BY <1>1, <1>2, <1>3, <1>4, <1>5, <1>6, <1>7, <1>8 DEF Next, Outputs

\* What a step can do to a reader that has stopped after it: it had stopped
\* before, or it stops now at the end of the output; its pipe is left alone.
DoneStep(d, q) ==
    thread'[d][q] = "done" =>
        /\ thread[d][q] = "done" \/ AtEof(d, q)
        /\ put'[d][q] = put[d][q] /\ took'[d][q] = took[d][q]

\* What a step can do to the reader of one pipe once it has stopped: nothing is
\* put into its pipe or taken from it, and it stops only at the end of the output.
LEMMA StepOfDoneReader ==
    ASSUME TypeOK, OutInv, [Next]_vars, NEW d \in Calls, NEW q \in Outputs
    PROVE  DoneStep(d, q)
<1>0. /\ thread \in [Calls -> [Pipes -> {"off", "run", "done"}]]
      /\ put \in [Calls -> [Pipes -> Nat]] /\ took \in [Calls -> [Pipes -> Nat]]
      /\ d \in Calls /\ q \in Outputs
  BY DEF TypeOK
<1>1. CASE UNCHANGED vars
  BY <1>1, <1>0 DEF vars, callVars, procVars, dataVars, paramVars, DoneStep,
     callVars, procVars, dataVars, paramVars
<1>2. ASSUME NEW c \in Calls, Caller(c)
      PROVE  DoneStep(d, q)
  <2>1. CASE Begin(c)
    BY <2>1, <1>0 DEF Begin, DoneStep, callVars, procVars, dataVars, paramVars
  <2>2. CASE Reject(c)
    BY <2>2, <1>0 DEF Reject, DoneStep, callVars, procVars, dataVars,
       paramVars
  <2>3. CASE PipeFails(c)
    BY <2>3, <1>0 DEF PipeFails, DoneStep, callVars, procVars, dataVars,
       paramVars
  <2>4. CASE Fork(c)
    BY <2>4, <1>0 DEF Fork, DoneStep, callVars, procVars, dataVars, paramVars
  <2>5. CASE ForkFails(c)
    BY <2>5, <1>0 DEF ForkFails, DoneStep, callVars, procVars, dataVars,
       paramVars
  <2>6. ASSUME NEW p \in Pipes, OpenPipe(c, p) PROVE DoneStep(d, q)
    BY <2>6, <1>0 DEF OpenPipe, DoneStep, callVars, procVars, dataVars,
       paramVars
  <2>7. ASSUME NEW p \in Pipes, CloseChildEnd(c, p) PROVE DoneStep(d, q)
    BY <2>7, <1>0 DEF CloseChildEnd, DoneStep, callVars, procVars, dataVars,
       paramVars
  <2>8. ASSUME NEW p \in Pipes, Spawn(c, p) PROVE DoneStep(d, q)
    BY <2>8, <1>0 DEF Spawn, Outputs, Pipes, DoneStep, callVars, procVars,
       dataVars, paramVars
  <2>9. CASE SpawnFails(c)
    BY <2>9, <1>0 DEF SpawnFails, DoneStep, callVars, procVars, dataVars,
       paramVars
  <2>10. CASE Poll(c)
    BY <2>10, <1>0 DEF Poll, DoneStep, callVars, procVars, dataVars, paramVars
  <2>11. CASE CheckDeadline(c)
    BY <2>11, <1>0 DEF CheckDeadline, DoneStep, callVars, procVars, dataVars,
       paramVars
  <2>12. CASE Kill(c)
    BY <2>12, <1>0 DEF Kill, DoneStep, callVars, procVars, dataVars, paramVars
  <2>13. CASE Reap(c)
    BY <2>13, <1>0 DEF Reap, DoneStep, callVars, procVars, dataVars, paramVars
  <2>14. CASE Return(c)
    BY <2>14, <1>0 DEF Return, DoneStep, callVars, procVars, dataVars,
       paramVars
  <2>15. CASE Unwind(c)
    BY <2>15, <1>0 DEF Unwind, DoneStep, callVars, procVars, dataVars,
       paramVars
  <2> QED
    BY <1>2, <2>1, <2>2, <2>3, <2>4, <2>5, <2>6, <2>7, <2>8, <2>9, <2>10,
       <2>11, <2>12, <2>13, <2>14, <2>15 DEF Caller
<1>3. ASSUME NEW c \in Calls, Writer(c)
      PROVE  DoneStep(d, q)
  <2>1. CASE WriterPut(c)
    BY <2>1, <1>0 DEF WriterPut, Put, Outputs, Pipes, DoneStep, callVars,
       procVars, dataVars, paramVars
  <2>2. CASE WriterEnds(c)
    BY <2>2, <1>0 DEF WriterEnds, Outputs, Pipes, DoneStep, callVars,
       procVars, dataVars, paramVars
  <2> QED
    BY <1>3, <2>1, <2>2 DEF Writer
<1>4. ASSUME NEW c \in Calls, NEW p \in Outputs, Reader(c, p)
      PROVE  DoneStep(d, q)
  <2>1. CASE ReaderTakes(c, p)
    BY <2>1, <1>0 DEF ReaderTakes, Take, Outputs, Pipes, DoneStep, callVars,
       procVars, dataVars, paramVars
  <2>2. CASE ReaderEnds(c, p)
    BY <2>2, <1>0 DEF ReaderEnds, Outputs, Pipes, DoneStep, callVars,
       procVars, dataVars, paramVars
  <2> QED
    BY <1>4, <2>1, <2>2 DEF Reader
<1>5. ASSUME NEW c \in Calls, Child(c)
      PROVE  DoneStep(d, q)
  <2>1. CASE ChildExec(c)
    BY <2>1, <1>0 DEF ChildExec, DoneStep, callVars, procVars, dataVars,
       paramVars
  <2>2. CASE ChildExecFails(c)
    BY <2>2, <1>0 DEF ChildExecFails, DoneStep, callVars, procVars, dataVars,
       paramVars
  <2>3. CASE ChildReads(c)
    BY <2>3, <1>0 DEF ChildReads, Take, Outputs, Pipes, DoneStep, callVars,
       procVars, dataVars, paramVars
  <2>4. CASE ChildEnds(c)
    BY <2>4, <1>0 DEF ChildEnds, DoneStep, callVars, procVars, dataVars,
       paramVars
  <2>5. ASSUME NEW p \in Outputs, Writes(c, p) PROVE DoneStep(d, q)
    <3>1. thread[c][p] # "done" /\ UNCHANGED <<thread, took>>
      BY <2>5 DEF Writes, Put, OutInv, Held, callVars, procVars, dataVars, paramVars
    <3>2. d # c \/ q # p => put'[d][q] = put[d][q]
      BY <2>5, <1>0 DEF Writes, Put, Outputs, Pipes
    <3> QED
      BY <3>1, <3>2 DEF DoneStep
  <2> QED
    BY <1>5, <2>1, <2>2, <2>3, <2>4, <2>5 DEF Child, Outputs
<1>6. ASSUME NEW c \in Calls, ChildLeavesHeir(c) PROVE DoneStep(d, q)
  BY <1>6, <1>0 DEF ChildLeavesHeir, DoneStep, callVars, procVars, dataVars,
     paramVars
<1>7. ASSUME NEW c \in Calls, HeirEnds(c) PROVE DoneStep(d, q)
  BY <1>7, <1>0 DEF HeirEnds, DoneStep, callVars, procVars, dataVars,
     paramVars
<1>8. ASSUME NEW c \in Calls, DeadlinePasses(c) PROVE DoneStep(d, q)
  BY <1>8, <1>0 DEF DeadlinePasses, DoneStep, callVars, procVars, dataVars,
     paramVars
<1> QED
  BY <1>1, <1>2, <1>3, <1>4, <1>5, <1>6, <1>7, <1>8 DEF Next, Outputs

\* Nobody can write to an output whose reader has stopped, and nothing is left
\* in its pipe.
THEOREM OutputsDrained == Spec => []OutInv
<1>1. Init => OutInv
  BY DEF Init, OutInv, Outputs, Pipes
<1>2. TypeOK /\ CallInv /\ OutInv /\ [Next]_vars => OutInv'
  <2> SUFFICES ASSUME TypeOK, CallInv, OutInv, [Next]_vars,
                      NEW c \in Calls, NEW p \in Outputs,
                      thread'[c][p] = "done"
               PROVE  /\ ~Held(<<c, p, "w">>)'
                      /\ put'[c][p] = took'[c][p]
    BY DEF OutInv
  <2>1. /\ thread[c][p] = "done" \/ AtEof(c, p)
        /\ put'[c][p] = put[c][p] /\ took'[c][p] = took[c][p]
    BY StepOfDoneReader DEF DoneStep
  <2>2. ~Held(<<c, p, "w">>) /\ put[c][p] = took[c][p]
    <3>1. put[c][p] \in Nat /\ took[c][p] \in Nat
      BY DEF TypeOK, Outputs, Pipes
    <3> QED
      BY <2>1, <3>1 DEF OutInv, AtEof, Buffered
  <2>3. ASSUME NEW d \in Calls, NEW q \in Pipes, OpenPipe(d, q)
        PROVE  <<c, p, "w">> \notin {<<d, q, "r">>, <<d, q, "w">>}
    <3>1. pc[d] = PipeAt[q] /\ UNCHANGED thread
      BY <2>3 DEF OpenPipe
    <3>2. thread[d][q] = "off"
      BY <3>1 DEF CallInv, PipeAt, Started, Waiting, Pipes
    <3> QED
      BY <3>1, <3>2
  <2>4. ~Held(<<c, p, "w">>)'
    BY <2>2, <2>3, ClosedForGood
  <2> QED
    BY <2>1, <2>2, <2>4
<1> QED
  BY <1>1, <1>2, TypeCorrect, CallCorrect, PTL DEF Spec

-----------------------------------------------------------------------------
\* Only Return produces a result, and the result of a call is final.
ResultStep(d) ==
    pc'[d] = "returned" =>
        \/ pc[d] = "returned" /\ result'[d] = result[d]
        \/ /\ result'[d].stdout = took[d]["out"]
           /\ result'[d].stderr = took[d]["err"]

\* A step that leaves a call returned is the one that put its result together, or
\* leaves the result alone.
LEMMA StepOfReturnedCall ==
    ASSUME TypeOK, [Next]_vars, NEW d \in Calls
    PROVE  ResultStep(d)
<1>0. /\ pc \in [Calls -> PCs]
      /\ result \in [Calls -> [exit : Int, timed_out : BOOLEAN,
                               stdout : Nat, stderr : Nat]]
  BY DEF TypeOK
<1>1. CASE UNCHANGED vars
  BY <1>1, <1>0 DEF vars, callVars, procVars, dataVars, paramVars, ResultStep,
     callVars, procVars, dataVars, paramVars
<1>2. ASSUME NEW c \in Calls, Caller(c)
      PROVE  ResultStep(d)
  <2>1. CASE Begin(c)
    BY <2>1, <1>0 DEF Begin, Goto, Pipes, ResultStep, callVars, procVars,
       dataVars, paramVars
  <2>2. CASE Reject(c)
    BY <2>2, <1>0 DEF Reject, Throw, Goto, Pipes, ResultStep, callVars,
       procVars, dataVars, paramVars
  <2>3. CASE PipeFails(c)
    BY <2>3, <1>0 DEF PipeFails, Throw, Goto, Pipes, ResultStep, callVars,
       procVars, dataVars, paramVars
  <2>4. CASE Fork(c)
    BY <2>4, <1>0 DEF Fork, Goto, Pipes, ResultStep, callVars, procVars,
       dataVars, paramVars
  <2>5. CASE ForkFails(c)
    BY <2>5, <1>0 DEF ForkFails, Throw, Goto, Pipes, ResultStep, callVars,
       procVars, dataVars, paramVars
  <2>6. ASSUME NEW p \in Pipes, OpenPipe(c, p) PROVE ResultStep(d)
    BY <2>6, <1>0 DEF OpenPipe, PipeAt, AfterPipe, Goto, Pipes, ResultStep,
       callVars, procVars, dataVars, paramVars
  <2>7. ASSUME NEW p \in Pipes, CloseChildEnd(c, p) PROVE ResultStep(d)
    BY <2>7, <1>0 DEF CloseChildEnd, CloseAt, AfterClose, Goto, Pipes,
       ResultStep, callVars, procVars, dataVars, paramVars
  <2>8. ASSUME NEW p \in Pipes, Spawn(c, p) PROVE ResultStep(d)
    BY <2>8, <1>0 DEF Spawn, SpawnAt, AfterSpawn, Goto, Pipes, ResultStep,
       callVars, procVars, dataVars, paramVars
  <2>9. CASE SpawnFails(c)
    BY <2>9, <1>0 DEF SpawnFails, Throw, Goto, Pipes, ResultStep, callVars,
       procVars, dataVars, paramVars
  <2>10. CASE Poll(c)
    BY <2>10, <1>0 DEF Poll, Throw, Goto, Pipes, ResultStep, callVars,
       procVars, dataVars, paramVars
  <2>11. CASE CheckDeadline(c)
    BY <2>11, <1>0 DEF CheckDeadline, Goto, Pipes, ResultStep, callVars,
       procVars, dataVars, paramVars
  <2>12. CASE Kill(c)
    BY <2>12, <1>0 DEF Kill, Die, Goto, Pipes, ResultStep, callVars, procVars,
       dataVars, paramVars
  <2>13. CASE Reap(c)
    BY <2>13, <1>0 DEF Reap, Throw, Goto, Pipes, ResultStep, callVars,
       procVars, dataVars, paramVars
  <2>14. CASE Return(c)
    BY <2>14, <1>0 DEF Return, Throw, Goto, Joined, Pipes, ResultStep,
       callVars, procVars, dataVars, paramVars
  <2>15. CASE Unwind(c)
    BY <2>15, <1>0 DEF Unwind, Goto, Joined, Pipes, ResultStep, callVars,
       procVars, dataVars, paramVars
  <2> QED
    BY <1>2, <2>1, <2>2, <2>3, <2>4, <2>5, <2>6, <2>7, <2>8, <2>9, <2>10,
       <2>11, <2>12, <2>13, <2>14, <2>15 DEF Caller
<1>3. ASSUME NEW c \in Calls, Writer(c)
      PROVE  ResultStep(d)
  <2>1. CASE WriterPut(c)
    BY <2>1, <1>0 DEF WriterPut, ResultStep, callVars, procVars, dataVars,
       paramVars
  <2>2. CASE WriterEnds(c)
    BY <2>2, <1>0 DEF WriterEnds, ResultStep, callVars, procVars, dataVars,
       paramVars
  <2> QED
    BY <1>3, <2>1, <2>2 DEF Writer
<1>4. ASSUME NEW c \in Calls, NEW p \in Outputs, Reader(c, p)
      PROVE  ResultStep(d)
  <2>1. CASE ReaderTakes(c, p)
    BY <2>1, <1>0 DEF ReaderTakes, ResultStep, callVars, procVars, dataVars,
       paramVars
  <2>2. CASE ReaderEnds(c, p)
    BY <2>2, <1>0 DEF ReaderEnds, ResultStep, callVars, procVars, dataVars,
       paramVars
  <2> QED
    BY <1>4, <2>1, <2>2 DEF Reader
<1>5. ASSUME NEW c \in Calls, Child(c)
      PROVE  ResultStep(d)
  <2>1. CASE ChildExec(c)
    BY <2>1, <1>0 DEF ChildExec, ResultStep, callVars, procVars, dataVars,
       paramVars
  <2>2. CASE ChildExecFails(c)
    BY <2>2, <1>0 DEF ChildExecFails, Die, Pipes, ResultStep, callVars,
       procVars, dataVars, paramVars
  <2>3. CASE ChildReads(c)
    BY <2>3, <1>0 DEF ChildReads, ResultStep, callVars, procVars, dataVars,
       paramVars
  <2>4. CASE ChildEnds(c)
    BY <2>4, <1>0 DEF ChildEnds, Die, Pipes, ResultStep, callVars, procVars,
       dataVars, paramVars
  <2>5. ASSUME NEW p \in Outputs, Writes(c, p) PROVE ResultStep(d)
    BY <2>5, <1>0 DEF Writes, ResultStep, callVars, procVars, dataVars,
       paramVars
  <2> QED
    BY <1>5, <2>1, <2>2, <2>3, <2>4, <2>5 DEF Child, Outputs
<1>6. ASSUME NEW c \in Calls, ChildLeavesHeir(c) PROVE ResultStep(d)
  BY <1>6, <1>0 DEF ChildLeavesHeir, ResultStep, callVars, procVars, dataVars,
     paramVars
<1>7. ASSUME NEW c \in Calls, HeirEnds(c) PROVE ResultStep(d)
  BY <1>7, <1>0 DEF HeirEnds, ResultStep, callVars, procVars, dataVars,
     paramVars
<1>8. ASSUME NEW c \in Calls, DeadlinePasses(c) PROVE ResultStep(d)
  BY <1>8, <1>0 DEF DeadlinePasses, ResultStep, callVars, procVars, dataVars,
     paramVars
<1> QED
  BY <1>1, <1>2, <1>3, <1>4, <1>5, <1>6, <1>7, <1>8 DEF Next, Outputs

\* The text of a result is complete: everything that the child and its
\* descendants wrote, and nothing can be written any more.
THEOREM CompleteOutput == Spec => []OutputComplete
<1>1. Init => ResultInv
  BY DEF Init, ResultInv
<1>2. /\ TypeOK /\ CallInv /\ CallInv' /\ OutInv /\ ResultInv /\ [Next]_vars
      => ResultInv'
  <2> SUFFICES ASSUME TypeOK, CallInv, CallInv', OutInv, ResultInv, [Next]_vars,
                      NEW c \in Calls, pc'[c] = "returned"
               PROVE  /\ result'[c].stdout = took'[c]["out"]
                      /\ result'[c].stderr = took'[c]["err"]
    BY DEF ResultInv
  <2>1. \A p \in Outputs : thread'[c][p] = "done"
    BY DEF CallInv, Outputs, Pipes
  <2>2. \A p \in Outputs : took'[c][p] = took[c][p]
    BY <2>1, StepOfDoneReader DEF DoneStep
  <2>3. ResultStep(c)
    BY StepOfReturnedCall
  <2> QED
    BY <2>2, <2>3 DEF ResultStep, ResultInv, Outputs
<1>3. CallInv /\ OutInv /\ ResultInv => OutputComplete
  BY DEF CallInv, OutInv, ResultInv, OutputComplete, Outputs, Pipes
<1> QED
  BY <1>1, <1>2, <1>3, TypeCorrect, CallCorrect, OutputsDrained, PTL DEF Spec

-----------------------------------------------------------------------------
\* A process that has pipe ends open is alive and belongs to a call that has
\* forked, and a child that is alive has its three ends.
THEOREM OwnCorrect == Spec => []OwnInv
<1>1. Init => OwnInv
  BY DEF Init, OwnInv
<1>2. TypeOK /\ CallInv /\ FdInv /\ OwnInv /\ [Next]_vars => OwnInv'
  <2> SUFFICES ASSUME TypeOK, CallInv, FdInv, OwnInv, [Next]_vars PROVE OwnInv'
    OBVIOUS
  <2>0. /\ pc \in [Calls -> PCs] /\ outcome \in [Calls -> Outcomes]
        /\ child \in [Calls -> {"none", "forked", "running", "zombie", "gone"}]
        /\ chd \in [Calls -> SUBSET Ends] /\ kept \in [Calls -> SUBSET Ends]
        /\ \A d \in Calls :
              /\ child[d] = "none" <=> ~Forked(d)
              /\ pc[d] \notin {"unwind", "returned", "failed"} => outcome[d] = "none"
              /\ pc[d] = "unwind" => outcome[d] \in {"spawn_failed", "wait_failed"}
    BY DEF TypeOK, CallInv
  <2>1. CASE UNCHANGED vars
    BY <2>1, <2>0 DEF vars, callVars, procVars, dataVars, paramVars, OwnInv,
       Forked, AfterFork, callVars, procVars, dataVars, paramVars
  <2>2. ASSUME NEW c \in Calls, Caller(c)
        PROVE  OwnInv'
    <3>1. CASE Begin(c)
      BY <3>1, <2>0 DEF Begin, Goto, OwnInv, Forked, AfterFork, callVars,
         procVars, dataVars, paramVars
    <3>2. CASE Reject(c)
      BY <3>2, <2>0 DEF Reject, Throw, Goto, OwnInv, Forked, AfterFork,
         callVars, procVars, dataVars, paramVars
    <3>3. CASE PipeFails(c)
      BY <3>3, <2>0 DEF PipeFails, Throw, Goto, PipeAt, Pipes, OwnInv, Forked,
         AfterFork, callVars, procVars, dataVars, paramVars
    <3>4. CASE Fork(c)
      BY <3>4, <2>0 DEF Fork, Goto, FdInv, Window, Pipes, OwnInv, Forked,
         AfterFork, callVars, procVars, dataVars, paramVars
    <3>5. CASE ForkFails(c)
      BY <3>5, <2>0 DEF ForkFails, Throw, Goto, OwnInv, Forked, AfterFork,
         callVars, procVars, dataVars, paramVars
    <3>6. ASSUME NEW p \in Pipes, OpenPipe(c, p) PROVE OwnInv'
      BY <3>6, <2>0 DEF OpenPipe, PipeAt, AfterPipe, Goto, Pipes, OwnInv,
         Forked, AfterFork, callVars, procVars, dataVars, paramVars
    <3>7. ASSUME NEW p \in Pipes, CloseChildEnd(c, p) PROVE OwnInv'
      BY <3>7, <2>0 DEF CloseChildEnd, CloseAt, AfterClose, Goto, Pipes, OwnInv,
         Forked, AfterFork, callVars, procVars, dataVars, paramVars
    <3>8. ASSUME NEW p \in Pipes, Spawn(c, p) PROVE OwnInv'
      BY <3>8, <2>0 DEF Spawn, SpawnAt, AfterSpawn, Goto, Pipes, OwnInv, Forked,
         AfterFork, callVars, procVars, dataVars, paramVars
    <3>9. CASE SpawnFails(c)
      BY <3>9, <2>0 DEF SpawnFails, Throw, Goto, SpawnAt, Pipes, OwnInv, Forked,
         AfterFork, callVars, procVars, dataVars, paramVars
    <3>10. CASE Poll(c)
      BY <3>10, <2>0 DEF Poll, Throw, Goto, OwnInv, Forked, AfterFork, callVars,
         procVars, dataVars, paramVars
    <3>11. CASE CheckDeadline(c)
      BY <3>11, <2>0 DEF CheckDeadline, Goto, OwnInv, Forked, AfterFork,
         callVars, procVars, dataVars, paramVars
    <3>12. CASE Kill(c)
      BY <3>12, <2>0 DEF Kill, Die, Goto, OwnInv, Forked, AfterFork, callVars,
         procVars, dataVars, paramVars
    <3>13. CASE Reap(c)
      BY <3>13, <2>0 DEF Reap, Throw, Goto, OwnInv, Forked, AfterFork, callVars,
         procVars, dataVars, paramVars
    <3>14. CASE Return(c)
      BY <3>14, <2>0 DEF Return, Throw, Goto, Joined, OwnInv, Forked, AfterFork,
         callVars, procVars, dataVars, paramVars
    <3>15. CASE Unwind(c)
      BY <3>15, <2>0 DEF Unwind, Goto, Joined, OwnInv, Forked, AfterFork,
         callVars, procVars, dataVars, paramVars
    <3> QED
      BY <2>2, <3>1, <3>2, <3>3, <3>4, <3>5, <3>6, <3>7, <3>8, <3>9, <3>10,
         <3>11, <3>12, <3>13, <3>14, <3>15 DEF Caller
  <2>3. ASSUME NEW c \in Calls, Writer(c)
        PROVE  OwnInv'
    <3>1. CASE WriterPut(c)
      BY <3>1, <2>0 DEF WriterPut, OwnInv, Forked, AfterFork, callVars,
         procVars, dataVars, paramVars
    <3>2. CASE WriterEnds(c)
      BY <3>2, <2>0 DEF WriterEnds, OwnInv, Forked, AfterFork, callVars,
         procVars, dataVars, paramVars
    <3> QED
      BY <2>3, <3>1, <3>2 DEF Writer
  <2>4. ASSUME NEW c \in Calls, NEW p \in Outputs, Reader(c, p)
        PROVE  OwnInv'
    <3>1. CASE ReaderTakes(c, p)
      BY <3>1, <2>0 DEF ReaderTakes, OwnInv, Forked, AfterFork, callVars,
         procVars, dataVars, paramVars
    <3>2. CASE ReaderEnds(c, p)
      BY <3>2, <2>0 DEF ReaderEnds, OwnInv, Forked, AfterFork, callVars,
         procVars, dataVars, paramVars
    <3> QED
      BY <2>4, <3>1, <3>2 DEF Reader
  <2>5. ASSUME NEW c \in Calls, Child(c)
        PROVE  OwnInv'
    <3>1. CASE ChildExec(c)
      BY <3>1, <2>0, EndsDistinct DEF ChildExec, OwnInv, Forked, AfterFork, callVars,
         procVars, dataVars, paramVars
    <3>2. CASE ChildExecFails(c)
      BY <3>2, <2>0 DEF ChildExecFails, Die, OwnInv, Forked, AfterFork,
         callVars, procVars, dataVars, paramVars
    <3>3. CASE ChildReads(c)
      BY <3>3, <2>0 DEF ChildReads, OwnInv, Forked, AfterFork, callVars,
         procVars, dataVars, paramVars
    <3>4. CASE ChildEnds(c)
      BY <3>4, <2>0 DEF ChildEnds, Die, OwnInv, Forked, AfterFork, callVars,
         procVars, dataVars, paramVars
    <3>5. ASSUME NEW p \in Outputs, Writes(c, p) PROVE OwnInv'
      BY <3>5, <2>0 DEF Writes, OwnInv, Forked, AfterFork, callVars, procVars,
         dataVars, paramVars
    <3> QED
      BY <2>5, <3>1, <3>2, <3>3, <3>4, <3>5 DEF Child, Outputs
  <2>6. ASSUME NEW c \in Calls, ChildLeavesHeir(c) PROVE OwnInv'
    BY <2>6, <2>0 DEF ChildLeavesHeir, OwnInv, Forked, AfterFork, callVars,
       procVars, dataVars, paramVars
  <2>7. ASSUME NEW c \in Calls, HeirEnds(c) PROVE OwnInv'
    BY <2>7, <2>0 DEF HeirEnds, OwnInv, Forked, AfterFork, callVars, procVars,
       dataVars, paramVars
  <2>8. ASSUME NEW c \in Calls, DeadlinePasses(c) PROVE OwnInv'
    BY <2>8, <2>0 DEF DeadlinePasses, OwnInv, Forked, AfterFork, callVars,
       procVars, dataVars, paramVars
  <2> QED
    BY <2>1, <2>2, <2>3, <2>4, <2>5, <2>6, <2>7, <2>8 DEF Next, Outputs
<1> QED
  BY <1>1, <1>2, TypeCorrect, CallCorrect, FdCorrect, PTL DEF Spec

\* A program that can still write its output has a reader in the server.
THEOREM NoBrokenPipe == Spec => []OutputHasReader
<1>1. CallInv /\ FdInv /\ OutInv /\ OwnInv => OutputHasReader
  <2> SUFFICES ASSUME CallInv, FdInv, OutInv, OwnInv,
                      NEW c \in Calls, NEW p \in Outputs,
                      <<c, p, "w">> \in chd[c] \cup kept[c]
               PROVE  <<c, p, "r">> \in srv
    BY DEF OutputHasReader
  <2>1. Forked(c)
    BY DEF OwnInv, CallInv
  <2>2. thread[c][p] # "done"
    BY DEF OutInv, Held
  <2> QED
    BY <2>1, <2>2 DEF FdInv, ServerEnd, Outputs, Pipes
<1> QED
  BY <1>1, CallCorrect, FdCorrect, OutputsDrained, OwnCorrect, PTL

-----------------------------------------------------------------------------
\* timed_out, the deadline, the kill and the result agree.
KillInv ==
    \A c \in Calls :
        /\ timedOut[c] => expired[c]
        /\ pc[c] \in {"kill", "reap"} => timedOut[c]
        /\ status[c] = Killed
             => timedOut[c] /\ pc[c] \in {"reap", "join", "unwind", "returned", "failed"}
        /\ pc[c] = "returned" => result[c].timed_out = timedOut[c]
        /\ pc[c] # "returned" => ~result[c].timed_out

\* A child is killed after its deadline only, and timed_out is kept.
THEOREM KillCorrect == Spec => []KillInv
<1>1. Init => KillInv
  BY DEF Init, KillInv, NoResult, NoStatus, Killed
<1>2. TypeOK /\ KillInv /\ [Next]_vars => KillInv'
  <2> SUFFICES ASSUME TypeOK, KillInv, [Next]_vars PROVE KillInv'
    OBVIOUS
  <2>0. /\ pc \in [Calls -> PCs] /\ timedOut \in [Calls -> BOOLEAN]
        /\ expired \in [Calls -> BOOLEAN]
        /\ status \in [Calls -> Statuses \cup {NoStatus, Killed, ExecFailed}]
        /\ Killed \notin Statuses \cup {NoStatus, ExecFailed}
        /\ result \in [Calls -> [exit : Int, timed_out : BOOLEAN,
                                 stdout : Nat, stderr : Nat]]
    BY StatusAssumption DEF TypeOK, Killed, NoStatus, ExecFailed
  <2>1. CASE UNCHANGED vars
    BY <2>1, <2>0 DEF vars, callVars, procVars, dataVars, paramVars, KillInv,
       callVars, procVars, dataVars, paramVars
  <2>2. ASSUME NEW c \in Calls, Caller(c)
        PROVE  KillInv'
    <3>1. CASE Begin(c)
      BY <3>1, <2>0 DEF Begin, Goto, KillInv, callVars, procVars, dataVars,
         paramVars
    <3>2. CASE Reject(c)
      BY <3>2, <2>0 DEF Reject, Throw, Goto, KillInv, callVars, procVars,
         dataVars, paramVars
    <3>3. CASE PipeFails(c)
      BY <3>3, <2>0 DEF PipeFails, Throw, Goto, PipeAt, Pipes, KillInv,
         callVars, procVars, dataVars, paramVars
    <3>4. CASE Fork(c)
      BY <3>4, <2>0 DEF Fork, Goto, KillInv, callVars, procVars, dataVars,
         paramVars
    <3>5. CASE ForkFails(c)
      BY <3>5, <2>0 DEF ForkFails, Throw, Goto, KillInv, callVars, procVars,
         dataVars, paramVars
    <3>6. ASSUME NEW p \in Pipes, OpenPipe(c, p) PROVE KillInv'
      BY <3>6, <2>0 DEF OpenPipe, PipeAt, AfterPipe, Goto, Pipes, KillInv,
         callVars, procVars, dataVars, paramVars
    <3>7. ASSUME NEW p \in Pipes, CloseChildEnd(c, p) PROVE KillInv'
      BY <3>7, <2>0 DEF CloseChildEnd, CloseAt, AfterClose, Goto, Pipes,
         KillInv, callVars, procVars, dataVars, paramVars
    <3>8. ASSUME NEW p \in Pipes, Spawn(c, p) PROVE KillInv'
      BY <3>8, <2>0 DEF Spawn, SpawnAt, AfterSpawn, Goto, Pipes, KillInv,
         callVars, procVars, dataVars, paramVars
    <3>9. CASE SpawnFails(c)
      BY <3>9, <2>0 DEF SpawnFails, Throw, Goto, SpawnAt, Pipes, KillInv,
         callVars, procVars, dataVars, paramVars
    <3>10. CASE Poll(c)
      BY <3>10, <2>0 DEF Poll, Throw, Goto, KillInv, callVars, procVars,
         dataVars, paramVars
    <3>11. CASE CheckDeadline(c)
      BY <3>11, <2>0 DEF CheckDeadline, Goto, KillInv, callVars, procVars,
         dataVars, paramVars
    <3>12. CASE Kill(c)
      BY <3>12, <2>0 DEF Kill, Die, Goto, KillInv, callVars, procVars, dataVars,
         paramVars
    <3>13. CASE Reap(c)
      BY <3>13, <2>0 DEF Reap, Throw, Goto, KillInv, callVars, procVars,
         dataVars, paramVars
    <3>14. CASE Return(c)
      BY <3>14, <2>0 DEF Return, Throw, Goto, Joined, KillInv, callVars,
         procVars, dataVars, paramVars
    <3>15. CASE Unwind(c)
      BY <3>15, <2>0 DEF Unwind, Goto, Joined, KillInv, callVars, procVars,
         dataVars, paramVars
    <3> QED
      BY <2>2, <3>1, <3>2, <3>3, <3>4, <3>5, <3>6, <3>7, <3>8, <3>9, <3>10,
         <3>11, <3>12, <3>13, <3>14, <3>15 DEF Caller
  <2>3. ASSUME NEW c \in Calls, Writer(c)
        PROVE  KillInv'
    <3>1. CASE WriterPut(c)
      BY <3>1, <2>0 DEF WriterPut, KillInv, callVars, procVars, dataVars,
         paramVars
    <3>2. CASE WriterEnds(c)
      BY <3>2, <2>0 DEF WriterEnds, KillInv, callVars, procVars, dataVars,
         paramVars
    <3> QED
      BY <2>3, <3>1, <3>2 DEF Writer
  <2>4. ASSUME NEW c \in Calls, NEW p \in Outputs, Reader(c, p)
        PROVE  KillInv'
    <3>1. CASE ReaderTakes(c, p)
      BY <3>1, <2>0 DEF ReaderTakes, KillInv, callVars, procVars, dataVars,
         paramVars
    <3>2. CASE ReaderEnds(c, p)
      BY <3>2, <2>0 DEF ReaderEnds, KillInv, callVars, procVars, dataVars,
         paramVars
    <3> QED
      BY <2>4, <3>1, <3>2 DEF Reader
  <2>5. ASSUME NEW c \in Calls, Child(c)
        PROVE  KillInv'
    <3>1. CASE ChildExec(c)
      BY <3>1, <2>0 DEF ChildExec, KillInv, callVars, procVars, dataVars,
         paramVars
    <3>2. CASE ChildExecFails(c)
      BY <3>2, <2>0 DEF ChildExecFails, Die, KillInv, callVars, procVars,
         dataVars, paramVars
    <3>3. CASE ChildReads(c)
      BY <3>3, <2>0 DEF ChildReads, KillInv, callVars, procVars, dataVars,
         paramVars
    <3>4. CASE ChildEnds(c)
      BY <3>4, <2>0 DEF ChildEnds, Die, KillInv, callVars, procVars, dataVars,
         paramVars
    <3>5. ASSUME NEW p \in Outputs, Writes(c, p) PROVE KillInv'
      BY <3>5, <2>0 DEF Writes, KillInv, callVars, procVars, dataVars, paramVars
    <3> QED
      BY <2>5, <3>1, <3>2, <3>3, <3>4, <3>5 DEF Child, Outputs
  <2>6. ASSUME NEW c \in Calls, ChildLeavesHeir(c) PROVE KillInv'
    BY <2>6, <2>0 DEF ChildLeavesHeir, KillInv, callVars, procVars, dataVars,
       paramVars
  <2>7. ASSUME NEW c \in Calls, HeirEnds(c) PROVE KillInv'
    BY <2>7, <2>0 DEF HeirEnds, KillInv, callVars, procVars, dataVars, paramVars
  <2>8. ASSUME NEW c \in Calls, DeadlinePasses(c) PROVE KillInv'
    BY <2>8, <2>0 DEF DeadlinePasses, KillInv, callVars, procVars, dataVars,
       paramVars
  <2> QED
    BY <2>1, <2>2, <2>3, <2>4, <2>5, <2>6, <2>7, <2>8 DEF Next, Outputs
<1> QED
  BY <1>1, <1>2, TypeCorrect, PTL DEF Spec

\* A call that returns the status of a killed child also says that it timed
\* out, and it says so only when the deadline had passed.
THEOREM TimeoutHonest == Spec => []KillMeansTimeout
<1>1. KillInv => KillMeansTimeout
  BY DEF KillInv, KillMeansTimeout
<1> QED
  BY <1>1, KillCorrect, PTL

-----------------------------------------------------------------------------
\* Either the writer wrote everything or nobody can read the rest.
WriterInv ==
    \A c \in Calls :
        thread[c]["in"] = "done" => \/ put[c]["in"] = need[c]
                                    \/ ~Held(<<c, "in", "r">>)

\* What a step can do to a writer that has stopped after it.
WriterStep(d) ==
    thread'[d]["in"] = "done" =>
        /\ \/ thread[d]["in"] = "done"
           \/ put[d]["in"] = need[d] \/ ~Held(<<d, "in", "r">>)
        /\ put'[d]["in"] = put[d]["in"] /\ need'[d] = need[d]

\* A writer stops only when all is written or nobody can read, and nothing is
\* written once it has stopped.
LEMMA StepOfDoneWriter ==
    ASSUME TypeOK, [Next]_vars, NEW d \in Calls
    PROVE  WriterStep(d)
<1>0. /\ thread \in [Calls -> [Pipes -> {"off", "run", "done"}]]
      /\ put \in [Calls -> [Pipes -> Nat]]
  BY DEF TypeOK
<1>1. CASE UNCHANGED vars
  BY <1>1, <1>0 DEF vars, callVars, procVars, dataVars, paramVars, WriterStep,
     Outputs, Pipes, callVars, procVars, dataVars, paramVars
<1>2. ASSUME NEW c \in Calls, Caller(c)
      PROVE  WriterStep(d)
  <2>1. CASE Begin(c)
    BY <2>1, <1>0 DEF Begin, WriterStep, Outputs, Pipes, callVars, procVars,
       dataVars, paramVars
  <2>2. CASE Reject(c)
    BY <2>2, <1>0 DEF Reject, WriterStep, Outputs, Pipes, callVars, procVars,
       dataVars, paramVars
  <2>3. CASE PipeFails(c)
    BY <2>3, <1>0 DEF PipeFails, WriterStep, Outputs, Pipes, callVars,
       procVars, dataVars, paramVars
  <2>4. CASE Fork(c)
    BY <2>4, <1>0 DEF Fork, WriterStep, Outputs, Pipes, callVars, procVars,
       dataVars, paramVars
  <2>5. CASE ForkFails(c)
    BY <2>5, <1>0 DEF ForkFails, WriterStep, Outputs, Pipes, callVars,
       procVars, dataVars, paramVars
  <2>6. ASSUME NEW p \in Pipes, OpenPipe(c, p) PROVE WriterStep(d)
    BY <2>6, <1>0 DEF OpenPipe, WriterStep, Outputs, Pipes, callVars,
       procVars, dataVars, paramVars
  <2>7. ASSUME NEW p \in Pipes, CloseChildEnd(c, p) PROVE WriterStep(d)
    BY <2>7, <1>0 DEF CloseChildEnd, WriterStep, Outputs, Pipes, callVars,
       procVars, dataVars, paramVars
  <2>8. ASSUME NEW p \in Pipes, Spawn(c, p) PROVE WriterStep(d)
    BY <2>8, <1>0 DEF Spawn, WriterStep, Outputs, Pipes, callVars, procVars,
       dataVars, paramVars
  <2>9. CASE SpawnFails(c)
    BY <2>9, <1>0 DEF SpawnFails, WriterStep, Outputs, Pipes, callVars,
       procVars, dataVars, paramVars
  <2>10. CASE Poll(c)
    BY <2>10, <1>0 DEF Poll, WriterStep, Outputs, Pipes, callVars, procVars,
       dataVars, paramVars
  <2>11. CASE CheckDeadline(c)
    BY <2>11, <1>0 DEF CheckDeadline, WriterStep, Outputs, Pipes, callVars,
       procVars, dataVars, paramVars
  <2>12. CASE Kill(c)
    BY <2>12, <1>0 DEF Kill, Die, WriterStep, Outputs, Pipes, callVars,
       procVars, dataVars, paramVars
  <2>13. CASE Reap(c)
    BY <2>13, <1>0 DEF Reap, WriterStep, Outputs, Pipes, callVars, procVars,
       dataVars, paramVars
  <2>14. CASE Return(c)
    BY <2>14, <1>0 DEF Return, WriterStep, Outputs, Pipes, callVars, procVars,
       dataVars, paramVars
  <2>15. CASE Unwind(c)
    BY <2>15, <1>0 DEF Unwind, WriterStep, Outputs, Pipes, callVars, procVars,
       dataVars, paramVars
  <2> QED
    BY <1>2, <2>1, <2>2, <2>3, <2>4, <2>5, <2>6, <2>7, <2>8, <2>9, <2>10,
       <2>11, <2>12, <2>13, <2>14, <2>15 DEF Caller
<1>3. ASSUME NEW c \in Calls, Writer(c)
      PROVE  WriterStep(d)
  <2>1. CASE WriterPut(c)
    BY <2>1, <1>0 DEF WriterPut, Put, WriterStep, Outputs, Pipes, callVars,
       procVars, dataVars, paramVars
  <2>2. CASE WriterEnds(c)
    BY <2>2, <1>0 DEF WriterEnds, WriterStep, Outputs, Pipes, callVars,
       procVars, dataVars, paramVars
  <2> QED
    BY <1>3, <2>1, <2>2 DEF Writer
<1>4. ASSUME NEW c \in Calls, NEW p \in Outputs, Reader(c, p)
      PROVE  WriterStep(d)
  <2>1. CASE ReaderTakes(c, p)
    BY <2>1, <1>0 DEF ReaderTakes, Take, WriterStep, Outputs, Pipes, callVars,
       procVars, dataVars, paramVars
  <2>2. CASE ReaderEnds(c, p)
    BY <2>2, <1>0 DEF ReaderEnds, WriterStep, Outputs, Pipes, callVars,
       procVars, dataVars, paramVars
  <2> QED
    BY <1>4, <2>1, <2>2 DEF Reader
<1>5. ASSUME NEW c \in Calls, Child(c)
      PROVE  WriterStep(d)
  <2>1. CASE ChildExec(c)
    BY <2>1, <1>0 DEF ChildExec, WriterStep, Outputs, Pipes, callVars,
       procVars, dataVars, paramVars
  <2>2. CASE ChildExecFails(c)
    BY <2>2, <1>0 DEF ChildExecFails, WriterStep, Outputs, Pipes, callVars,
       procVars, dataVars, paramVars
  <2>3. CASE ChildReads(c)
    BY <2>3, <1>0 DEF ChildReads, Take, WriterStep, Outputs, Pipes, callVars,
       procVars, dataVars, paramVars
  <2>4. CASE ChildEnds(c)
    BY <2>4, <1>0 DEF ChildEnds, WriterStep, Outputs, Pipes, callVars,
       procVars, dataVars, paramVars
  <2>5. ASSUME NEW p \in Outputs, Writes(c, p) PROVE WriterStep(d)
    BY <2>5, <1>0 DEF Writes, Put, WriterStep, Outputs, Pipes, callVars,
       procVars, dataVars, paramVars
  <2> QED
    BY <1>5, <2>1, <2>2, <2>3, <2>4, <2>5 DEF Child, Outputs
<1>6. ASSUME NEW c \in Calls, ChildLeavesHeir(c) PROVE WriterStep(d)
  BY <1>6, <1>0 DEF ChildLeavesHeir, WriterStep, Outputs, Pipes, callVars,
     procVars, dataVars, paramVars
<1>7. ASSUME NEW c \in Calls, HeirEnds(c) PROVE WriterStep(d)
  BY <1>7, <1>0 DEF HeirEnds, WriterStep, Outputs, Pipes, callVars, procVars,
     dataVars, paramVars
<1>8. ASSUME NEW c \in Calls, DeadlinePasses(c) PROVE WriterStep(d)
  BY <1>8, <1>0 DEF DeadlinePasses, WriterStep, Outputs, Pipes, callVars,
     procVars, dataVars, paramVars
<1> QED
  BY <1>1, <1>2, <1>3, <1>4, <1>5, <1>6, <1>7, <1>8 DEF Next, Outputs

\* The writer thread never stops early.
THEOREM WriterCorrect == Spec => []WriterInv
<1>1. Init => WriterInv
  BY DEF Init, WriterInv, Pipes
<1>2. TypeOK /\ CallInv /\ WriterInv /\ [Next]_vars => WriterInv'
  <2> SUFFICES ASSUME TypeOK, CallInv, WriterInv, [Next]_vars,
                      NEW c \in Calls, thread'[c]["in"] = "done"
               PROVE  \/ put'[c]["in"] = need'[c]
                      \/ ~Held(<<c, "in", "r">>)'
    BY DEF WriterInv
  <2>1. /\ put[c]["in"] = need[c] \/ ~Held(<<c, "in", "r">>)
        /\ put'[c]["in"] = put[c]["in"] /\ need'[c] = need[c]
    BY StepOfDoneWriter DEF WriterStep, WriterInv
  <2>2. ASSUME NEW d \in Calls, NEW q \in Pipes, OpenPipe(d, q)
        PROVE  <<c, "in", "r">> \notin {<<d, q, "r">>, <<d, q, "w">>}
    <3>1. pc[d] = PipeAt[q] /\ UNCHANGED thread
      BY <2>2 DEF OpenPipe
    <3>2. thread[d][q] = "off"
      BY <3>1 DEF CallInv, PipeAt, Started, Waiting, Pipes
    <3> QED
      BY <3>1, <3>2
  <2>3. ~Held(<<c, "in", "r">>) => ~Held(<<c, "in", "r">>)'
    BY <2>2, ClosedForGood
  <2> QED
    BY <2>1, <2>3
<1> QED
  BY <1>1, <1>2, TypeCorrect, CallCorrect, PTL DEF Spec


\* A filter that ended by itself had read everything.
FilterInv ==
    \A c \in Calls :
        /\ prog[c] = "filter" /\ status[c] \in Statuses
             => took[c]["in"] = need[c]
        /\ child[c] \in {"none", "forked", "running"} => status[c] = NoStatus

\* No input is cut off: the program sees all of stdin_text before its end.
THEOREM CompleteInput == Spec => []FilterSeesAllInput
<1>1. Init => FilterInv
  <2>1. NoStatus \notin Statuses
    BY StatusAssumption DEF NoStatus
  <2> QED
    BY <2>1 DEF Init, FilterInv
<1>2. /\ TypeOK /\ CallInv /\ FdInv /\ OwnInv /\ WriterInv /\ FilterInv
      /\ [Next]_vars
      => FilterInv'
  <2> SUFFICES ASSUME TypeOK, CallInv, FdInv, OwnInv, WriterInv, FilterInv,
                      [Next]_vars
               PROVE  FilterInv'
    OBVIOUS
  <2>0. /\ put \in [Calls -> [Pipes -> Nat]] /\ took \in [Calls -> [Pipes -> Nat]]
        /\ child \in [Calls -> {"none", "forked", "running", "zombie", "gone"}]
        /\ status \in [Calls -> Statuses \cup {NoStatus, Killed, ExecFailed}]
        /\ {Killed, ExecFailed, NoStatus} \cap Statuses = {}
    BY StatusAssumption DEF TypeOK, Killed, ExecFailed, NoStatus
  <2>1. CASE UNCHANGED vars
    BY <2>1, <2>0 DEF vars, callVars, procVars, dataVars, paramVars, FilterInv,
       Outputs, Pipes, callVars, procVars, dataVars, paramVars
  <2>2. ASSUME NEW c \in Calls, Caller(c)
        PROVE  FilterInv'
    <3>1. CASE Begin(c)
      BY <3>1, <2>0 DEF Begin, FilterInv, Outputs, Pipes, callVars, procVars,
         dataVars, paramVars
    <3>2. CASE Reject(c)
      BY <3>2, <2>0 DEF Reject, FilterInv, Outputs, Pipes, callVars, procVars,
         dataVars, paramVars
    <3>3. CASE PipeFails(c)
      BY <3>3, <2>0 DEF PipeFails, FilterInv, Outputs, Pipes, callVars,
         procVars, dataVars, paramVars
    <3>4. CASE Fork(c)
      <4>1. child[c] = "none"
        BY <3>4 DEF Fork, CallInv, Forked, AfterFork
      <4> QED
        BY <3>4, <4>1, <2>0 DEF Fork, FilterInv, dataVars, paramVars
    <3>5. CASE ForkFails(c)
      BY <3>5, <2>0 DEF ForkFails, FilterInv, Outputs, Pipes, callVars,
         procVars, dataVars, paramVars
    <3>6. ASSUME NEW p \in Pipes, OpenPipe(c, p) PROVE FilterInv'
      BY <3>6, <2>0 DEF OpenPipe, FilterInv, Outputs, Pipes, callVars, procVars,
         dataVars, paramVars
    <3>7. ASSUME NEW p \in Pipes, CloseChildEnd(c, p) PROVE FilterInv'
      BY <3>7, <2>0 DEF CloseChildEnd, FilterInv, Outputs, Pipes, callVars,
         procVars, dataVars, paramVars
    <3>8. ASSUME NEW p \in Pipes, Spawn(c, p) PROVE FilterInv'
      BY <3>8, <2>0 DEF Spawn, FilterInv, Outputs, Pipes, callVars, procVars,
         dataVars, paramVars
    <3>9. CASE SpawnFails(c)
      BY <3>9, <2>0 DEF SpawnFails, FilterInv, Outputs, Pipes, callVars,
         procVars, dataVars, paramVars
    <3>10. CASE Poll(c)
      BY <3>10, <2>0 DEF Poll, FilterInv, Outputs, Pipes, callVars, procVars,
         dataVars, paramVars
    <3>11. CASE CheckDeadline(c)
      BY <3>11, <2>0 DEF CheckDeadline, FilterInv, Outputs, Pipes, callVars,
         procVars, dataVars, paramVars
    <3>12. CASE Kill(c)
      BY <3>12, <2>0 DEF Kill, Die, FilterInv, Outputs, Pipes, callVars,
         procVars, dataVars, paramVars
    <3>13. CASE Reap(c)
      BY <3>13, <2>0 DEF Reap, FilterInv, Outputs, Pipes, callVars, procVars,
         dataVars, paramVars
    <3>14. CASE Return(c)
      BY <3>14, <2>0 DEF Return, FilterInv, Outputs, Pipes, callVars, procVars,
         dataVars, paramVars
    <3>15. CASE Unwind(c)
      BY <3>15, <2>0 DEF Unwind, FilterInv, Outputs, Pipes, callVars, procVars,
         dataVars, paramVars
    <3> QED
      BY <2>2, <3>1, <3>2, <3>3, <3>4, <3>5, <3>6, <3>7, <3>8, <3>9, <3>10,
         <3>11, <3>12, <3>13, <3>14, <3>15 DEF Caller
  <2>3. ASSUME NEW c \in Calls, Writer(c)
        PROVE  FilterInv'
    <3>1. CASE WriterPut(c)
      BY <3>1, <2>0 DEF WriterPut, Put, FilterInv, Outputs, Pipes, callVars,
         procVars, dataVars, paramVars
    <3>2. CASE WriterEnds(c)
      BY <3>2, <2>0 DEF WriterEnds, FilterInv, Outputs, Pipes, callVars,
         procVars, dataVars, paramVars
    <3> QED
      BY <2>3, <3>1, <3>2 DEF Writer
  <2>4. ASSUME NEW c \in Calls, NEW p \in Outputs, Reader(c, p)
        PROVE  FilterInv'
    <3>1. CASE ReaderTakes(c, p)
      BY <3>1, <2>0 DEF ReaderTakes, Take, FilterInv, Outputs, Pipes, callVars,
         procVars, dataVars, paramVars
    <3>2. CASE ReaderEnds(c, p)
      BY <3>2, <2>0 DEF ReaderEnds, FilterInv, Outputs, Pipes, callVars,
         procVars, dataVars, paramVars
    <3> QED
      BY <2>4, <3>1, <3>2 DEF Reader
  <2>5. ASSUME NEW c \in Calls, Child(c)
        PROVE  FilterInv'
    <3>1. CASE ChildExec(c)
      BY <3>1, <2>0 DEF ChildExec, FilterInv, Outputs, Pipes, callVars,
         procVars, dataVars, paramVars
    <3>2. CASE ChildExecFails(c)
      BY <3>2, <2>0 DEF ChildExecFails, Die, FilterInv, Outputs, Pipes,
         callVars, procVars, dataVars, paramVars
    <3>3. CASE ChildReads(c)
      BY <3>3, <2>0 DEF ChildReads, Take, FilterInv, Outputs, Pipes, callVars,
         procVars, dataVars, paramVars
    <3>4. CASE ChildEnds(c)
      <4>1. child[c] = "running"
        BY <3>4 DEF ChildEnds
      <4>2. ASSUME prog[c] = "filter" PROVE took[c]["in"] = need[c]
        <5>1. ~Held(<<c, "in", "w">>) /\ Buffered(c, "in") = 0
          BY <3>4, <4>2 DEF ChildEnds, AtEof
        <5>2. Forked(c)
          BY <4>1 DEF CallInv
        <5>3. thread[c]["in"] = "done"
          BY <5>1, <5>2 DEF FdInv, ServerEnd, Held, Pipes
        <5>4. <<c, "in", "r">> \in chd[c]
          BY <4>1 DEF OwnInv, ChildEnd, Pipes
        <5>5. put[c]["in"] = need[c]
          BY <5>3, <5>4 DEF WriterInv, Held
        <5>6. took[c]["in"] \in Nat /\ put[c]["in"] \in Nat
          BY <2>0 DEF Pipes
        <5> QED
          BY <5>1, <5>5, <5>6 DEF Buffered
      <4> QED
        BY <3>4, <4>2, <2>0 DEF ChildEnds, Die, FilterInv, dataVars, paramVars
    <3>5. ASSUME NEW p \in Outputs, Writes(c, p) PROVE FilterInv'
      BY <3>5, <2>0 DEF Writes, Put, FilterInv, Outputs, Pipes, callVars,
         procVars, dataVars, paramVars
    <3> QED
      BY <2>5, <3>1, <3>2, <3>3, <3>4, <3>5 DEF Child, Outputs
  <2>6. ASSUME NEW c \in Calls, ChildLeavesHeir(c) PROVE FilterInv'
    BY <2>6, <2>0 DEF ChildLeavesHeir, FilterInv, Outputs, Pipes, callVars,
       procVars, dataVars, paramVars
  <2>7. ASSUME NEW c \in Calls, HeirEnds(c) PROVE FilterInv'
    BY <2>7, <2>0 DEF HeirEnds, FilterInv, Outputs, Pipes, callVars, procVars,
       dataVars, paramVars
  <2>8. ASSUME NEW c \in Calls, DeadlinePasses(c) PROVE FilterInv'
    BY <2>8, <2>0 DEF DeadlinePasses, FilterInv, Outputs, Pipes, callVars,
       procVars, dataVars, paramVars
  <2> QED
    BY <2>1, <2>2, <2>3, <2>4, <2>5, <2>6, <2>7, <2>8 DEF Next, Outputs
<1>3. FilterInv => FilterSeesAllInput
  BY DEF FilterInv, FilterSeesAllInput
<1> QED
  BY <1>1, <1>2, <1>3, TypeCorrect, CallCorrect, FdCorrect, OwnCorrect,
     WriterCorrect, PTL DEF Spec
-----------------------------------------------------------------------------
(***************************************************************************)
(* execute_command implements AbstractCommand.                             *)
(***************************************************************************)

\* What is known of a program that has ended, and before it has begun.
EndInv ==
    \A c \in Calls :
        /\ child[c] \in {"zombie", "gone"} => status[c] # NoStatus
        /\ child[c] \in {"none", "forked", "running"} => status[c] = NoStatus
        /\ child[c] = "none" => heir[c] = "none"

\* A child has a wait status exactly when it has ended.
THEOREM EndCorrect == Spec => []EndInv
<1>1. Init => EndInv
  BY DEF Init, EndInv
<1>2. TypeOK /\ CallInv /\ EndInv /\ [Next]_vars => EndInv'
  <2> SUFFICES ASSUME TypeOK, CallInv, EndInv, [Next]_vars PROVE EndInv'
    OBVIOUS
  <2>0. /\ child \in [Calls -> {"none", "forked", "running", "zombie", "gone"}]
        /\ heir \in [Calls -> {"none", "running", "gone"}]
        /\ DOMAIN status = Calls
        /\ \A st \in Statuses : st # NoStatus
        /\ Killed # NoStatus /\ ExecFailed # NoStatus
    BY StatusAssumption DEF TypeOK, NoStatus, Killed, ExecFailed
  <2>1. CASE UNCHANGED vars
    BY <2>1 DEF vars, procVars, EndInv
  <2>2. ASSUME NEW c \in Calls, Caller(c) PROVE EndInv'
    <3>1. CASE UNCHANGED procVars
      BY <3>1 DEF procVars, EndInv
    <3>2. CASE Fork(c)
      <4>1. child[c] = "none"
        BY <3>2 DEF Fork, CallInv, Forked, AfterFork
      <4> QED
        BY <3>2, <4>1, <2>0 DEF Fork, EndInv
    <3>3. CASE Poll(c) \/ Reap(c)
      <4>1. /\ child' = child \/ (child[c] = "zombie" /\ child' = [child EXCEPT ![c] = "gone"])
            /\ UNCHANGED <<status, heir>>
        BY <3>3 DEF Poll, Reap
      <4> QED
        BY <4>1, <2>0 DEF EndInv
    <3>4. CASE Kill(c)
      <4>1. /\ UNCHANGED heir
            /\ \/ UNCHANGED <<child, status>>
               \/ child[c] \in {"forked", "running"} /\ Die(c, Killed)
        BY <3>4 DEF Kill
      <4> QED
        BY <4>1, <2>0 DEF Die, EndInv
    <3> QED
      BY <2>2, <3>1, <3>2, <3>3, <3>4 DEF Caller, Begin, Reject, PipeFails, ForkFails,
         OpenPipe, CloseChildEnd, Spawn, SpawnFails, CheckDeadline, Return, Unwind
  <2>3. ASSUME NEW c \in Calls,
               \/ Writer(c) \/ \E p \in {"out", "err"} : Reader(c, p) \/ Writes(c, p)
               \/ ChildReads(c) \/ DeadlinePasses(c)
        PROVE  EndInv'
    <3>1. UNCHANGED procVars
      BY <2>3 DEF Writer, WriterPut, WriterEnds, Reader, ReaderTakes, ReaderEnds, Writes,
         ChildReads, DeadlinePasses
    <3> QED
      BY <3>1 DEF procVars, EndInv
  <2>4. ASSUME NEW c \in Calls, ChildExec(c) PROVE EndInv'
    BY <2>4, <2>0 DEF ChildExec, EndInv
  <2>5. ASSUME NEW c \in Calls, ChildExecFails(c) \/ ChildEnds(c) PROVE EndInv'
    <3>1. PICK st \in Statuses \cup {ExecFailed} : Die(c, st)
      BY <2>5 DEF ChildExecFails, ChildEnds
    <3>2. child[c] \in {"forked", "running"} /\ UNCHANGED heir
      BY <2>5 DEF ChildExecFails, ChildEnds
    <3> QED
      BY <3>1, <3>2, <2>0 DEF Die, EndInv
  <2>6. ASSUME NEW c \in Calls, ChildLeavesHeir(c) \/ HeirEnds(c) PROVE EndInv'
    <3>1. child[c] # "none" /\ UNCHANGED <<child, status>>
      BY <2>6, <2>0 DEF ChildLeavesHeir, HeirEnds, EndInv
    <3>2. \A d \in Calls : d # c => heir'[d] = heir[d]
      BY <2>6, <2>0 DEF ChildLeavesHeir, HeirEnds
    <3> QED
      BY <3>1, <3>2 DEF EndInv
  <2> QED
    BY <2>1, <2>2, <2>3, <2>4, <2>5, <2>6 DEF Next, Child
<1> QED
  BY <1>1, <1>2, TypeCorrect, CallCorrect, PTL DEF Spec

\* A step that the abstract command does not see.
LEMMA Stutter ==
  ASSUME \A c \in Calls : Phase(c)' = Phase(c),
         \A c \in Calls : /\ put'[c]["out"] = put[c]["out"]
                          /\ put'[c]["err"] = put[c]["err"],
         UNCHANGED <<status, expired, result>>
  PROVE  UNCHANGED Command!commandVars
BY DEF Command!commandVars

\* Every step of execute_command is a step of the command, or is not seen.
THEOREM CommandRefined == Spec => ImplementsCommand
<1>1. Init => Command!CommandInit
  BY DEF Init, Command!CommandInit, Command!NoAnswer, NoResult, Command!Unknown, NoStatus,
     Phase, Pipes
<1>2. /\ TypeOK /\ TypeOK' /\ CallInv /\ OutInv /\ KillInv /\ EndInv /\ [Next]_vars
      => [Command!CommandNext]_Command!commandVars
  <2> SUFFICES ASSUME TypeOK, TypeOK', CallInv, OutInv, KillInv, EndInv, [Next]_vars
               PROVE  Command!CommandNext \/ UNCHANGED Command!commandVars
    OBVIOUS
  <2>0. /\ pc \in [Calls -> PCs] /\ pc' \in [Calls -> PCs]
        /\ child \in [Calls -> {"none", "forked", "running", "zombie", "gone"}]
        /\ put \in [Calls -> [Pipes -> Nat]] /\ took \in [Calls -> [Pipes -> Nat]]
        /\ status \in [Calls -> Statuses \cup {NoStatus, Killed, ExecFailed}]
        /\ expired \in [Calls -> BOOLEAN] /\ timedOut \in [Calls -> BOOLEAN]
        /\ DOMAIN result = Calls
    BY DEF TypeOK
  <2>1. CASE UNCHANGED vars
    <3>1. \A c \in Calls : Phase(c)' = Phase(c)
      BY <2>1 DEF vars, callVars, procVars, Phase
    <3> QED
      BY <2>1, <3>1, Stutter DEF vars, callVars, procVars, dataVars
  <2>2. ASSUME NEW c \in Calls, Caller(c)
        PROVE  Command!CommandNext \/ UNCHANGED Command!commandVars
    <3>1. ASSUME NEW l \in PCs \ {"returned", "failed"}, Goto(c, l),
                 pc[c] \notin {"returned", "failed"},
                 \A d \in Calls : child'[d] = "none" <=> child[d] = "none",
                 UNCHANGED <<put, status, expired, result>>
          PROVE  UNCHANGED Command!commandVars
      <4>1. \A d \in Calls : Phase(d)' = Phase(d)
        BY <3>1, <2>0 DEF Goto, Phase
      <4> QED
        BY <3>1, <4>1, Stutter
    <3>2. CASE Begin(c) \/ (\E p \in Pipes : OpenPipe(c, p) \/ CloseChildEnd(c, p) \/ Spawn(c, p))
               \/ SpawnFails(c) \/ CheckDeadline(c)
      <4>1. \E l \in PCs \ {"returned", "failed"} : Goto(c, l)
        BY <3>2 DEF Begin, OpenPipe, CloseChildEnd, Spawn, SpawnFails, CheckDeadline, Throw,
           PCs, Pipes, AfterPipe, AfterClose, AfterSpawn
      <4>2. pc[c] \notin {"returned", "failed"}
        BY <3>2 DEF Begin, OpenPipe, CloseChildEnd, Spawn, SpawnFails, CheckDeadline,
           Pipes, PipeAt, CloseAt, SpawnAt
      <4>3. UNCHANGED <<child, put, status, expired, result>>
        BY <3>2 DEF Begin, OpenPipe, CloseChildEnd, Spawn, SpawnFails, CheckDeadline,
           procVars, dataVars
      <4> QED
        BY <4>1, <4>2, <4>3, <3>1
    <3>3. CASE Poll(c) \/ Reap(c)
      <4>1. \E l \in PCs \ {"returned", "failed"} : Goto(c, l)
        BY <3>3 DEF Poll, Reap, Throw, PCs
      <4>2. /\ pc[c] \notin {"returned", "failed"}
            /\ UNCHANGED <<put, status, expired, result>>
        BY <3>3 DEF Poll, Reap, dataVars
      <4>3. \/ child' = child
            \/ child[c] = "zombie" /\ child' = [child EXCEPT ![c] = "gone"]
        BY <3>3 DEF Poll, Reap
      <4>4. \A d \in Calls : child'[d] = "none" <=> child[d] = "none"
        BY <4>3, <2>0
      <4> QED
        BY <4>1, <4>2, <4>4, <3>1
    <3>4. CASE Reject(c) \/ PipeFails(c) \/ ForkFails(c) \/ Unwind(c)
      <4>1. /\ pc[c] \notin {"returned", "failed"}
            /\ pc' = [pc EXCEPT ![c] = "failed"]
            /\ UNCHANGED <<child, put, status, expired, result>>
        BY <3>4 DEF Reject, PipeFails, ForkFails, Unwind, Throw, Goto, procVars, dataVars,
           Pipes, PipeAt
      <4>2. Phase(c) \in {"asked", "running"} /\ Phase(c)' = "failed"
        BY <4>1, <2>0 DEF Phase
      <4>3. \A d \in Calls \ {c} : Phase(d)' = Phase(d)
        BY <4>1, <2>0 DEF Phase
      <4>4. Command!GiveUp(c)
        BY <4>1, <4>2, <4>3 DEF Command!GiveUp
      <4> QED
        BY <4>4 DEF Command!CommandNext
    <3>5. CASE Fork(c)
      <4>1. /\ pc[c] = "fork" /\ pc' = [pc EXCEPT ![c] = "close_in"]
            /\ child' = [child EXCEPT ![c] = "forked"]
            /\ UNCHANGED <<put, status, expired, result>>
        BY <3>5 DEF Fork, Goto, dataVars
      <4>2. child[c] = "none"
        BY <4>1 DEF CallInv, Forked, AfterFork
      <4>3. Phase(c) = "asked" /\ Phase(c)' = "running"
        BY <4>1, <4>2, <2>0 DEF Phase
      <4>4. \A d \in Calls \ {c} : Phase(d)' = Phase(d)
        BY <4>1, <2>0 DEF Phase
      <4>5. Command!Start(c)
        BY <4>1, <4>3, <4>4 DEF Command!Start
      <4> QED
        BY <4>5 DEF Command!CommandNext
    <3>6. CASE Kill(c)
      <4>1. /\ pc[c] = "kill" /\ Goto(c, "reap")
            /\ UNCHANGED <<put, expired, result>>
        BY <3>6 DEF Kill, dataVars
      <4>2. CASE UNCHANGED <<child, status>>
        BY <4>1, <4>2, <3>1 DEF PCs
      <4>3. CASE child[c] \in {"forked", "running"} /\ Die(c, Killed)
        <5>1. Phase(c) = "running" /\ Phase(c)' = "running"
          BY <4>1, <4>3, <2>0 DEF Goto, Die, Phase
        <5>2. \A d \in Calls : Phase(d)' = Phase(d)
          BY <4>1, <4>3, <5>1, <2>0 DEF Goto, Die, Phase
        <5>3. status[c] = NoStatus /\ expired[c]
          BY <4>1, <4>3 DEF EndInv, KillInv
        <5>4. status' = [status EXCEPT ![c] = Killed] /\ status'[c] = Killed
          BY <4>3, <2>0 DEF Die
        <5>5. Command!End(c)
          <6>1. Killed \in {"exited", "signaled"} \X Nat
            BY DEF Killed
          <6> QED
            BY <4>1, <5>1, <5>2, <5>3, <5>4, <6>1 DEF Command!End, Command!Unknown, NoStatus
        <5> QED
          BY <5>5 DEF Command!CommandNext
      <4> QED
        BY <3>6, <4>2, <4>3 DEF Kill
    <3>7. CASE Return(c)
      <4>1. /\ pc[c] = "join" /\ pc' = [pc EXCEPT ![c] = "returned"]
            /\ result' = [result EXCEPT ![c] =
                            [exit |-> ExitCode(status[c]), timed_out |-> timedOut[c],
                             stdout |-> took[c]["out"], stderr |-> took[c]["err"]]]
            /\ UNCHANGED <<child, put, status, expired>>
        BY <3>7 DEF Return, Throw, Goto, procVars, dataVars
      <4>2. child[c] = "gone" /\ status[c] # NoStatus
        BY <4>1 DEF CallInv, EndInv
      <4>3. Phase(c) = "running" /\ Phase(c)' = "answered"
        BY <4>1, <4>2, <2>0 DEF Phase
      <4>4. \A d \in Calls \ {c} : Phase(d)' = Phase(d)
        BY <4>1, <2>0 DEF Phase
      <4>5. ASSUME NEW p \in Outputs PROVE took[c][p] = put[c][p]
        <5>1. thread[c][p] = "done"
          <6>1. p \in Pipes /\ pc[c] \in Started[p] \ {"unwind", "failed"}
            BY <4>1 DEF Outputs, Pipes, Started, Waiting
          <6>2. thread[c][p] # "off"
            BY <6>1 DEF CallInv
          <6>3. thread[c][p] # "run"
            BY <3>7, <6>1 DEF Return, Joined
          <6> QED
            BY <6>1, <6>2, <6>3 DEF TypeOK
        <5> QED
          BY <5>1 DEF OutInv
      <4>6. ExitCode(status[c]) = Command!Code(status[c])
        BY <4>2, <2>0, StatusAssumption DEF ExitCode, Command!Code, Killed, ExecFailed
      <4>7. /\ timedOut[c] => expired[c]
            /\ status[c] = Killed => timedOut[c]
            /\ timedOut[c] \in BOOLEAN
        BY <2>0 DEF KillInv
      <4>8. Command!Answer(c, timedOut[c])
        BY <4>1, <4>2, <4>3, <4>4, <4>5, <4>6, <4>7
           DEF Command!Answer, Command!Unknown, NoStatus, Command!Killed, Killed, Outputs
      <4> QED
        BY <4>7, <4>8 DEF Command!CommandNext
    <3> QED
      BY <2>2, <3>2, <3>3, <3>4, <3>5, <3>6, <3>7 DEF Caller
  <2>3. ASSUME NEW c \in Calls,
               \/ Writer(c) \/ \E p \in {"out", "err"} : Reader(c, p)
               \/ ChildExec(c) \/ ChildReads(c) \/ ChildLeavesHeir(c) \/ HeirEnds(c)
        PROVE  UNCHANGED Command!commandVars
    <3>1. UNCHANGED <<pc, status, expired, result>>
      BY <2>3 DEF Writer, WriterPut, WriterEnds, Reader, ReaderTakes, ReaderEnds, ChildExec,
         ChildReads, ChildLeavesHeir, HeirEnds, callVars, procVars
    <3>2. \A d \in Calls : child'[d] = "none" <=> child[d] = "none"
      BY <2>3, <2>0 DEF Writer, WriterPut, WriterEnds, Reader, ReaderTakes, ReaderEnds,
         ChildExec, ChildReads, ChildLeavesHeir, HeirEnds, procVars
    <3>3. \A d \in Calls : put'[d]["out"] = put[d]["out"] /\ put'[d]["err"] = put[d]["err"]
      BY <2>3, <2>0, SMTT(30) DEF Writer, WriterPut, Put, WriterEnds, Reader, ReaderTakes,
         Take, ReaderEnds, ChildExec, ChildReads, ChildLeavesHeir, HeirEnds, dataVars, Pipes
    <3>4. \A d \in Calls : Phase(d)' = Phase(d)
      BY <3>1, <3>2 DEF Phase
    <3> QED
      BY <3>1, <3>3, <3>4, Stutter
  <2>4. ASSUME NEW c \in Calls, ChildExecFails(c) \/ ChildEnds(c)
        PROVE  Command!CommandNext
    <3>1. PICK st \in Statuses \cup {ExecFailed} : Die(c, st)
      BY <2>4 DEF ChildExecFails, ChildEnds
    <3>2. /\ child[c] \in {"forked", "running"}
          /\ UNCHANGED <<pc, put, expired, result>>
      BY <2>4 DEF ChildExecFails, ChildEnds, callVars, dataVars
    <3>3. \A d \in Calls : Phase(d)' = Phase(d)
      BY <3>1, <3>2, <2>0 DEF Die, Phase
    <3>4. pc[c] # "returned"
      BY <3>2 DEF CallInv
    <3>5. Phase(c) \in {"running", "failed"} /\ status[c] = NoStatus
      BY <3>2, <3>4, <2>0 DEF Phase, EndInv
    <3>6. /\ status' = [status EXCEPT ![c] = st] /\ status'[c] = st
          /\ st \in {"exited", "signaled"} \X Nat /\ st # <<"signaled", 9>>
      BY <3>1, <2>0, StatusAssumption DEF Die, ExecFailed
    <3>7. Command!End(c)
      BY <3>2, <3>3, <3>5, <3>6 DEF Command!End, Command!Unknown, NoStatus, Command!Killed
    <3> QED
      BY <3>7 DEF Command!CommandNext
  <2>5. ASSUME NEW c \in Calls, NEW p \in {"out", "err"}, Writes(c, p)
        PROVE  Command!CommandNext
    <3>1. /\ put' = [put EXCEPT ![c][p] = @ + 1]
          /\ UNCHANGED <<pc, child, status, expired, result>>
      BY <2>5 DEF Writes, Put, callVars, procVars
    <3>2. child[c] # "none" /\ Held(<<c, p, "w">>)
      BY <2>5 DEF Writes, EndInv, Held
    <3>3. thread[c][p] # "done"
      BY <3>2 DEF OutInv, Outputs
    <3>4. pc[c] # "returned"
      BY <3>3 DEF CallInv, Pipes
    <3>5. Phase(c) \in {"running", "failed"} /\ \A d \in Calls : Phase(d)' = Phase(d)
      BY <3>1, <3>2, <3>4 DEF Phase
    <3>6. Command!Write(c)
      <4> DEFINE written(d) == [stdout |-> put[d]["out"], stderr |-> put[d]["err"]]
                 q == IF p = "out" THEN "stdout" ELSE "stderr"
      <4>1. written(c)' = [written(c) EXCEPT ![q] = @ + 1]
        BY <3>1, <2>0 DEF Pipes
      <4>2. \A d \in Calls \ {c} : written(d)' = written(d)
        BY <3>1, <2>0
      <4>3. [d \in Calls |-> written(d)]' = [[d \in Calls |-> written(d)] EXCEPT ![c] = written(c)']
        BY <4>2
      <4>4. [d \in Calls |-> written(d)]'
              = [[d \in Calls |-> written(d)] EXCEPT ![c][q] = @ + 1]
        BY <4>1, <4>3, Zenon
      <4>5. q \in {"stdout", "stderr"}
        OBVIOUS
      <4> QED
        BY <3>1, <3>5, <4>4, <4>5 DEF Command!Write
    <3> QED
      BY <3>6 DEF Command!CommandNext
  <2>6. ASSUME NEW c \in Calls, DeadlinePasses(c)
        PROVE  Command!CommandNext
    <3>1. /\ pc[c] \in {"poll", "check"} /\ ~expired[c]
          /\ expired' = [expired EXCEPT ![c] = TRUE]
          /\ UNCHANGED <<pc, child, put, status, result>>
      BY <2>6 DEF DeadlinePasses, callVars, procVars, dataVars
    <3>2. child[c] # "none"
      BY <3>1 DEF CallInv, Forked, AfterFork
    <3>3. Phase(c) = "running" /\ \A d \in Calls : Phase(d)' = Phase(d)
      BY <3>1, <3>2 DEF Phase
    <3>4. Command!Expire(c)
      BY <3>1, <3>3 DEF Command!Expire
    <3> QED
      BY <3>4 DEF Command!CommandNext
  <2> QED
    BY <2>1, <2>2, <2>3, <2>4, <2>5, <2>6 DEF Next, Child
<1> QED
  BY <1>1, <1>2, TypeCorrect, CallCorrect, OutputsDrained, KillCorrect, EndCorrect, PTL
     DEF Spec, ImplementsCommand, Command!CommandSpec
=============================================================================
