------------------------------- MODULE Process -------------------------------
(***************************************************************************)
(* The server as one process: main starts it (Startup) and, once it is     *)
(* constructed, McpServer::run lets the pool of threads serve requests     *)
(* (McpServer).  Until then nobody can connect, and run comes back only    *)
(* when the pool has no request left: httplib's listen waits for its       *)
(* threads, which empty the queue.                                         *)
(***************************************************************************)
EXTENDS Startup, McpServer

CONSTANT Watched    \* bound: the environments and arguments of the starts after
                    \* which requests come

ASSUME WatchedAssumption == Watched \subseteq EnvModes \X EnvPorts \X ArgLists

processVars == <<startVars, vars>>

ProcessInit == StartInit /\ Init

Idle == queue = <<>> /\ \A w \in Workers : serving[w] = Nobody

\* A step of main.
Main ==
    /\ StartNext
    /\ phase = "serving" => Idle
    /\ UNCHANGED vars

\* A step of the acceptor or of a thread of the pool.
Run(step) ==
    /\ phase = "serving" /\ <<envMode, envPort, args>> \in Watched
    /\ step
    /\ UNCHANGED startVars

ProcessNext ==
    \/ Main
    \/ Run(\E r \in Requests : Arrive(r))
    \/ \E w \in Workers : Run(Worker(w))

\* The threads of the pool are scheduled (see ServerFairness).
ProcessFairness == \A w \in Workers : WF_processVars(Run(Serve(w)))

ProcessSpec == ProcessInit /\ [][ProcessNext]_processVars /\ ProcessFairness
=============================================================================
