--------------------------- MODULE AbstractCommand ---------------------------
(***************************************************************************)
(* What fs_exec promises of a command: it is started at most once, may     *)
(* write until it is answered and never after, and the answer holds all    *)
(* that it and its descendants have written, and how it ended.  It is      *)
(* killed only after its deadline, and then the answer says so.  There are *)
(* no pipes, threads or process ids here.                                  *)
(***************************************************************************)
EXTENDS Integers

CONSTANT Calls

VARIABLES
    phase,      \* asked, running, answered or failed
    written,    \* how much was written to stdout and stderr
    fate,       \* how the program ended: its wait status
    late,       \* has the deadline passed?
    answer

commandVars == <<phase, written, fate, late, answer>>

Unknown == <<"none", 0>>
Killed == <<"signaled", 9>>
NoAnswer == [exit |-> -1, timed_out |-> FALSE, stdout |-> 0, stderr |-> 0]

\* A program ended by a signal counts as 128 and the number of the signal.
Code(f) == IF f[1] = "exited" THEN f[2] ELSE 128 + f[2]

CommandInit ==
    /\ phase = [c \in Calls |-> "asked"]
    /\ written = [c \in Calls |-> [stdout |-> 0, stderr |-> 0]]
    /\ fate = [c \in Calls |-> Unknown]
    /\ late = [c \in Calls |-> FALSE]
    /\ answer = [c \in Calls |-> NoAnswer]

Start(c) ==
    /\ phase[c] = "asked"
    /\ phase' = [phase EXCEPT ![c] = "running"]
    /\ UNCHANGED <<written, fate, late, answer>>

\* A call may fail before and after the start of its program.
GiveUp(c) ==
    /\ phase[c] \in {"asked", "running"}
    /\ phase' = [phase EXCEPT ![c] = "failed"]
    /\ UNCHANGED <<written, fate, late, answer>>

Write(c) ==
    /\ phase[c] \in {"running", "failed"}
    /\ \E p \in {"stdout", "stderr"} :
          written' = [written EXCEPT ![c][p] = @ + 1]
    /\ UNCHANGED <<phase, fate, late, answer>>

Expire(c) ==
    /\ phase[c] = "running" /\ ~late[c]
    /\ late' = [late EXCEPT ![c] = TRUE]
    /\ UNCHANGED <<phase, written, fate, answer>>

\* The program ends, or is killed.
End(c) ==
    /\ phase[c] \in {"running", "failed"} /\ fate[c] = Unknown
    /\ fate'[c] \in {"exited", "signaled"} \X Nat
    /\ fate'[c] = Killed => phase[c] = "running" /\ late[c]
    /\ fate' = [fate EXCEPT ![c] = fate'[c]]
    /\ UNCHANGED <<phase, written, late, answer>>

Answer(c, timed_out) ==
    /\ phase[c] = "running" /\ fate[c] # Unknown
    /\ timed_out => late[c]
    /\ fate[c] = Killed => timed_out
    /\ phase' = [phase EXCEPT ![c] = "answered"]
    /\ answer' = [answer EXCEPT ![c] =
                    [exit |-> Code(fate[c]), timed_out |-> timed_out,
                     stdout |-> written[c].stdout, stderr |-> written[c].stderr]]
    /\ UNCHANGED <<written, fate, late>>

CommandNext ==
    \E c \in Calls :
        \/ Start(c) \/ GiveUp(c) \/ Write(c) \/ Expire(c) \/ End(c)
        \/ \E t \in BOOLEAN : Answer(c, t)

CommandSpec == CommandInit /\ [][CommandNext]_commandVars
=============================================================================
