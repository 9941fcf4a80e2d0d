-------------------------------- MODULE MCExec --------------------------------
(***************************************************************************)
(* ExecCommand on small instances.                                         *)
(***************************************************************************)
EXTENDS ExecCommand

\* A program that succeeds, and one stopped by a signal of somebody else.
OneStatus == {<<"exited", 0>>}
TwoStatuses == {<<"exited", 0>>, <<"signaled", 15>>}
=============================================================================
