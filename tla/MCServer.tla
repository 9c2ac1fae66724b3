------------------------------ MODULE MCServer -------------------------------
(* Three listen tasks and two connections: one connection is handed over   *)
(* while the next arrives, and a task is left to fail in.                  *)
EXTENDS Server

CONSTANTS k1, k2

MCTasks == 1..3
MCConns == {k1, k2}
=============================================================================
