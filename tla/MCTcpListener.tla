--------------------------- MODULE MCTcpListener ----------------------------
(* Three listen() calls, three connections and one accept() that fails: a  *)
(* task that waits behind another, connections that wait for a task, and a *)
(* stop() at every control point of the thread.                            *)
EXTENDS TcpListener

CONSTANTS k1, k2, k3

MCTasks == 1..3
MCConns == {k1, k2, k3}
=============================================================================
