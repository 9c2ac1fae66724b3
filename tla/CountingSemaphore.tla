------------------------- MODULE CountingSemaphore --------------------------
(* What class Semaphore promises (include/wepp/semaphore.hpp): a count of  *)
(* notifications, each of which lets one thread through, in no particular  *)
(* order.  ThreadPool and TcpListener rely on no more than this.           *)
EXTENDS Naturals

CONSTANT Threads

VARIABLES
  value,    (* notifications nobody has used yet                           *)
  blocked   (* threads that have not got through wait() yet                *)

vars == <<value, blocked>>

Init == value = 0 /\ blocked = {}

Use == value > 0 /\ value' = value - 1

(* A call that gets through at once.                                       *)
Pass == Use /\ UNCHANGED blocked

Block(t) ==
  /\ t \notin blocked
  /\ value = 0
  /\ blocked' = blocked \cup {t}
  /\ UNCHANGED value

Grant(t) == t \in blocked /\ Use /\ blocked' = blocked \ {t}

Post == value' = value + 1 /\ UNCHANGED blocked

Clear == value' = 0 /\ UNCHANGED blocked

Next ==
  \/ Pass \/ Post \/ Clear
  \/ \E t \in Threads : Block(t) \/ Grant(t)

(* A notification does not lie unused for ever while a thread waits.       *)
Spec == Init /\ [][Next]_vars /\ WF_vars(\E t \in Threads : Grant(t))
=============================================================================
