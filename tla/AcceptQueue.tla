----------------------------- MODULE AcceptQueue -----------------------------
(* What TcpListener promises (include/wepp/socket/tcpListener.hpp): the    *)
(* calls of listen() are answered in their order with the connections in   *)
(* theirs, each connection going to one call at most.  A listener that was *)
(* closed refuses the calls that wait; of the connections on offer one     *)
(* only, which it had already accepted, may still be handed out.           *)
EXTENDS Naturals, Sequences

CONSTANTS Tasks, Conns, NoConn

VARIABLES
  open,
  waiting,   (* calls of listen() without an answer, in order              *)
  offered,   (* connections on offer, in order                             *)
  status,    (* of each call: "Unused", "Pending", "Successful", "Failed"  *)
  value      (* the connection each call was answered with                 *)

vars == <<open, waiting, offered, status, value>>

Init ==
  /\ open = FALSE /\ waiting = <<>> /\ offered = <<>>
  /\ status = [t \in Tasks |-> "Unused"]
  /\ value = [t \in Tasks |-> NoConn]

Call(t) ==
  /\ status[t] = "Unused"
  /\ \/ /\ open
        /\ waiting' = Append(waiting, t)
        /\ status' = [status EXCEPT ![t] = "Pending"]
     \/ /\ ~open
        /\ status' = [status EXCEPT ![t] = "Failed"]
        /\ UNCHANGED waiting
  /\ UNCHANGED <<open, offered, value>>

Offer(c) ==
  /\ offered' = Append(offered, c)
  /\ UNCHANGED <<open, waiting, status, value>>

(* The oldest call gets the oldest connection.                             *)
Answer ==
  /\ waiting # <<>> /\ offered # <<>>
  /\ status' = [status EXCEPT ![Head(waiting)] = "Successful"]
  /\ value' = [value EXCEPT ![Head(waiting)] = Head(offered)]
  /\ waiting' = Tail(waiting) /\ offered' = Tail(offered)
  /\ UNCHANGED open

Open ==
  /\ ~open /\ open'
  /\ offered' = <<>>
  /\ UNCHANGED <<waiting, status, value>>

(* One connection may have been accepted and not handed out yet.           *)
Withdraw == offered' = <<>> \/ (offered # <<>> /\ offered' = <<Head(offered)>>)

Refuse ==
  /\ status' = [t \in Tasks |->
                  IF \E i \in DOMAIN waiting : waiting[i] = t
                    THEN "Failed" ELSE status[t]]
  /\ waiting' = <<>>

Close ==
  /\ ~open'
  /\ Withdraw
  /\ Refuse \/ UNCHANGED <<waiting, status>>
  /\ UNCHANGED value

Next ==
  \/ \E t \in Tasks : Call(t)
  \/ \E c \in Conns : Offer(c)
  \/ Answer \/ Open \/ Close

Spec == Init /\ [][Next]_vars

=============================================================================
