----------------------------- MODULE WorkQueue ------------------------------
(* What ThreadPool promises (include/wepp/priv/threadPool.hpp): the works  *)
(* are handed to the workers in the order of enqueue(), each to one worker *)
(* that has no other one under way, and each is begun once at most, by the *)
(* worker it was handed to.  A work may be forgotten between the two.  A   *)
(* stop gives up the works that wait, when none is under way any more.     *)
EXTENDS Sequences

CONSTANTS Works, Workers, NoArgs

VARIABLES
  submitted,  (* works enqueued so far                                     *)
  waiting,    (* works handed to nobody yet, in order                      *)
  given,      (* of each worker: the work it was handed and has not begun  *)
  doing,      (* of each worker: the work it has begun and not finished    *)
  begun       (* works begun so far                                        *)

vars == <<submitted, waiting, given, doing, begun>>

Init ==
  /\ submitted = {} /\ waiting = <<>> /\ begun = {}
  /\ given = [w \in Workers |-> NoArgs]
  /\ doing = [w \in Workers |-> NoArgs]

Idle(w) == given[w] = NoArgs /\ doing[w] = NoArgs

Submit(x) ==
  /\ x \notin submitted
  /\ submitted' = submitted \cup {x}
  /\ waiting' = Append(waiting, x)
  /\ UNCHANGED <<given, doing, begun>>

Give(w) ==
  /\ Idle(w) /\ waiting # <<>>
  /\ given' = [given EXCEPT ![w] = Head(waiting)]
  /\ waiting' = Tail(waiting)
  /\ UNCHANGED <<submitted, doing, begun>>

Begin(w) ==
  /\ given[w] \in Works \ begun /\ doing[w] = NoArgs
  /\ given' = [given EXCEPT ![w] = NoArgs]
  /\ doing' = [doing EXCEPT ![w] = given[w]]
  /\ begun' = begun \cup {given[w]}
  /\ UNCHANGED <<submitted, waiting>>

Finish(w) ==
  /\ doing' = [doing EXCEPT ![w] = NoArgs]
  /\ UNCHANGED <<submitted, waiting, given, begun>>

Forget(w) ==
  /\ given' = [given EXCEPT ![w] = NoArgs]
  /\ UNCHANGED <<submitted, waiting, doing, begun>>

GiveUp ==
  /\ \A w \in Workers : Idle(w)
  /\ waiting' = <<>>
  /\ UNCHANGED <<submitted, given, doing, begun>>

Next ==
  \/ \E x \in Works : Submit(x)
  \/ \E w \in Workers : Give(w) \/ Begin(w) \/ Finish(w) \/ Forget(w)
  \/ GiveUp

Spec == Init /\ [][Next]_vars

=============================================================================
