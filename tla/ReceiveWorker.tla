---------------------------- MODULE ReceiveWorker ----------------------------
(* A worker of the receive pool (include/wepp/priv/receivePool.inl) with   *)
(* the function the server gives it (source/wepp/http/server.cpp:75-120):  *)
(* a connection is received from, handed to the callback of its route,     *)
(* answered and closed.  Router models route.find().                       *)
EXTENDS HttpReceiver

CONSTANT Answers   (* external: what a callback puts into the response,    *)
                   (* [status, body]                                       *)

ASSUME AnswersAssumption ==
  Answers \subseteq [status : Responses, body : Seq(Symbols)]

VARIABLES
  phase,        (* where execute() is                                      *)
  called,       (* history: the requests the callback was called with      *)
  responseBody,
  delivered,    (* what of the response was sent: its start is one symbol, *)
                (* the status                                              *)
  short         (* history: a send() has sent less than it was given       *)

answerVars == <<responseBody, called>>
linkVars == <<delivered, short>>
workerVars == <<phase, answerVars, linkVars>>

vars == <<receiverVars, workerVars>>

TypeOK ==
  /\ ReceiverTypeOK
  /\ phase \in {"waiting", "receiving", "sendStart", "sendBody", "release",
                "terminated"}
  /\ \A i \in DOMAIN called : DOMAIN called[i] = DOMAIN NewRequest
  /\ responseBody \in {<<>>} \cup {a.body : a \in Answers}
  /\ delivered \in Seq(Responses \cup Symbols \cup {a.status : a \in Answers})
  /\ short \in BOOLEAN

Init ==
  /\ ReceiverInit
  /\ phase = "waiting"
  /\ called = <<>> /\ responseBody = <<>>
  /\ delivered = <<>> /\ short = FALSE

(* execute(socket), with the receiver of the worker.                       *)
Execute(r) ==
  /\ phase = "waiting"
  /\ Begin(r)
  /\ phase' = "receiving"
  /\ UNCHANGED <<answerVars, linkVars>>

Receive ==
  phase = "receiving" /\ ReceiverStep /\ UNCHANGED workerVars

FailReceive ==
  phase = "receiving" /\ ReceiveError /\ UNCHANGED workerVars

ClosePeer ==
  phase # "waiting" /\ PeerCloses /\ UNCHANGED workerVars

Returned(next) ==
  /\ phase = "receiving" /\ pc = "returned"
  /\ phase' = next
  /\ UNCHANGED <<m_buffer, pc, peerVars, requestVars, status, splitEnd,
                 linkVars>>

(* Faulty: every request that was not cut off is handed over.              *)
HandsOverRefused == status # "Disconnected"

(* callbackFunction is set by the route search, which every Ok has behind  *)
(* it.                                                                     *)
HandsOver == status = "Ok"

CallBack ==
  /\ HandsOver
  /\ \E a \in Answers : response' = a.status /\ responseBody' = a.body
  /\ called' = Append(called, request)
  /\ Returned("sendStart")

NoCallback ==
  /\ ~HandsOver
  /\ Returned(IF status = "Disconnected" THEN "release" ELSE "sendStart")
  /\ UNCHANGED <<response, answerVars>>

(* send(): the kernel takes any part of the text, and none on an error; the*)
(* result is not looked at.                                                *)
Send(text, next) ==
  /\ \E n \in 0..Len(text) :
       /\ delivered' = delivered \o SubSeq(text, 1, n)
       /\ short' = (short \/ n < Len(text))
  /\ phase' = next
  /\ UNCHANGED <<receiverVars, answerVars>>

SendStart == phase = "sendStart" /\ Send(<<response>>, "sendBody")

SendBody == phase = "sendBody" /\ Send(responseBody, "release")

(* send() to a peer that has closed or reset its connection raises         *)
(* SIGPIPE, which nothing in the library handles.                          *)
Terminate ==
  /\ phase \in {"sendStart", "sendBody"}
  /\ closed \/ status = "InternalError"
  /\ phase' = "terminated"
  /\ UNCHANGED <<receiverVars, answerVars, linkVars>>

(* Faulty: the Request outlives the connection.                            *)
SameRequest == request

FreshRequest == NewRequest

(* ~Socket() closes the connection when the last shared_ptr to it is gone; *)
(* the Request, the Response and the counters were local to the call.      *)
Release ==
  /\ phase = "release"
  /\ phase' = "waiting" /\ pc' = "idle"
  /\ closed' = FALSE /\ splitEnd' = FALSE /\ stale' = FALSE
  /\ request' = FreshRequest
  /\ headerCount' = 0 /\ contentLength' = None /\ totalReceived' = 0
  /\ status' = "none" /\ response' = "Ok"
  /\ called' = <<>> /\ responseBody' = <<>>
  /\ delivered' = <<>> /\ short' = FALSE
  /\ UNCHANGED <<m_buffer, peerRequest, calls>>

WorkerStep ==
  \/ Receive \/ CallBack \/ NoCallback
  \/ SendStart \/ SendBody \/ Release

Next ==
  \/ \E r \in Requests : Execute(r)
  \/ WorkerStep
  \/ FailReceive \/ ClosePeer \/ Terminate

Spec == Init /\ [][Next]_vars

-----------------------------------------------------------------------------
(* Properties.                                                             *)

(* A connection is answered as it was handled: the callback has seen an    *)
(* accepted request once and a refused one never; a peer that disconnected *)
(* gets nothing; every other one gets one response with the status and the *)
(* body it was given, as far as send() took it.  When the connection of a  *)
(* well-formed request is closed that was accepted without bytes of an     *)
(* earlier one everything was received (bytes nobody has received would    *)
(* make close() reset the connection, which may cost the peer its          *)
(* response).                                                              *)
AnsweredAsHandled ==
  phase = "release" =>
    /\ called = IF status = "Ok" THEN <<request>> ELSE <<>>
    /\ status = "Disconnected" => delivered = <<>>
    /\ status # "Disconnected" /\ ~short =>
         delivered = <<response>> \o responseBody
    /\ status = "PeerError" => response # "Ok" /\ responseBody = <<>>
    /\ status = "Ok" /\ WellFormed /\ ~stale => Remaining = 0

(* A worker comes free again once its peer has closed, in the middle of a  *)
(* line, of the header or of the body, unless it has come to a step whose  *)
(* effect is undefined; and once its peer has sent a well-formed request,  *)
(* unless it has taken bytes of an earlier one for its line ends, after    *)
(* which it may wait for a body nobody has announced.                      *)
Freed == phase \in {"waiting", "terminated"}

WorkerIsFreed ==
  /\ (phase = "receiving" /\ closed) ~> (Freed \/ pc = "undefined")
  /\ (phase = "receiving" /\ WellFormed)
       ~> (Freed \/ stale \/ pc = "undefined")

=============================================================================
