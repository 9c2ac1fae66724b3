------------------------------ MODULE ByteQueue ------------------------------
(* What a program expects of HttpReceiverBuffer (httpReceiver.hpp): a      *)
(* queue of bytes with a limited room, filled at its end and read from its *)
(* front, by lines or as a whole.                                          *)
EXTENDS Integers, Sequences, FiniteSetsExt

CONSTANTS
  Texts,    (* what may be received at once                                *)
  Limits,   (* values of maxLength, of which 0 is none                     *)
  Room

VARIABLES
  queue,    (* bytes received and not read yet                             *)
  result,   (* what the last call returned                                 *)
  output    (* what it has read                                            *)

vars == <<queue, result, output>>

Init == queue = <<>> /\ result = "none" /\ output = <<>>

Returns(r) == result' = r /\ output' = <<>> /\ UNCHANGED queue

(* A text is received whole or not at all.                                 *)
Receive(text) ==
  IF Len(queue) + Len(text) <= Room
    THEN queue' = queue \o text /\ result' = "true" /\ output' = <<>>
    ELSE Returns("false")

Drop(n) == SubSeq(queue, n + 1, Len(queue))

CarriageReturns == {i \in DOMAIN queue : queue[i] = "CR"}

(* Length of the first line, up to its carriage return.                    *)
LineLength ==
  IF CarriageReturns = {} THEN Len(queue) ELSE Min(CarriageReturns) - 1

(* A carriage return ends a line together with the line feed behind it.    *)
EndsLine(n) ==
  n + 2 <= Len(queue) /\ queue[n + 1] = "CR" /\ queue[n + 2] = "LF"

(* A line as long as the limit may count as within it or beyond it, and a  *)
(* limit of 0 as none (readLine) or as the length of the empty line        *)
(* (regexSearch).                                                          *)
Within(max) == max = 0 \/ LineLength <= max

Beyond(max) == LineLength >= max /\ Len(queue) > max

TakeLine(max) ==
  /\ EndsLine(LineLength) /\ Within(max)
  /\ output' = SubSeq(queue, 1, LineLength)
  /\ queue' = Drop(LineLength + 2)
  /\ result' = "Found"

ReadLine(max) ==
  \/ TakeLine(max)
  \/ EndsLine(LineLength) /\ Within(max) /\ Returns("RegexNotFound")
  \/ Beyond(max) /\ Returns("ReachedMaxLength")
  \/ ~EndsLine(LineLength) /\ Within(max) /\ Returns("NewlineNotFound")

ReadNewline ==
  IF EndsLine(0)
    THEN queue' = Drop(2) /\ result' = "Found" /\ output' = <<>>
    ELSE Returns("NewlineNotFound")

ReadAll == queue' = <<>> /\ output' = queue /\ result' = "all"

Reset == queue' = <<>> /\ result' = "none" /\ output' = <<>>

Next ==
  \/ \E text \in Texts : Receive(text)
  \/ \E max \in Limits : ReadLine(max)
  \/ ReadNewline \/ ReadAll \/ Reset

Spec == Init /\ [][Next]_vars

=============================================================================
