--------------------------- MODULE MCHttpReceiver ----------------------------
(* A worker with requests of every kind its receiver tells apart, cut into *)
(* segments in every way, two in a row for one receiver; or a program that *)
(* calls the functions of a smaller buffer itself.                         *)
EXTENDS ReceiveWorker

CONSTANTS Texts, Limits, CallsBufferSize

VARIABLES
  user,         (* "worker" or "program"                                   *)
  callBuffer, result, output, astray, search, mixed   (* of the program    *)

callVars == <<callBuffer, result, output, astray, search, mixed>>

(* The bytes that a program puts in, and limits that are lengths.          *)
ASSUME CallsAssumption ==
  /\ CallsBufferSize \in Nat /\ Limits \subseteq Nat
  /\ Texts \subseteq Seq({"CR", "LF", "x"})

Calls == INSTANCE BufferCalls WITH
           BufferSize <- CallsBufferSize, buffer <- callBuffer

Req(lines, rest) == [lines |-> lines, rest |-> rest]

MCRequests ==
  { Req(<<<<"R">>, <<"H">>, <<>>>>, <<>>),
    Req(<<<<"R", "x">>, <<"L2">>, <<>>>>, <<"x", "x">>),
    \* two fields of the same name
    Req(<<<<"R">>, <<"H", "x">>, <<"H">>, <<>>>>, <<>>),
    \* longer than the buffer
    Req(<<<<"R">>, <<"L2">>, <<"L2">>, <<>>>>, <<"x", "x">>),
    \* two announced lengths, and more bytes than announced
    Req(<<<<"R">>, <<"L1">>, <<"L2">>, <<>>>>, <<"x">>),
    Req(<<<<"R">>, <<"L1">>, <<>>>>, <<"x", "x">>),
    Req(<<<<"R">>, <<"L0">>, <<>>>>, <<>>),
    \* too many header fields, no header field, no empty line
    Req(<<<<"R">>, <<"H">>, <<"H">>, <<"H">>, <<>>>>, <<>>),
    Req(<<<<"R">>, <<>>>>, <<>>),
    Req(<<<<"R">>, <<"H">>>>, <<>>),
    \* a carriage return in the last byte of the buffer
    Req(<<<<"R", "x">>, <<"H", "x">>, <<"H", "x", "x">>>>, <<>>),
    \* lines at the limit, beyond it, and with a carriage return inside
    Req(<<<<"R", "x", "x">>, <<"H", "x", "x">>, <<>>>>, <<>>),
    Req(<<<<"R", "x", "x", "x">>>>, <<>>),
    Req(<<<<"R">>, <<"H", "x", "x", "x">>>>, <<>>),
    Req(<<<<"R", "CR">>, <<"H">>>>, <<>>),
    \* lines that are refused
    Req(<<<<"V">>>>, <<>>), Req(<<<<"N">>>>, <<>>), Req(<<<<"x">>>>, <<>>),
    Req(<<<<"R">>, <<"T">>>>, <<>>), Req(<<<<"R">>, <<"B">>>>, <<>>) }

(* A buffer full of one symbol, and also one full of line feeds.           *)
MCBlank == {[i \in 0..BufferSize |-> "x"]}

MCUninitialised == MCBlank \cup {[i \in 0..BufferSize |-> "LF"]}

MCAnswers ==
  {[status |-> "Ok", body |-> <<"x", "x">>],
   [status |-> "NotFound", body |-> <<>>]}

MCTexts == {<<"x">>, <<"CR">>, <<"LF">>, <<"CR", "LF">>}

-----------------------------------------------------------------------------

(* Only the user makes a choice in its initial state.                      *)
MCInit ==
  /\ Init /\ Calls!Init
  /\ \/ user = "worker" /\ callBuffer.bytes[CallsBufferSize] = "x"
     \/ /\ user = "program"
        /\ m_buffer.bytes = CHOOSE bytes \in Uninitialised : TRUE
        /\ peerRequest = CHOOSE r \in Requests : TRUE

ByWorker == user = "worker" /\ UNCHANGED <<user, callVars>>

ByProgram == user = "program" /\ UNCHANGED <<user, vars>>

MCNext == (ByWorker /\ Next) \/ (ByProgram /\ Calls!Next)

MCSpec == MCInit /\ [][MCNext]_<<vars, user, callVars>>

(* The worker's thread is scheduled, the bytes of the peer arrive and it   *)
(* reads its response; it need not close and recv() need not fail.         *)
FairSpec == MCSpec /\ WF_<<vars, user, callVars>>(ByWorker /\ WorkerStep)

TypesOK == TypeOK /\ Calls!TypeOK

(* Properties of module BufferCalls, where the program is the user.        *)
IsByteQueue == Calls!IsByteQueue

OnlyMixedSearchesGoAstray == Calls!OnlyMixedSearchesGoAstray
=============================================================================
