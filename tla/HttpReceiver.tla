---------------------------- MODULE HttpReceiver -----------------------------
(* Priv::HttpReceiver (source/wepp/priv/httpReceiver.cpp): one worker's    *)
(* receiver, which reads one request after the other, each from a          *)
(* connection of its own.  ReceiveWorker adds the worker that calls it.    *)
(*                                                                         *)
(* A byte is a symbol: "CR", "LF", or the text of a line or a body in one  *)
(* piece.  What the regular expressions say of a line is decided by its    *)
(* first symbol:                                                           *)
(*   "R"  request line for a known route     "V"  ... of another version   *)
(*   "N"  ... for a route that is not found  "H"  header field             *)
(*   "T"  transfer-encoding field            "B"  content-length: no number*)
(*   LengthOf  content-length fields, with their values                    *)
(* and every other line matches neither expression.                        *)
(*                                                                         *)
(* makeSpace(0) finds the 0 bytes it is asked for and never moves anything,*)
(* so that the byte at offset i is byte i + 1 of the connection.           *)
(*                                                                         *)
(* Reading a byte that was not received yet gives what an earlier request  *)
(* has left in m_buffer.  A line end found there is taken like any other   *)
(* and the reading position passes what was received; the model goes on    *)
(* from there as the code does, until the call returns or comes to a step  *)
(* whose effect the language leaves open ("undefined").                    *)
EXTENDS ReceiverBuffer, SequencesExt

CONSTANTS
  Requests,       (* what a peer may send: [lines, rest], see Bytes        *)
  LimitLine,      (* m_limitRequestLine: the documented limit plus 2       *)
  LimitHeaderLine,       (* m_limitHeaderFieldLine, likewise; nothing      *)
                         (* reads it                                       *)
  LimitHeaderFieldCount,
  Uninitialised,  (* what new char[size] may have found, and behind it     *)
  MaxCalls        (* bound on the requests of one receiver                 *)

VARIABLES
  m_buffer,     (* a record of module ReceiverBuffer                       *)
  pc,           (* where receive() is                                      *)
  peerRequest,  (* external: the request the peer sends                    *)
  closed,       (* external: the peer has closed the connection            *)
  calls,        (* calls of receive() so far                               *)
  request,      (* the Request that is filled: [line, headers, body]       *)
  headerCount,
  contentLength,               (* None: no content-length field found yet  *)
  totalReceived,               (* of the body: a size_t, of which a wrapped*)
                               (* value is a number below 0                *)
  stale,        (* history: a line end was taken that had not been received*)
                (* to its last byte                                        *)
  status, response,            (* what receive() returns                   *)
  splitEnd      (* history: a segment ended right behind the last header   *)
                (* field or inside the empty line                          *)

requestVars == <<request, headerCount, contentLength, totalReceived, stale>>
resultVars == <<status, response>>
peerVars == <<peerRequest, closed, calls>>

receiverVars == <<m_buffer, pc, peerVars, requestVars, resultVars, splitEnd>>

LengthOf == [L0 |-> 0, L1 |-> 1, L2 |-> 2]

(* The bytes of a request: its lines, each with its CR LF, and the rest.   *)
Bytes(r) == FlattenSeq([i \in DOMAIN r.lines |-> r.lines[i] \o <<"CR", "LF">>])
              \o r.rest

Stream == Bytes(peerRequest)

Symbols ==
  {"CR", "LF", "R", "V", "N", "H", "T", "B", "x"} \cup DOMAIN LengthOf

HasEmptyLine(r) == r.lines # <<>> /\ r.lines[Len(r.lines)] = <<>>

HoldsEnd(text) ==
  \E i \in 1..Len(text) - 1 : text[i] = "CR" /\ text[i + 1] = "LF"

(* Whatever a peer sends is cut behind each CR LF, up to the first empty   *)
(* line, and what follows is the rest.                                     *)
IsCutIntoLines(r) ==
  /\ r \in [lines : Seq(Seq(Symbols)), rest : Seq(Symbols)]
  /\ \A i \in DOMAIN r.lines :
       ~HoldsEnd(r.lines[i]) /\ (r.lines[i] = <<>> => i = Len(r.lines))
  /\ HasEmptyLine(r) \/ ~HoldsEnd(r.rest)

ASSUME ReceiverAssumption ==
  /\ \A r \in Requests : IsCutIntoLines(r)
  /\ LimitLine \in Nat \ {0} /\ BufferSize \in Nat
  /\ LimitLine * 2 <= BufferSize
  /\ LimitHeaderLine \in Nat
  /\ LimitHeaderFieldCount \in Nat /\ MaxCalls \in Nat
  /\ Uninitialised \subseteq [0..BufferSize -> Symbols]

(* m_headers is a map: a field replaces an earlier one of the same name.   *)
FieldName(line) ==
  IF line[1] \in DOMAIN LengthOf THEN "content-length" ELSE line[1]

SetHeader(headers, line) ==
  [name \in DOMAIN headers \cup {FieldName(line)} |->
     IF name = FieldName(line) THEN line ELSE headers[name]]

NewRequest == [line |-> <<>>, headers |-> <<>>, body |-> <<>>]

Responses ==
  {"Ok", "BadRequest", "NotFound", "NotAcceptable", "UriTooLong",
   "RequestHeaderFieldsTooLarge", "InternalServerError",
   "HttpVersionNotSupported"}

ReceiverTypeOK ==
  /\ m_buffer.bytes \in [0..BufferSize -> Symbols]
  /\ m_buffer.receive \in -1..BufferSize
  /\ m_buffer.current \in 0..BufferSize + 1
  /\ pc # "idle" /\ status # "InternalError" /\ ~stale =>
       m_buffer.current <= m_buffer.receive
  /\ {m_buffer.newline, m_buffer.lastFind} \subseteq {None} \cup 0..BufferSize
  /\ pc \in {"idle", "requestReceive", "requestParse", "headerReceive",
             "headerParse", "body", "bodyReceive", "returned", "undefined"}
  /\ peerRequest \in Requests /\ closed \in BOOLEAN /\ calls \in 0..MaxCalls
  /\ request.line \in Seq(Symbols) /\ request.body \in Seq(Symbols)
  /\ DOMAIN request.headers \subseteq Symbols \cup {"content-length"}
  /\ headerCount \in Nat /\ {contentLength, totalReceived} \subseteq Int
  /\ status \in {"none", "Ok", "Disconnected", "PeerError", "InternalError"}
  /\ response \in Responses
  /\ stale \in BOOLEAN /\ splitEnd \in BOOLEAN

(* new char[size] does not initialise m_buffer; what later calls find there*)
(* is what the earlier ones have left.                                     *)
ReceiverInit ==
  /\ \E bytes \in Uninitialised :
       m_buffer = [bytes |-> bytes, receive |-> 0, current |-> 0,
                   newline |-> None, lastFind |-> None]
  /\ pc = "idle"
  /\ peerRequest \in Requests /\ closed = FALSE /\ calls = 0
  /\ request = NewRequest /\ headerCount = 0
  /\ contentLength = None /\ totalReceived = 0
  /\ status = "none" /\ response = "Ok"
  /\ stale = FALSE /\ splitEnd = FALSE

-----------------------------------------------------------------------------
(* The beginning and the end of a call.                                    *)

(* receive(socket, request, response, ...) on a new connection whose peer  *)
(* sends r.                                                                *)
Begin(r) ==
  /\ calls < MaxCalls
  /\ calls' = calls + 1
  /\ peerRequest' = r /\ closed' = FALSE
  /\ m_buffer' = Reset(m_buffer)
  /\ headerCount' = 0 /\ contentLength' = None /\ totalReceived' = 0
  /\ response' = "Ok"
  /\ stale' = FALSE /\ splitEnd' = FALSE
  /\ pc' = "requestReceive"
  /\ UNCHANGED <<request, status>>

Return(s, r) == pc' = "returned" /\ status' = s /\ response' = r

PeerError(r) == Return("PeerError", r)

GoesOn(p) == pc' = p /\ UNCHANGED resultVars

-----------------------------------------------------------------------------
(* HttpReceiverBuffer::receive(socket), and the tests behind each call.    *)

Receiving == pc \in {"requestReceive", "headerReceive", "bodyReceive"}

AfterReceive ==
  CASE pc = "requestReceive" -> "requestParse"
    [] pc = "headerReceive"  -> "headerParse"
    [] pc = "bodyReceive"    -> "body"

Remaining == Len(Stream) - m_buffer.receive

(* Offset of the empty line behind the last header field.                  *)
EmptyLine ==
  Len(Stream) - Len(peerRequest.rest)
    - (IF HasEmptyLine(peerRequest) THEN 2 ELSE 0)

(* TCP cuts the bytes of the peer anywhere.                                *)
ReceiveSome(n) ==
  /\ Receiving
  /\ n <= FreeSpace(m_buffer) /\ n <= Remaining
  /\ LET end == m_buffer.receive + n
     IN /\ m_buffer' = Put(m_buffer, SubSeq(Stream, end - n + 1, end))
        /\ splitEnd' = (splitEnd \/ end \in {EmptyLine, EmptyLine + 1})
  /\ GoesOn(AfterReceive)
  /\ UNCHANGED <<peerVars, requestVars>>

(* Faulty: a loop that takes 0 for no data yet.                            *)
Again == GoesOn(AfterReceive)

Disconnected == Return("Disconnected", "Ok")

(* recv() returns 0: the peer has closed, or a full buffer asked for 0     *)
(* bytes.                                                                  *)
ReceiveNothing ==
  /\ Receiving
  /\ FreeSpace(m_buffer) = 0 \/ (Remaining = 0 /\ closed)
  /\ Disconnected
  /\ UNCHANGED <<m_buffer, peerVars, requestVars, splitEnd>>

(* recv() returns -1, which moves the pointer back as well.                *)
ReceiveError ==
  /\ Receiving
  /\ FreeSpace(m_buffer) > 0
  /\ m_buffer' = [m_buffer EXCEPT !.receive = @ - 1]
  /\ Return("InternalError", "InternalServerError")
  /\ UNCHANGED <<peerVars, requestVars, splitEnd>>

(* From where it can be noticed: by recv(), behind the last byte the peer  *)
(* has sent, or by send().                                                 *)
PeerCloses ==
  /\ ~closed
  /\ (Receiving /\ Remaining = 0) \/ pc = "returned"
  /\ closed' = TRUE
  /\ UNCHANGED <<m_buffer, pc, peerRequest, calls, requestVars, resultVars,
                 splitEnd>>

-----------------------------------------------------------------------------
(* regexSearch() with m_limitRequestLine, which limits the header lines too*)

Searched == FindNewline(m_buffer, LimitLine)

HasNewline == Searched.newline # None

Found == HasNewline /\ ~TooLong(Searched, LimitLine)

LineRefused ==
  \/ ReachedMaxLength(m_buffer, LimitLine)
  \/ HasNewline /\ TooLong(Searched, LimitLine)

Kind == IF Line(Searched) = <<>> THEN "x" ELSE Line(Searched)[1]

(* Nothing compares the new reading position with what was received.       *)
Advances(buffer, next) ==
  /\ m_buffer' = buffer
  /\ stale' = (stale \/ buffer.current > buffer.receive)
  /\ GoesOn(next)

-----------------------------------------------------------------------------
(* The request line.                                                       *)

Parse(p) == pc = p /\ UNCHANGED <<peerVars, splitEnd>>

RequestLineIncomplete ==
  /\ Parse("requestParse")
  /\ ~Found /\ ~LineRefused
  /\ m_buffer' = Searched
  /\ GoesOn("requestReceive")
  /\ UNCHANGED requestVars

RequestLineRefused ==
  /\ Parse("requestParse")
  /\ \/ LineRefused /\ PeerError("UriTooLong")
     \/ Found /\ Kind \notin {"R", "V", "N"} /\ PeerError("BadRequest")
     \/ Found /\ Kind = "V" /\ PeerError("HttpVersionNotSupported")
     \/ Found /\ Kind = "N" /\ PeerError("NotFound")
  /\ m_buffer' = Searched
  /\ UNCHANGED requestVars

RequestLineAccepted ==
  /\ Parse("requestParse")
  /\ Found /\ Kind = "R"
  /\ request' = [request EXCEPT !.line = Line(Searched)]
  /\ Advances(AfterLine(Searched), "headerParse")
  /\ UNCHANGED <<headerCount, contentLength, totalReceived>>

-----------------------------------------------------------------------------
(* The header fields.                                                      *)

SearchStrays == SearchIsUndefined(m_buffer, LimitLine)

HeaderParse ==
  /\ Parse("headerParse")
  /\ headerCount <= LimitHeaderFieldCount /\ ~SearchStrays

TooManyHeaders ==
  /\ Parse("headerParse")
  /\ headerCount > LimitHeaderFieldCount
  /\ PeerError("BadRequest")
  /\ UNCHANGED <<m_buffer, requestVars>>

HeaderIncomplete ==
  /\ HeaderParse
  /\ ~Found /\ ~LineRefused
  /\ m_buffer' = Searched
  /\ GoesOn("headerReceive")
  /\ UNCHANGED requestVars

IsLength == Kind \in DOMAIN LengthOf

(* Faulty: the value is compared before there is one.                      *)
DiffersFromNone == IsLength /\ contentLength # LengthOf[Kind]

(* Do not allow multiple content-length fields with different values.      *)
Contradicts ==
  IsLength /\ contentLength # None /\ contentLength # LengthOf[Kind]

HeaderRefused ==
  /\ HeaderParse
  /\ \/ LineRefused /\ PeerError("RequestHeaderFieldsTooLarge")
     \/ Found /\ Kind \notin {"H", "T"} /\ ~IsLength /\ PeerError("BadRequest")
     \/ Found /\ Kind = "T" /\ PeerError("NotAcceptable")
     \/ Found /\ Contradicts /\ PeerError("BadRequest")
  /\ m_buffer' = Searched
  /\ UNCHANGED requestVars

HeaderIsAccepted ==
  /\ headerCount <= LimitHeaderFieldCount
  /\ Found /\ (Kind = "H" \/ IsLength) /\ ~Contradicts

(* The byte behind the end of the buffer was taken for the line feed:      *)
(* readNewline() goes on reading there.                                    *)
LeavesBuffer == HeaderIsAccepted /\ AfterLine(Searched).current > BufferSize

(* readNewline() looks for the empty line right behind the field, whether  *)
(* it was received or not.                                                 *)
HeaderAccepted ==
  /\ HeaderParse /\ HeaderIsAccepted /\ ~LeavesBuffer
  /\ request' = [request EXCEPT !.headers = SetHeader(@, Line(Searched))]
  /\ headerCount' = headerCount + 1
  /\ contentLength' = IF IsLength THEN LengthOf[Kind] ELSE contentLength
  /\ UNCHANGED totalReceived
  /\ LET next == AfterLine(Searched)
     IN IF NewlineFollows(next) THEN Advances(AfterNewline(next), "body")
                                ELSE Advances(next, "headerParse")

-----------------------------------------------------------------------------
(* The body.                                                               *)

BodyIsPresent == contentLength > 0

NoBody ==
  /\ Parse("body")
  /\ ~BodyIsPresent
  /\ Return("Ok", "Ok")
  /\ UNCHANGED <<m_buffer, requestVars>>

Complete == totalReceived' = contentLength

(* readAll() takes what there is, and receive() is called for more.  Behind*)
(* a reading position that has passed what was received there is a wrapped *)
(* number of bytes: append() is given a range that ends before it begins,  *)
(* from which std::copy may copy nothing, the position moves back, and the *)
(* number is added.                                                        *)
ReadBody ==
  /\ Parse("body")
  /\ BodyIsPresent
  /\ request' = [request EXCEPT !.body = @ \o Unread(m_buffer)]
  /\ totalReceived' = totalReceived + (m_buffer.receive - m_buffer.current)
  /\ m_buffer' = AfterAll(m_buffer)
  /\ IF Complete THEN Return("Ok", "Ok") ELSE GoesOn("bodyReceive")
  /\ UNCHANGED <<headerCount, contentLength, stale>>

AppendsWrapped ==
  Parse("body") /\ BodyIsPresent /\ m_buffer.receive < m_buffer.current

StraysInHeader ==
  /\ Parse("headerParse") /\ headerCount <= LimitHeaderFieldCount
  /\ SearchStrays \/ LeavesBuffer

(* A step whose effect the language leaves open: the code may do anything. *)
Undefined ==
  /\ StraysInHeader \/ AppendsWrapped
  /\ GoesOn("undefined")
  /\ UNCHANGED <<m_buffer, requestVars>>

ReceiverStep ==
  \/ \E n \in 1..BufferSize : ReceiveSome(n)
  \/ ReceiveNothing
  \/ RequestLineIncomplete \/ RequestLineRefused \/ RequestLineAccepted
  \/ TooManyHeaders \/ HeaderIncomplete \/ HeaderRefused \/ HeaderAccepted
  \/ NoBody \/ ReadBody \/ Undefined

-----------------------------------------------------------------------------
(* Properties.                                                             *)

Fields ==
  SubSeq(peerRequest.lines, 2, Len(peerRequest.lines)
                                 - IF HasEmptyLine(peerRequest) THEN 1 ELSE 0)

LastField(name) ==
  Fields[Max({i \in DOMAIN Fields : FieldName(Fields[i]) = name})]

(* The request is the one the peer has sent: its request line, of each     *)
(* name the last header field, none of the body among them, and a body of  *)
(* the announced length.                                                   *)
SentByPeer ==
  /\ HasEmptyLine(peerRequest)
  /\ request.line = peerRequest.lines[1]
  /\ DOMAIN request.headers = {FieldName(Fields[i]) : i \in DOMAIN Fields}
  /\ \A n \in DOMAIN request.headers : request.headers[n] = LastField(n)
  /\ Len(request.body) = IF contentLength = None THEN 0 ELSE contentLength
  /\ IsPrefix(request.body, peerRequest.rest)

(* "Make sure to reset the buffer, due to possibility of multiple calls of *)
(* this function." (httpReceiver.cpp:297): whatever earlier calls have left*)
(* behind, a request that is accepted is the one the peer has sent.        *)
AcceptsWhatWasSent == status = "Ok" => SentByPeer

(* The code keeps that in every call in which no line end was taken before *)
(* it had come completely, however the bytes are cut into segments and     *)
(* whatever else is left in the buffer or in the receiver.                 *)
AcceptedAsSent == status = "Ok" /\ ~stale => SentByPeer

(* Bytes of an earlier request come in at one kind of place only: when     *)
(* what was received ends with a carriage return, or with the line feed    *)
(* behind a header field.                                                  *)
EarlierBytesOnlyAtLineEnd ==
  [][~stale /\ stale' =>
       /\ m_buffer.receive > 0
       /\ Stream[m_buffer.receive] \in {"CR", "LF"}]_receiverVars

(* A request the receiver ought to accept: within the documented limits,   *)
(* with at least one header field, and with the body it announces.         *)
Announced == {LengthOf[k] : k \in DOMAIN LengthOf \cap
                                  {Fields[i][1] : i \in DOMAIN Fields}}

WellFormed ==
  /\ HasEmptyLine(peerRequest) /\ peerRequest.lines[1][1] = "R"
  /\ Len(Fields) \in 1..LimitHeaderFieldCount
  /\ \A i \in DOMAIN peerRequest.lines :
       /\ Len(peerRequest.lines[i]) <= LimitLine - 2
       /\ \A j \in DOMAIN peerRequest.lines[i] :
            peerRequest.lines[i][j] \notin {"CR", "LF"}
  /\ \A i \in DOMAIN Fields : Fields[i][1] \in {"H"} \cup DOMAIN LengthOf
  /\ \/ Announced = {} /\ peerRequest.rest = <<>>
     \/ Announced = {Len(peerRequest.rest)}

(* A well-formed request is refused in two cases only: when its empty line *)
(* comes in another segment than the end of its last header field, and when*)
(* bytes of an earlier request were taken for one of its line ends.        *)
RefusedForSplitEndOnly ==
  status = "PeerError" /\ WellFormed => splitEnd \/ stale

(* "Maximum allowed length of request line", "... of header line", "Maximum*)
(* allowed numbers of header fields" (httpReceiver.hpp:138-140): what is   *)
(* accepted keeps these limits.                                            *)
DocumentedLimits ==
  status = "Ok" =>
    /\ Len(request.line) <= LimitLine - 2
    /\ headerCount <= LimitHeaderFieldCount
    /\ \A n \in DOMAIN request.headers :
         Len(request.headers[n]) <= LimitHeaderLine - 2

(* The limits the code keeps instead, in every call, bytes of an earlier   *)
(* request taken for this one's included: one byte and one field beyond the*)
(* documented ones, and the request line's limit for the header lines too. *)
OneBeyondAtMost ==
  /\ Len(request.line) <= LimitLine - 2 + 1
  /\ headerCount <= LimitHeaderFieldCount + 1
  /\ \A n \in DOMAIN request.headers :
       Len(request.headers[n]) <= LimitLine - 2 + 1

(* "The receive method internally uses two sets of buffers, used for       *)
(* swapping if one of them gets full." (httpReceiver.hpp:150): a request   *)
(* that fills the buffer is not taken for a peer that disconnected.        *)
DisconnectedMeansClosed == status = "Disconnected" => closed

=============================================================================
