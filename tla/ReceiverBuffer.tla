--------------------------- MODULE ReceiverBuffer ---------------------------
(* Priv::HttpReceiverBuffer (source/wepp/priv/httpReceiver.cpp): its       *)
(* functions on a record of its members.                                   *)
(*                                                                         *)
(*   bytes     m_buffer, and the byte behind its end                       *)
(*   receive   m_currentReceivePointer, and m_receivedPosition             *)
(*   current   m_currentPointer                                            *)
(*   newline   m_newlinePointer; m_newlineResult is Found exactly while    *)
(*             it is not NULL                                              *)
(*   lastFind  m_lastFindnewlinePointer                                    *)
(*                                                                         *)
(* Pointers are offsets into m_buffer, and NULL is None.  A byte is a      *)
(* symbol, of which "CR" and "LF" matter here.                             *)
EXTENDS Integers, Sequences, FiniteSetsExt

CONSTANT BufferSize   (* m_bufferSize                                      *)

None == -1

(* reset() leaves the bytes where they are.                                *)
Reset(b) ==
  [b EXCEPT !.receive = 0, !.current = 0, !.newline = None, !.lastFind = None]

Text(b, from, to) == [i \in 1..(to - from) |-> b.bytes[from + i - 1]]

Unread(b) == Text(b, b.current, b.receive)

Put(b, text) ==
  [b EXCEPT !.bytes = [i \in 0..BufferSize |->
                         IF b.receive <= i /\ i < b.receive + Len(text)
                           THEN text[i - b.receive + 1] ELSE @[i]],
            !.receive = @ + Len(text)]

-----------------------------------------------------------------------------
(* makeSpace(requiredSpace).                                               *)

(* Faulty: the bytes that were read count as free.                         *)
SpaceBehindRead(b) == BufferSize - b.current

FreeSpace(b) == BufferSize - b.receive

Fits(b, required) == required <= FreeSpace(b) + b.current

(* Faulty: a pointer that stays behind when the bytes move.                *)
StaysBehind(p, distance) == p

MovesAlong(p, distance) == IF p = None THEN None ELSE p - distance

(* The unread bytes, moved to the beginning of the buffer.                 *)
Moved(b) ==
  [bytes    |-> [i \in 0..BufferSize |->
                   IF i < b.receive - b.current THEN b.bytes[i + b.current]
                                                ELSE b.bytes[i]],
   receive  |-> b.receive - b.current,
   current  |-> 0,
   newline  |-> MovesAlong(b.newline, b.current),
   lastFind |-> MovesAlong(b.lastFind, b.current)]

MakeSpace(b, required) == IF required <= FreeSpace(b) THEN b ELSE Moved(b)

Moves(b, required) == required > FreeSpace(b) /\ Fits(b, required)

(* std::memcpy from a range to one that overlaps it is undefined, and so is*)
(* a pointer to bytes that were read, which leaves the buffer.             *)
MoveOverlaps(b, required) ==
  Moves(b, required) /\ b.current < b.receive - b.current

PointerLeaves(b, required) ==
  /\ Moves(b, required)
  /\ \E p \in {b.newline, b.lastFind} : p # None /\ p < b.current

-----------------------------------------------------------------------------
(* findNewline(maxLength), where 0 is no limit.                            *)

(* The number of unread bytes is a size_t: when the reading position has   *)
(* passed what was received it is a huge one.                              *)
UseMaxLength(b, max) ==
  max \in 1..BufferSize /\ b.receive - b.current \notin 0..max

FindFrom(b) == IF b.lastFind # None THEN b.lastFind ELSE b.current

(* Faulty: search everything that was received.                            *)
FindToEnd(b, max) == b.receive

(* Faulty: search the whole buffer.                                        *)
FindToBuffer(b, max) == BufferSize

FindTo(b, max) == IF UseMaxLength(b, max) THEN b.current + max ELSE b.receive

CarriageReturns(b, max) ==
  {i \in FindFrom(b)..FindTo(b, max) - 1 : i < BufferSize /\ b.bytes[i] = "CR"}

FoundPos(b, max) ==
  IF CarriageReturns(b, max) = {} THEN FindTo(b, max)
                                  ELSE Min(CarriageReturns(b, max))

(* The end of the line is remembered until the line is taken.  The byte    *)
(* behind the carriage return is read whether it was received or not.  A   *)
(* search that does not end is resumed where it stopped.                   *)
FindNewline(b, max) ==
  LET pos == FoundPos(b, max)
  IN IF b.newline # None THEN b
     ELSE IF CarriageReturns(b, max) # {} /\ b.bytes[pos + 1] = "LF"
       THEN [b EXCEPT !.newline = pos, !.lastFind = None]
     ELSE [b EXCEPT !.lastFind = pos]

(* What findNewline() says of the line it has not found.                   *)
ReachedMaxLength(b, max) ==
  UseMaxLength(b, max) /\ CarriageReturns(b, max) = {}

(* std::find() from behind its end or beyond the buffer, or a line that    *)
(* ends before it begins.                                                  *)
SearchIsUndefined(b, max) ==
  IF b.newline # None THEN b.newline < b.current
  ELSE \/ FindFrom(b) > FindTo(b, max)
       \/ CarriageReturns(b, max) = {} /\ FindTo(b, max) > BufferSize
       \/ FoundPos(b, max) < b.current

-----------------------------------------------------------------------------
(* Reading, once FindNewline has found the end of the line.                *)

Line(b) == Text(b, b.current, b.newline)

TooLong(b, max) == b.newline - b.current > max

(* Faulty: the line feed stays.                                            *)
AfterCarriageReturn(b) ==
  [b EXCEPT !.current = b.newline + 1, !.newline = None]

AfterLine(b) == [b EXCEPT !.current = b.newline + 2, !.newline = None]

(* readNewline() compares with m_bufferEndPointer: the two bytes may be    *)
(* bytes that were not received.                                           *)
NewlineFollows(b) ==
  /\ BufferSize - b.current >= 2
  /\ b.bytes[b.current] = "CR" /\ b.bytes[b.current + 1] = "LF"

AfterNewline(b) == [b EXCEPT !.current = @ + 2, !.newline = None]

(* readAll() touches neither m_newlinePointer nor the last search.         *)
AfterAll(b) == [b EXCEPT !.current = b.receive]

=============================================================================
