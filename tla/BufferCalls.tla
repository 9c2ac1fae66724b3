----------------------------- MODULE BufferCalls -----------------------------
(* A program that calls the public functions of HttpReceiverBuffer in any  *)
(* order (httpReceiver.hpp:72-92), as the tests of the repository do.      *)
(*                                                                         *)
(* A behaviour is followed up to the first call whose effect the language  *)
(* leaves open, or that takes a byte for the end of a line which was never *)
(* received: the buffer has gone astray.                                   *)
EXTENDS ReceiverBuffer

CONSTANTS Texts, Limits   (* as in ByteQueue                               *)

VARIABLES
  buffer, result, output,
  astray,     (* "no", or why the buffer has gone astray                   *)
  search,     (* history: maxLength of a search that has not taken its     *)
              (* line, None when there is none                             *)
  mixed       (* history: bytes were read otherwise, or another limit was  *)
              (* searched with, before such a search had taken its line    *)

vars == <<buffer, result, output, astray, search, mixed>>

TypeOK ==
  /\ buffer.bytes \in [0..BufferSize -> {"CR", "LF", "x"}]
  /\ buffer.receive \in 0..BufferSize
  /\ buffer.current \in 0..buffer.receive
  /\ {buffer.newline, buffer.lastFind} \subseteq {None} \cup 0..BufferSize
  /\ result \in {"none", "true", "false", "Found", "NewlineNotFound",
                 "RegexNotFound", "ReachedMaxLength", "all"}
  /\ output \in Seq({"CR", "LF", "x"})
  /\ astray \in {"no", "overlap", "stale", "search"}
  /\ search \in {None} \cup Limits /\ mixed \in BOOLEAN

(* The byte behind the buffer belongs to somebody else.                    *)
Init ==
  /\ \E behind \in {"x", "LF"} :
       buffer = Reset([bytes    |-> [i \in 0..BufferSize |->
                          IF i = BufferSize THEN behind ELSE "x"],
                       receive  |-> 0, current |-> 0,
                       newline  |-> None, lastFind |-> None])
  /\ result = "none" /\ output = <<>>
  /\ astray = "no" /\ search = None /\ mixed = FALSE

Returns(r, text) == result' = r /\ output' = text /\ UNCHANGED astray

GoesAstray(why) ==
  /\ astray' = why /\ result' = "none" /\ output' = <<>>
  /\ UNCHANGED <<buffer, search, mixed>>

ReceiveRefused(text) ==
  /\ ~Fits(buffer, Len(text))
  /\ Returns("false", <<>>)
  /\ UNCHANGED <<buffer, search, mixed>>

ReceiveText(text) ==
  /\ Fits(buffer, Len(text))
  /\ ~MoveOverlaps(buffer, Len(text)) /\ ~PointerLeaves(buffer, Len(text))
  /\ buffer' = Put(MakeSpace(buffer, Len(text)), text)
  /\ Returns("true", <<>>)
  /\ UNCHANGED <<search, mixed>>

ReceiveAstray(text) ==
  \/ MoveOverlaps(buffer, Len(text)) /\ GoesAstray("overlap")
  \/ PointerLeaves(buffer, Len(text)) /\ GoesAstray("search")

Receive(text) ==
  ReceiveRefused(text) \/ ReceiveText(text) \/ ReceiveAstray(text)

Sought(max) == FindNewline(buffer, max)

Mixes(max) == mixed' = (mixed \/ search \notin {None, max})

SearchAstray(max) ==
  /\ SearchIsUndefined(buffer, max)
  /\ astray' = "search" /\ result' = "none" /\ output' = <<>>
  /\ Mixes(max)
  /\ UNCHANGED <<buffer, search>>

(* The line feed was never received.                                       *)
EndIsStale(b) == b.newline # None /\ b.newline + 2 > b.receive

SearchStale(max) ==
  /\ ~SearchIsUndefined(buffer, max) /\ EndIsStale(Sought(max))
  /\ GoesAstray("stale")

Searches(max) ==
  ~SearchIsUndefined(buffer, max) /\ ~EndIsStale(Sought(max)) /\ Mixes(max)

(* The line is not taken: its end, once found, is remembered.              *)
Leaves(max, r) ==
  /\ Searches(max)
  /\ buffer' = Sought(max) /\ search' = max
  /\ Returns(r, <<>>)

Takes(max) ==
  /\ Searches(max)
  /\ buffer' = AfterLine(Sought(max)) /\ search' = None
  /\ Returns("Found", Line(Sought(max)))

LineMissing(max) ==
  /\ Sought(max).newline = None
  /\ Leaves(max, IF ReachedMaxLength(buffer, max)
                   THEN "ReachedMaxLength" ELSE "NewlineNotFound")

(* readLine() and regexSearch(): the line is taken when its length and its *)
(* text are accepted.                                                      *)
Search(max, tooLong, matches) ==
  \/ SearchAstray(max) \/ SearchStale(max) \/ LineMissing(max)
  \/ /\ Sought(max).newline # None
     /\ \/ tooLong /\ Leaves(max, "ReachedMaxLength")
        \/ ~tooLong /\ ~matches /\ Leaves(max, "RegexNotFound")
        \/ ~tooLong /\ matches /\ Takes(max)

ReadLine(max) == Search(max, max > 0 /\ TooLong(Sought(max), max), TRUE)

(* The expression matches every line but the empty one.                    *)
RegexSearch(max) ==
  Search(max, TooLong(Sought(max), max),
         Sought(max).newline # buffer.current)

(* Reading past a search that has not taken its line.                      *)
Consumes == mixed' = (mixed \/ search # None) /\ UNCHANGED search

ReadNewline ==
  \/ /\ ~NewlineFollows(buffer)
     /\ Returns("NewlineNotFound", <<>>)
     /\ UNCHANGED <<buffer, search, mixed>>
  \/ /\ NewlineFollows(buffer) /\ buffer.current + 2 > buffer.receive
     /\ GoesAstray("stale")
  \/ /\ NewlineFollows(buffer) /\ buffer.current + 2 <= buffer.receive
     /\ buffer' = AfterNewline(buffer)
     /\ Returns("Found", <<>>)
     /\ Consumes

ReadAll ==
  /\ buffer' = AfterAll(buffer)
  /\ Returns("all", Unread(buffer))
  /\ Consumes

ResetBuffer ==
  /\ buffer' = Reset(buffer)
  /\ Returns("none", <<>>)
  /\ search' = None /\ mixed' = FALSE

Call ==
  \/ \E text \in Texts : Receive(text)
  \/ \E max \in Limits : ReadLine(max) \/ RegexSearch(max)
  \/ ReadNewline \/ ReadAll \/ ResetBuffer

Next == astray = "no" /\ Call

Spec == Init /\ [][Next]_vars

-----------------------------------------------------------------------------

InUse == astray = "no"

(* Until it goes astray the buffer is a queue of bytes: what is read is    *)
(* what was received, in order and once, whatever was moved to make space, *)
(* however the searches were cut and resumed.                              *)
ByteQueueOf == INSTANCE ByteQueue WITH
  queue  <- IF InUse THEN Unread(buffer) ELSE <<>>,
  Room   <- BufferSize

IsByteQueue == ByteQueueOf!Spec

(* A search goes astray only when the calls were mixed: a program that     *)
(* ends each search it began, with the limit it began with, before it      *)
(* reads otherwise is never told of a line that was read before.           *)
OnlyMixedSearchesGoAstray == astray = "search" => mixed

=============================================================================
