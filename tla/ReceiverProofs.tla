---------------------------- MODULE ReceiverProofs ---------------------------
(***************************************************************************)
(* Theorems about ReceiveWorker: whatever peers send, however it is cut    *)
(* into segments, for any limits and any answers, one request after the    *)
(* other.  The last section carries them, and those of BufferProofs, over  *)
(* to the specification MCHttpReceiver checks.                             *)
(***************************************************************************)
EXTENDS MCHttpReceiver, FiniteSetTheorems, SequenceTheorems, TLAPS

-----------------------------------------------------------------------------
(* Induction, stated with sets, and functions that are defined by it.      *)

LEMMA LeastExists ==
  ASSUME NEW S, S \subseteq Nat, S # {}
  PROVE  Min(S) \in S /\ \A y \in S : Min(S) <= y
<1> DEFINE Below == {0..x : x \in S}
<1>1. \A x \in S : IsFiniteSet(0..x) /\ 0..x \subseteq Nat
  BY FS_Interval
<1>2. Below \subseteq FiniteSubsetsOf(Nat) /\ Below # {}
  BY <1>1, Zenon DEF FiniteSubsetsOf
<1>3. PICK b \in Below : \A c \in Below :
        ~(<<c, b>> \in StrictSubsetOrdering(Nat))
  <2> HIDE DEF Below
  <2> QED BY <1>2, FS_StrictSubsetOrderingWellFounded, WFMin
<1>4. PICK x \in S : b = 0..x
  OBVIOUS
<1>5. ASSUME NEW y \in S PROVE x <= y
  <2>1. ~(<<0..y, 0..x>> \in StrictSubsetOrdering(Nat))
    BY <1>3, <1>4
  <2>2. ~(0..y \subseteq 0..x /\ 0..y # 0..x)
    BY <2>1, <1>1 DEF StrictSubsetOrdering
  <2>3. x \in Nat /\ y \in Nat
    OBVIOUS
  <2>4. y < x => 0..y \subseteq 0..x /\ x \in 0..x /\ x \notin 0..y
    BY <2>3
  <2> QED BY <2>2, <2>3, <2>4
<1> QED BY <1>5 DEF Min

LEMMA Upward ==
  ASSUME NEW n \in Nat, NEW S, 0 \in S,
         \A i \in 1..n : i - 1 \in S => i \in S
  PROVE  \A i \in 0..n : i \in S
<1> DEFINE Missing == {i \in 0..n : i \notin S}
<1> SUFFICES ASSUME Missing # {} PROVE FALSE
  OBVIOUS
<1>1. Min(Missing) \in Missing /\ \A i \in Missing : Min(Missing) <= i
  <2> Missing \subseteq Nat
    OBVIOUS
  <2> QED BY LeastExists
<1>2. PICK m \in Missing : \A i \in Missing : m <= i
  BY <1>1
<1>3. m \in 1..n /\ m - 1 \in 0..n /\ m - 1 \notin Missing
  BY <1>2
<1> QED BY <1>3

LEMMA GreatestExists ==
  ASSUME NEW n \in Nat, NEW S, S \subseteq 0..n, S # {}
  PROVE  Max(S) \in S /\ \A y \in S : y <= Max(S)
<1> DEFINE T == {n - x : x \in S}
<1>1. T \subseteq Nat /\ T # {}
  <2>1. \A x \in S : x \in 0..n /\ n - x \in Nat
    OBVIOUS
  <2> QED BY <2>1
<1>2. PICK t \in T : \A y \in T : t <= y
  <2> HIDE DEF T
  <2> QED BY <1>1, LeastExists
<1>3. PICK x \in S : t = n - x
  OBVIOUS
<1>4. \A y \in S : x >= y
  BY <1>2, <1>3
<1>5. PICK m : m = Max(S) /\ m \in S /\ \A y \in S : m >= y
  BY <1>4 DEF Max
<1> QED BY <1>5

Forward(f, n, first, step) ==
  f[0] = first /\ \A i \in 1..n : f[i] = step[i][f[i - 1]]

LEMMA UpwardFunction ==
  ASSUME NEW n \in Nat, NEW V, NEW first \in V, NEW step,
         step \in [1..n -> [V -> V]]
  PROVE  \E f \in [0..n -> V] : Forward(f, n, first, step)
<1> DEFINE Upto(k, f) == /\ f \in [0..k -> V] /\ f[0] = first
                         /\ \A i \in 1..k : f[i] = step[i][f[i - 1]]
           Done == {k \in 0..n : \E f : Upto(k, f)}
<1>1. 0 \in Done
  <2> DEFINE g == [i \in 0..0 |-> first]
  <2>1. Upto(0, g)
    OBVIOUS
  <2> HIDE DEF Upto, g
  <2> QED BY <2>1
<1>2. ASSUME NEW k \in 1..n, k - 1 \in Done PROVE k \in Done
  <2>1. PICK f : Upto(k - 1, f)
    BY <1>2
  <2> DEFINE g == [i \in 0..k |-> IF i = k THEN step[k][f[k - 1]] ELSE f[i]]
  <2>2. f[k - 1] \in V /\ step[k] \in [V -> V]
    BY <2>1
  <2>3. step[k][f[k - 1]] \in V
    BY <2>2
  <2>4. g \in [0..k -> V] /\ g[0] = first
    BY <2>1, <2>3
  <2>5. ASSUME NEW i \in 1..k PROVE g[i] = step[i][g[i - 1]]
    <3>1. i - 1 \in 0..k /\ i - 1 # k /\ (i # k => i \in 1..k - 1)
      OBVIOUS
    <3> QED BY <2>1, <3>1
  <2> HIDE DEF g
  <2>6. Upto(k, g)
    BY <2>4, <2>5
  <2> HIDE DEF Upto
  <2> QED BY <2>6
<1>3. \A k \in 0..n : k \in Done
  <2> HIDE DEF Done
  <2> QED BY <1>1, <1>2, Upward
<1>4. n \in Done
  BY <1>3
<1> QED BY <1>4 DEF Forward

(* FlattenSeq, one sequence after the other.                               *)
LEMMA FlattenIs ==
  ASSUME NEW S, NEW seqs \in Seq(Seq(S)), NEW f, f[0] = <<>>,
         \A i \in 1..Len(seqs) : f[i] = f[i - 1] \o seqs[i]
  PROVE  FlattenSeq(seqs) = f[Len(seqs)]
<1> DEFINE n == Len(seqs)
           Flat(g) == g = [i \in 1..n |-> IF i = 1 THEN seqs[i]
                                          ELSE g[i - 1] \o seqs[i]]
           F == CHOOSE g : Flat(g)
<1>1. n \in Nat /\ \A i \in 1..n : seqs[i] \in Seq(S)
  OBVIOUS
<1>2. CASE n = 0
  <2>1. FlattenSeq(seqs) = seqs
    BY <1>2 DEF FlattenSeq
  <2>2. seqs = <<>>
    BY <1>2
  <2> QED BY <1>2, <2>1, <2>2
<1>3. CASE n # 0
  <2>1. FlattenSeq(seqs) = F[n]
    BY <1>3 DEF FlattenSeq
  <2>2. 1 \in 1..n /\ f[1] = seqs[1]
    <3>1. 1 \in 1..n
      BY <1>1, <1>3
    <3>2. f[1] = f[1 - 1] \o seqs[1] /\ seqs[1] \in Seq(S)
      BY <1>1, <3>1
    <3>3. 1 - 1 = 0
      OBVIOUS
    <3>4. f[1] = <<>> \o seqs[1]
      BY <3>2, <3>3, Zenon
    <3> QED BY <3>1, <3>2, <3>4, ConcatEmptySeq
  <2> DEFINE g == [i \in 1..n |-> f[i]]
  <2> HIDE DEF n
  <2>3. Flat(g)
    <3>1. ASSUME NEW i \in 1..n, i # 1 PROVE f[i] = g[i - 1] \o seqs[i]
      <4>1. i - 1 \in 1..n
        BY <1>1, <3>1
      <4> QED BY <4>1 DEF n
    <3> QED BY <2>2, <3>1
  <2>4. Flat(F)
    <3> HIDE DEF Flat, g
    <3> QED BY <2>3
  <2> HIDE DEF F
  <2> DEFINE T == {i \in 0..n : i = 0 \/ F[i] = f[i]}
  <2>5. ASSUME NEW i \in 1..n, i - 1 \in T PROVE i \in T
    <3>1. i \in 0..n /\ (i # 1 => i - 1 # 0)
      BY <1>1
    <3>2. F[i] = IF i = 1 THEN seqs[i] ELSE F[i - 1] \o seqs[i]
      BY <2>4
    <3>3. f[i] = f[i - 1] \o seqs[i]
      BY DEF n
    <3> QED BY <2>2, <2>5, <3>1, <3>2, <3>3
  <2>6. \A i \in 0..n : i \in T
    <3>1. 0 \in T
      BY <1>1
    <3> HIDE DEF T
    <3> QED BY <1>1, <2>5, <3>1, Upward
  <2>7. F[n] = f[n]
    BY <1>1, <1>3, <2>6
  <2> QED BY <2>1, <2>7 DEF n
<1> QED BY <1>2, <1>3

-----------------------------------------------------------------------------
(* The invariant.                                                          *)

(* Where line k ends in what the peer sends.                               *)
LineText(line) == line \o <<"CR", "LF">>

End(r, k) == Len(FlattenSeq([i \in 1..k |-> LineText(r.lines[i])]))

Buffers ==
  [bytes    : [0..BufferSize -> Symbols],
   receive  : -1..BufferSize,
   current  : 0..BufferSize + 1,
   newline  : {None} \cup 0..BufferSize,
   lastFind : {None} \cup 0..BufferSize]

NoReturn(b, from, to) == \A i \in from..to - 1 : b.bytes[i] # "CR"

(* A search that was not finished is resumed behind bytes without a        *)
(* carriage return, and no line that was found waits to be taken.          *)
Searching(b) ==
  /\ 0 <= b.receive /\ b.current <= b.receive /\ b.newline = None
  /\ b.lastFind # None =>
       /\ b.current <= b.lastFind /\ b.lastFind <= b.receive
       /\ NoReturn(b, b.current, b.lastFind)

(* The buffer holds what the peer has sent so far.                         *)
Received(b, text) ==
  /\ b.receive <= Len(text)
  /\ \A i \in 0..b.receive - 1 : b.bytes[i] = text[i + 1]

BufferInv ==
  /\ m_buffer \in Buffers
  /\ pc # "idle" => Received(m_buffer, Stream)
  /\ pc \notin {"idle", "undefined", "returned"} => Searching(m_buffer)
  /\ pc # "idle" /\ status # "InternalError" =>
       m_buffer.current <= m_buffer.receive

SplitSeen ==
  pc \notin {"idle", "undefined", "returned"}
    /\ m_buffer.receive \in {EmptyLine, EmptyLine + 1} \ {0} => splitEnd

(* The fields in the first lines of a request are the headers, of each     *)
(* name the last one.                                                      *)
HeadersAre(headers, lines, last) ==
  /\ DOMAIN headers = {FieldName(lines[i]) : i \in 2..last}
  /\ \A i \in 2..last :
       (\A j \in i + 1..last : FieldName(lines[j]) # FieldName(lines[i]))
         => headers[FieldName(lines[i])] = lines[i]

LengthIs(length, lines, last) ==
  IF length = None
    THEN \A i \in 2..last : lines[i][1] \notin DOMAIN LengthOf
    ELSE /\ \E i \in 2..last : lines[i][1] \in DOMAIN LengthOf
         /\ \A i \in 2..last :
              lines[i][1] \in DOMAIN LengthOf => LengthOf[lines[i][1]] = length

LinesTaken(last) ==
  /\ last <= Len(peerRequest.lines)
  /\ \A i \in 1..last : peerRequest.lines[i] # <<>>
  /\ request.line = peerRequest.lines[1]
  /\ HeadersAre(request.headers, peerRequest.lines, last)
  /\ LengthIs(contentLength, peerRequest.lines, last)

Untouched ==
  /\ request = NewRequest /\ headerCount = 0
  /\ contentLength = None /\ totalReceived = 0

RequestPhase ==
  pc \in {"requestReceive", "requestParse"} =>
    Untouched /\ m_buffer.current = 0

HeaderPhase ==
  pc \in {"headerReceive", "headerParse"} =>
    /\ LinesTaken(headerCount + 1) /\ request.body = <<>>
    /\ m_buffer.current = End(peerRequest, headerCount + 1)
    /\ headerCount > 0 /\ HasEmptyLine(peerRequest)
         /\ headerCount + 2 = Len(peerRequest.lines) => splitEnd

BodyPhase ==
  pc \in {"body", "bodyReceive"} \/ status = "Ok" =>
    /\ LinesTaken(headerCount + 1) /\ headerCount > 0
    /\ HasEmptyLine(peerRequest)
    /\ headerCount + 2 = Len(peerRequest.lines)
    /\ m_buffer.current = End(peerRequest, headerCount + 2)
                            + Len(request.body)
    /\ IsPrefix(request.body, peerRequest.rest)
    /\ contentLength > 0 \/ request.body = <<>>
    /\ pc # "returned" => m_buffer.lastFind = None

ResultInv ==
  /\ status = "none" <=> pc # "returned"
  /\ status = "Ok" =>
       Len(request.body) = IF contentLength = None THEN 0 ELSE contentLength
  /\ status = "PeerError" => response # "Ok"

TypeInv ==
  /\ pc \in {"idle", "requestReceive", "requestParse", "headerReceive",
             "headerParse", "body", "bodyReceive", "returned", "undefined"}
  /\ peerRequest \in Requests /\ closed \in BOOLEAN /\ calls \in 0..MaxCalls
  /\ request \in [line : Seq(Symbols), body : Seq(Symbols),
                  headers : {request.headers}]
  /\ DOMAIN request.headers \subseteq Symbols \cup {"content-length"}
  /\ headerCount \in Nat /\ contentLength \in Int /\ totalReceived \in Int
  /\ status \in {"none", "Ok", "Disconnected", "PeerError", "InternalError"}
  /\ response \in Responses
  /\ splitEnd \in BOOLEAN /\ stale \in BOOLEAN

(* What the code keeps of the limits, for lengths that are numbers.        *)
WithinLimits ==
  /\ Len(request.line) \in 0..LimitLine - 1
  /\ headerCount <= LimitHeaderFieldCount + 1
  /\ \A n \in DOMAIN request.headers :
       Len(request.headers[n]) \in 0..LimitLine - 1

Counted == totalReceived = Len(request.body)

(* As long as every line end was received before it was taken.             *)
StraightInv ==
  /\ ~stale
  /\ TypeInv /\ BufferInv /\ SplitSeen
  /\ RequestPhase /\ HeaderPhase /\ BodyPhase /\ ResultInv
  /\ WithinLimits /\ RefusedForSplitEndOnly /\ Counted

(* Behind bytes of an earlier request little is known: the pointers stay in*)
(* the buffer, and what is taken stays within the limits.                  *)
StaleInv ==
  /\ stale /\ TypeInv /\ m_buffer \in Buffers
  /\ pc \notin {"idle", "requestReceive", "requestParse"}
  /\ pc # "returned" => m_buffer.receive >= 0 /\ m_buffer.newline = None
  /\ status = "none" <=> pc # "returned"
  /\ status = "PeerError" => response # "Ok"
  /\ WithinLimits

ReceiverInv == StraightInv \/ StaleInv

(* Where the worker is, and what it has done with the result.              *)
WorkerInv ==
  /\ phase \in {"waiting", "receiving", "sendStart", "sendBody", "release",
                "terminated"}
  /\ phase = "waiting" <=> pc = "idle"
  /\ phase \notin {"waiting", "receiving"} => pc = "returned"
  /\ phase = "waiting" => Untouched
  /\ phase \in {"waiting", "receiving", "sendStart"} =>
       delivered = <<>> /\ ~short
  /\ phase \in {"waiting", "receiving"} => called = <<>> /\ responseBody = <<>>
  /\ phase \in {"sendStart", "sendBody", "release"} =>
       /\ called = IF status = "Ok" THEN <<request>> ELSE <<>>
       /\ status # "Ok" => responseBody = <<>>
  /\ phase \in {"sendStart", "sendBody"} => status # "Disconnected"
  /\ phase = "sendBody" /\ ~short => delivered = <<response>>
  /\ phase = "release" =>
       /\ status = "Disconnected" => delivered = <<>>
       /\ status # "Disconnected" /\ ~short =>
            delivered = <<response>> \o responseBody
  /\ \A i \in DOMAIN called : DOMAIN called[i] = DOMAIN NewRequest
  /\ responseBody \in {<<>>} \cup {a.body : a \in Answers}
  /\ delivered \in Seq(Responses \cup Symbols \cup {a.status : a \in Answers})
  /\ short \in BOOLEAN

IInv == ReceiverInv /\ WorkerInv

-----------------------------------------------------------------------------
(* What a peer sends, line by line.                                        *)

LEMMA RequestIs ==
  ASSUME NEW r \in Requests
  PROVE  /\ r.lines \in Seq(Seq(Symbols)) /\ r.rest \in Seq(Symbols)
         /\ Len(r.lines) \in Nat /\ Len(r.rest) \in Nat
         /\ DOMAIN r.lines = 1..Len(r.lines)
         /\ \A k \in 1..Len(r.lines) :
              /\ r.lines[k] \in Seq(Symbols) /\ Len(r.lines[k]) \in Nat
              /\ ~HoldsEnd(r.lines[k])
              /\ r.lines[k] = <<>> => k = Len(r.lines)
         /\ HasEmptyLine(r) \/ ~HoldsEnd(r.rest)
<1>1. IsCutIntoLines(r)
  BY ReceiverAssumption
<1>2. r.lines \in Seq(Seq(Symbols)) /\ r.rest \in Seq(Symbols)
  BY <1>1 DEF IsCutIntoLines
<1>3. DOMAIN r.lines = 1..Len(r.lines) /\ Len(r.lines) \in Nat
  BY <1>2
<1>4. ASSUME NEW k \in 1..Len(r.lines)
      PROVE  /\ r.lines[k] \in Seq(Symbols) /\ Len(r.lines[k]) \in Nat
             /\ ~HoldsEnd(r.lines[k])
             /\ r.lines[k] = <<>> => k = Len(r.lines)
  <2>1. r.lines[k] \in Seq(Symbols)
    BY <1>2
  <2>2. Len(r.lines[k]) \in Nat
    BY <2>1
  <2>3. k \in DOMAIN r.lines
    BY <1>3
  <2> QED BY <1>1, <2>1, <2>2, <2>3, Zenon DEF IsCutIntoLines
<1> QED BY <1>1, <1>2, <1>3, <1>4 DEF IsCutIntoLines

LEMMA ConcatIs ==
  ASSUME NEW from \in Seq(Symbols), NEW line \in Seq(Symbols),
         NEW to, to = from \o line
  PROVE  /\ to \in Seq(Symbols) /\ Len(to) = Len(from) + Len(line)
         /\ Len(from) \in Nat /\ Len(line) \in Nat
         /\ \A j \in 1..Len(from) : to[j] = from[j]
         /\ \A j \in 1..Len(line) : to[Len(from) + j] = line[j]
<1> HIDE DEF Symbols
<1>1. /\ Len(from) \in Nat /\ Len(line) \in Nat
      /\ to \in Seq(Symbols) /\ Len(to) = Len(from) + Len(line)
  OBVIOUS
<1>2. \A j \in 1..Len(from) : to[j] = from[j]
  OBVIOUS
<1>3. \A j \in 1..Len(line) : to[Len(from) + j] = line[j]
  OBVIOUS
<1> QED BY <1>1, <1>2, <1>3

LEMMA LineTextIs ==
  ASSUME NEW line \in Seq(Symbols)
  PROVE  /\ LineText(line) \in Seq(Symbols)
         /\ Len(LineText(line)) = Len(line) + 2
         /\ \A j \in 1..Len(line) : LineText(line)[j] = line[j]
         /\ LineText(line)[Len(line) + 1] = "CR"
         /\ LineText(line)[Len(line) + 2] = "LF"
<1>1. <<"CR", "LF">> \in Seq(Symbols)
  BY DEF Symbols
<1> HIDE DEF Symbols
<1> QED BY <1>1 DEF LineText

(* The text up to the end of each line.                                    *)
IsTextOf(text, r) ==
  /\ text \in [0..Len(r.lines) -> Seq(Symbols)]
  /\ text[0] = <<>>
  /\ \A k \in 1..Len(r.lines) : text[k] = text[k - 1] \o LineText(r.lines[k])
  /\ \A k \in 0..Len(r.lines) : End(r, k) = Len(text[k])
  /\ Bytes(r) = text[Len(r.lines)] \o r.rest

LEMMA TextExists ==
  ASSUME NEW r \in Requests
  PROVE  \E text : IsTextOf(text, r)
<1> DEFINE n == Len(r.lines)
           V == Seq(Symbols)
           step == [i \in 1..n |-> [s \in V |-> s \o LineText(r.lines[i])]]
           Seqs(k) == [i \in 1..k |-> LineText(r.lines[i])]
<1>1. n \in Nat /\ DOMAIN r.lines = 1..n
      /\ \A k \in 1..n : r.lines[k] \in V
  BY RequestIs
<1> HIDE DEF n
<1>2. \A i \in 1..n : LineText(r.lines[i]) \in V
  BY <1>1, LineTextIs
<1>3. \A i \in 1..n : \A s \in V : s \o LineText(r.lines[i]) \in V
  BY <1>2, ConcatProperties
<1>4. step \in [1..n -> [V -> V]] /\ <<>> \in V
  BY <1>3, EmptySeq
<1> HIDE DEF step
<1>5. PICK text \in [0..n -> V] : Forward(text, n, <<>>, step)
  BY <1>1, <1>4, UpwardFunction
<1>6. ASSUME NEW k \in 1..n
      PROVE  text[k] = text[k - 1] \o LineText(r.lines[k])
  <2>1. k - 1 \in 0..n
    BY <1>1
  <2>2. text[k] = step[k][text[k - 1]] /\ text[k - 1] \in V
    BY <1>5, <2>1 DEF Forward
  <2> QED BY <2>2 DEF step
<1>7. ASSUME NEW k \in 0..n PROVE FlattenSeq(Seqs(k)) = text[k]
  <2>1. k \in Nat /\ \A i \in 1..k : i \in 1..n
    BY <1>1
  <2>2. Seqs(k) \in Seq(V) /\ Len(Seqs(k)) = k
    <3>1. Seqs(k) \in [1..k -> V]
      BY <1>2, <2>1
    <3> HIDE DEF V, Seqs
    <3> QED BY <2>1, <3>1
  <2>3. \A i \in 1..k : text[i] = text[i - 1] \o Seqs(k)[i]
    BY <1>6, <2>1
  <2>4. text[0] = <<>>
    BY <1>5 DEF Forward
  <2> HIDE DEF Seqs, V
  <2>5. FlattenSeq(Seqs(k)) = text[Len(Seqs(k))]
    BY <2>2, <2>3, <2>4, FlattenIs DEF V
  <2> QED BY <2>2, <2>5
<1>8. \A k \in 0..n : End(r, k) = Len(text[k])
  BY <1>7 DEF End
<1>9. Bytes(r) = text[n] \o r.rest
  <2>1. n \in 0..n
    BY <1>1
  <2>2. Bytes(r) = FlattenSeq(Seqs(n)) \o r.rest
    BY <1>1, Zenon DEF Bytes, LineText
  <2> QED BY <1>7, <2>1, <2>2, Zenon
<1>10. text[0] = <<>>
  BY <1>5 DEF Forward
<1> QED BY <1>5, <1>6, <1>8, <1>9, <1>10, Zenon DEF IsTextOf, n

LEMMA TextGrows ==
  ASSUME NEW r \in Requests, NEW text, IsTextOf(text, r),
         NEW k \in 0..Len(r.lines), NEW m \in k..Len(r.lines)
  PROVE  /\ Len(text[k]) <= Len(text[m])
         /\ \A j \in 1..Len(text[k]) : text[m][j] = text[k][j]
<1> DEFINE n == Len(r.lines)
           S == {d \in 0..n - k :
                   /\ Len(text[k]) <= Len(text[k + d])
                   /\ \A j \in 1..Len(text[k]) : text[k + d][j] = text[k][j]}
<1>1. n \in Nat /\ k \in 0..n /\ n - k \in Nat /\ m - k \in 0..n - k
  BY RequestIs
<1>2. /\ \A i \in 0..n : text[i] \in Seq(Symbols)
      /\ \A i \in 1..n : text[i] = text[i - 1] \o LineText(r.lines[i])
  BY DEF IsTextOf
<1>9. \A i \in 1..n : LineText(r.lines[i]) \in Seq(Symbols)
  BY RequestIs, LineTextIs
<1> HIDE DEF n
<1>3. 0 \in S
  BY <1>1, <1>2
<1>4. ASSUME NEW d \in 1..n - k, d - 1 \in S PROVE d \in S
  <2>1. PICK i \in 1..n : i = k + d /\ i - 1 = k + (d - 1) /\ i - 1 \in 0..n
    BY <1>1
  <2>2. PICK from, line, to : /\ from = text[i - 1] /\ to = text[i]
                              /\ line = LineText(r.lines[i])
    OBVIOUS
  <2>3. from \in Seq(Symbols) /\ line \in Seq(Symbols)
    BY <1>2, <1>9, <2>1, <2>2
  <2>4. to = from \o line
    BY <1>2, <2>1, <2>2, Zenon
  <2>5. /\ Len(text[k]) <= Len(from)
        /\ \A j \in 1..Len(text[k]) : from[j] = text[k][j]
    <3>1. d - 1 \in S
      BY <1>4
    <3> QED BY <2>1, <2>2, <3>1
  <2>6. /\ Len(to) = Len(from) + Len(line) /\ Len(line) \in Nat
        /\ Len(from) \in Nat /\ \A j \in 1..Len(from) : to[j] = from[j]
    <3> HIDE DEF S
    <3> QED BY <2>3, <2>4, ConcatIs
  <2>7. text[k] \in Seq(Symbols)
    BY <1>1, <1>2
  <2>8. Len(text[k]) \in Nat
    BY <2>7
  <2>9. /\ Len(text[k]) <= Len(to)
        /\ \A j \in 1..Len(text[k]) : to[j] = text[k][j]
    BY <2>5, <2>6, <2>8
  <2>10. text[k + d] = to /\ d \in 0..n - k
    BY <1>1, <2>1, <2>2
  <2> QED BY <2>9, <2>10
<1>5. \A d \in 0..n - k : d \in S
  <2> HIDE DEF S
  <2> QED BY <1>1, <1>3, <1>4, Upward
<1>6. m - k \in S /\ k + (m - k) = m
  BY <1>1, <1>5
<1> HIDE DEF S
<1> QED BY <1>6 DEF S

LEMMA EndsAre ==
  ASSUME NEW r \in Requests
  PROVE  /\ End(r, 0) = 0
         /\ \A k \in 0..Len(r.lines) : End(r, k) \in Nat
         /\ \A k \in 1..Len(r.lines) :
              End(r, k) = End(r, k - 1) + Len(r.lines[k]) + 2
<1>1. PICK text : IsTextOf(text, r)
  BY TextExists
<1>2. Len(r.lines) \in Nat
  BY RequestIs
<1>3. 0 \in 0..Len(r.lines)
  BY <1>2
<1>4. End(r, 0) = 0
  BY <1>1, <1>3 DEF IsTextOf
<1>5. ASSUME NEW k \in 0..Len(r.lines) PROVE End(r, k) \in Nat
  <2>1. End(r, k) = Len(text[k]) /\ text[k] \in Seq(Symbols)
    BY <1>1 DEF IsTextOf
  <2> QED BY <2>1
<1>6. ASSUME NEW k \in 1..Len(r.lines)
      PROVE  End(r, k) = End(r, k - 1) + Len(r.lines[k]) + 2
  <2>1. k \in 0..Len(r.lines) /\ k - 1 \in 0..Len(r.lines)
    BY <1>2
  <2>2. /\ End(r, k) = Len(text[k]) /\ End(r, k - 1) = Len(text[k - 1])
        /\ text[k] = text[k - 1] \o LineText(r.lines[k])
        /\ text[k - 1] \in Seq(Symbols)
    BY <1>1, <2>1 DEF IsTextOf
  <2>3. PICK from, line, to : /\ from = text[k - 1] /\ to = text[k]
                              /\ line = LineText(r.lines[k])
    OBVIOUS
  <2>4. line \in Seq(Symbols) /\ Len(line) = Len(r.lines[k]) + 2
    BY <2>3, RequestIs, LineTextIs
  <2>5. Len(to) = Len(from) + Len(line)
    <3>1. from \in Seq(Symbols) /\ to = from \o line
      BY <2>2, <2>3, Zenon
    <3> QED BY <2>4, <3>1, ConcatIs
  <2>6. Len(from) \in Nat /\ Len(r.lines[k]) \in Nat
    BY <2>2, <2>3, RequestIs
  <2>7. End(r, k) = Len(to) /\ End(r, k - 1) = Len(from)
    BY <2>2, <2>3, Zenon
  <2>8. PICK c \in Nat : c = Len(r.lines[k])
    BY <2>6
  <2>9. Len(to) = Len(from) + c + 2
    BY <2>4, <2>5, <2>6, <2>8
  <2> QED BY <2>7, <2>8, <2>9, Zenon
<1> QED BY <1>4, <1>5, <1>6

(* The bytes of line k and of its end, and those behind the last line.     *)
LEMMA BytesAre ==
  ASSUME NEW r \in Requests
  PROVE  /\ Bytes(r) \in Seq(Symbols)
         /\ Len(Bytes(r)) = End(r, Len(r.lines)) + Len(r.rest)
         /\ \A j \in 1..Len(r.rest) :
              Bytes(r)[End(r, Len(r.lines)) + j] = r.rest[j]
         /\ \A k \in 1..Len(r.lines) :
              /\ \A j \in 1..Len(r.lines[k]) :
                   Bytes(r)[End(r, k - 1) + j] = r.lines[k][j]
              /\ Bytes(r)[End(r, k) - 1] = "CR"
              /\ Bytes(r)[End(r, k)] = "LF"
              /\ End(r, k) <= End(r, Len(r.lines))
<1> DEFINE n == Len(r.lines)
<1>1. PICK text : IsTextOf(text, r)
  BY TextExists
<1>2. n \in Nat /\ n \in 0..n
  BY RequestIs
<1>3. PICK all : /\ all = text[n] /\ all \in Seq(Symbols)
                 /\ End(r, n) = Len(all) /\ Bytes(r) = all \o r.rest
  BY <1>1, <1>2 DEF IsTextOf
<1>4. r.rest \in Seq(Symbols)
  BY RequestIs
<1>5. /\ Bytes(r) \in Seq(Symbols)
      /\ Len(Bytes(r)) = Len(all) + Len(r.rest)
      /\ \A j \in 1..Len(all) : Bytes(r)[j] = all[j]
      /\ \A j \in 1..Len(r.rest) : Bytes(r)[Len(all) + j] = r.rest[j]
  <2>1. PICK whole, rest : whole = Bytes(r) /\ rest = r.rest
    OBVIOUS
  <2>2. whole = all \o rest /\ rest \in Seq(Symbols)
    BY <1>3, <1>4, <2>1, Zenon
  <2>3. /\ whole \in Seq(Symbols) /\ Len(whole) = Len(all) + Len(rest)
        /\ \A j \in 1..Len(all) : whole[j] = all[j]
        /\ \A j \in 1..Len(rest) : whole[Len(all) + j] = rest[j]
    <3>1. all \in Seq(Symbols)
      BY <1>3
    <3> QED BY <2>2, <3>1, ConcatIs
  <2> QED BY <2>1, <2>3, Zenon
<1>6. ASSUME NEW k \in 1..n
      PROVE  /\ \A j \in 1..Len(r.lines[k]) :
                  Bytes(r)[End(r, k - 1) + j] = r.lines[k][j]
             /\ Bytes(r)[End(r, k) - 1] = "CR"
             /\ Bytes(r)[End(r, k)] = "LF"
             /\ End(r, k) <= End(r, n)
  <2>1. k \in 0..n /\ k - 1 \in 0..n /\ n \in k..n
    BY <1>2
  <2>2. PICK from, line, to :
          /\ from = text[k - 1] /\ line = LineText(r.lines[k]) /\ to = text[k]
          /\ from \in Seq(Symbols) /\ to = from \o line
          /\ End(r, k) = Len(to) /\ End(r, k - 1) = Len(from)
    BY <1>1, <2>1 DEF IsTextOf
  <2>3. PICK own : own = r.lines[k] /\ own \in Seq(Symbols)
    BY RequestIs
  <2>4. /\ line \in Seq(Symbols) /\ Len(line) = Len(own) + 2
        /\ Len(own) \in Nat
        /\ \A j \in 1..Len(own) : line[j] = own[j]
        /\ line[Len(own) + 1] = "CR" /\ line[Len(own) + 2] = "LF"
    <3>1. line = LineText(own)
      BY <2>2, <2>3, Zenon
    <3> QED BY <2>3, <3>1, LineTextIs
  <2>5. /\ Len(to) = Len(from) + Len(line) /\ Len(from) \in Nat
        /\ \A j \in 1..Len(line) : to[Len(from) + j] = line[j]
    <3>1. from \in Seq(Symbols) /\ to = from \o line
      BY <2>2
    <3>2. line \in Seq(Symbols)
      BY <2>4
    <3> HIDE DEF Symbols
    <3> QED BY <3>1, <3>2, ConcatIs
  <2>6. /\ Len(to) <= Len(all)
        /\ \A j \in 1..Len(to) : all[j] = to[j]
    <3>1. /\ Len(text[k]) <= Len(text[n])
          /\ \A j \in 1..Len(text[k]) : text[n][j] = text[k][j]
      BY <1>1, <2>1, TextGrows
    <3>2. to = text[k] /\ all = text[n]
      BY <1>3, <2>2
    <3> QED BY <3>1, <3>2, Zenon
  <2>7. Len(all) \in Nat
    BY <1>3
  <2>8. PICK whole : /\ whole = Bytes(r)
                     /\ \A j \in 1..Len(all) : whole[j] = all[j]
    BY <1>5
  <2>9. ASSUME NEW j \in 1..Len(line)
        PROVE  whole[Len(from) + j] = line[j]
    <3>1. Len(from) + j \in 1..Len(to) /\ Len(from) + j \in 1..Len(all)
      BY <2>4, <2>5, <2>6, <2>7
    <3> QED BY <2>5, <2>6, <2>8, <3>1
  <2>10. /\ \A j \in 1..Len(own) : whole[Len(from) + j] = own[j]
         /\ whole[Len(to) - 1] = "CR" /\ whole[Len(to)] = "LF"
    <3>1. /\ \A j \in 1..Len(own) : j \in 1..Len(line)
          /\ Len(own) + 1 \in 1..Len(line) /\ Len(own) + 2 \in 1..Len(line)
          /\ Len(to) = Len(from) + (Len(own) + 2)
          /\ Len(to) - 1 = Len(from) + (Len(own) + 1)
      BY <2>4, <2>5
    <3> QED BY <2>4, <2>9, <3>1
  <2> QED BY <1>3, <2>2, <2>3, <2>6, <2>8, <2>10, Zenon
<1>7. /\ Len(Bytes(r)) = End(r, n) + Len(r.rest)
      /\ \A j \in 1..Len(r.rest) : Bytes(r)[End(r, n) + j] = r.rest[j]
  BY <1>3, <1>5, Zenon
<1> QED BY <1>5, <1>6, <1>7, Zenon

(* A search from the beginning of a line stops at the end of that line or  *)
(* at a carriage return inside it.                                         *)
LEMMA ReturnIsInLine ==
  ASSUME NEW r \in Requests, NEW k \in 0..Len(r.lines) - 1, NEW pos \in Nat,
         End(r, k) <= pos,
         \A i \in End(r, k)..pos - 1 : Bytes(r)[i + 1] # "CR",
         Bytes(r)[pos + 1] = "CR"
  PROVE  \/ pos = End(r, k) + Len(r.lines[k + 1])
         \/ \E j \in 1..Len(r.lines[k + 1]) :
              pos + 1 = End(r, k) + j /\ r.lines[k + 1][j] = "CR"
<1> DEFINE m == k + 1
<1>1. m \in 1..Len(r.lines) /\ m - 1 = k /\ Len(r.lines) \in Nat
      /\ k \in 0..Len(r.lines) /\ m \in 0..Len(r.lines)
  BY RequestIs
<1>2. PICK own : own = r.lines[m] /\ own \in Seq(Symbols)
  BY <1>1, RequestIs
<1>3. PICK from : from = End(r, k) /\ from \in Nat
  BY <1>1, EndsAre
<1>4. PICK to : to = End(r, m)
  OBVIOUS
<1>5. PICK whole : whole = Bytes(r)
  OBVIOUS
<1>6. PICK len : len = Len(own) /\ len \in Nat
  BY <1>2
<1>7. to = from + len + 2
  <2>1. to = from + Len(own) + 2
    BY <1>1, <1>2, <1>3, <1>4, EndsAre
  <2> QED BY <1>6, <2>1, Zenon
<1>8. (\A j \in 1..len : whole[from + j] = own[j]) /\ whole[to - 1] = "CR"
  <2>1. /\ \A j \in 1..Len(r.lines[m]) :
             Bytes(r)[End(r, m - 1) + j] = r.lines[m][j]
        /\ Bytes(r)[End(r, m) - 1] = "CR"
    BY <1>1, BytesAre
  <2> QED BY <1>1, <1>2, <1>3, <1>4, <1>5, <1>6, <2>1, Zenon
<1>9. /\ from <= pos /\ \A i \in from..pos - 1 : whole[i + 1] # "CR"
      /\ whole[pos + 1] = "CR"
  BY <1>3, <1>5, Zenon
<1>10. from \in Nat /\ len \in Nat /\ from <= pos
  BY <1>3, <1>6, <1>9, Zenon
<1>11. \/ pos = from + len
       \/ \E j \in 1..len : pos + 1 = from + j /\ own[j] = "CR"
  <2>1. pos <= from + len
    <3> SUFFICES ASSUME pos > from + len PROVE FALSE
      BY <1>10
    <3>1. from + len \in from..pos - 1 /\ from + len + 1 = to - 1
      BY <1>7, <1>10
    <3> QED BY <1>8, <1>9, <3>1
  <2>2. CASE pos < from + len
    <3>1. PICK j \in 1..len : j = pos + 1 - from
      BY <1>10, <2>2
    <3>2. pos + 1 = from + j
      BY <1>10, <3>1
    <3> QED BY <1>8, <1>9, <3>2
  <2> QED BY <1>10, <2>1, <2>2
<1> QED BY <1>2, <1>3, <1>6, <1>11, Zenon

(* The first carriage return behind line k is the end of the next one when *)
(* a line feed follows that was received.                                  *)
LEMMA LineEndIs ==
  ASSUME NEW r \in Requests, NEW k \in 0..Len(r.lines),
         k = Len(r.lines) => ~HasEmptyLine(r), NEW pos \in Nat,
         End(r, k) <= pos,
         \A i \in End(r, k)..pos - 1 : Bytes(r)[i + 1] # "CR",
         pos + 2 <= Len(Bytes(r)),
         Bytes(r)[pos + 1] = "CR", Bytes(r)[pos + 2] = "LF"
  PROVE  k \in 0..Len(r.lines) - 1 /\ pos = End(r, k) + Len(r.lines[k + 1])
<1>1. k \in Nat /\ Len(r.lines) \in Nat
  BY RequestIs
<1>2. PICK from : from = End(r, k) /\ from \in Nat
  BY EndsAre
<1>3. PICK whole : whole = Bytes(r)
  OBVIOUS
<1>4. /\ from <= pos /\ whole[pos + 1] = "CR" /\ whole[pos + 2] = "LF"
      /\ pos + 2 <= Len(whole)
  BY <1>2, <1>3, Zenon
<1>5. CASE k = Len(r.lines)
  <2>1. PICK rest : rest = r.rest /\ rest \in Seq(Symbols)
    BY RequestIs
  <2>2. ~HoldsEnd(rest)
    BY <1>5, <2>1, RequestIs
  <2>3. PICK len : len = Len(rest) /\ len \in Nat
    <3>1. rest \in Seq(Symbols)
      BY <2>1
    <3> QED BY <3>1
  <2>4. /\ Len(whole) = from + len
        /\ \A j \in 1..len : whole[from + j] = rest[j]
    <3>1. /\ Len(Bytes(r)) = End(r, k) + Len(r.rest)
          /\ \A j \in 1..Len(r.rest) : Bytes(r)[End(r, k) + j] = r.rest[j]
      BY <1>5, BytesAre, Zenon
    <3> QED BY <1>2, <1>3, <2>1, <2>3, <3>1, Zenon
  <2>5. PICK j \in 1..len - 1 : /\ j = pos + 1 - from
                                /\ from + j = pos + 1
                                /\ from + (j + 1) = pos + 2
                                /\ j \in 1..len /\ j + 1 \in 1..len
    <3>1. /\ from \in Nat /\ len \in Nat /\ from <= pos
          /\ pos + 2 <= from + len
      BY <1>2, <1>4, <2>3, <2>4, Zenon
    <3> QED BY <3>1
  <2>6. rest[j] = "CR" /\ rest[j + 1] = "LF"
    BY <1>4, <2>4, <2>5
  <2> QED BY <2>2, <2>3, <2>5, <2>6 DEF HoldsEnd
<1>6. CASE k # Len(r.lines)
  <2>1. k \in 0..Len(r.lines) - 1 /\ k + 1 \in 1..Len(r.lines)
        /\ (k + 1) - 1 = k
    BY <1>1, <1>6
  <2>2. PICK own : own = r.lines[k + 1] /\ own \in Seq(Symbols)
                   /\ ~HoldsEnd(own)
    BY <2>1, RequestIs
  <2>3. PICK len : len = Len(own) /\ len \in Nat
    <3>1. own \in Seq(Symbols)
      BY <2>2
    <3> QED BY <3>1
  <2>4. \/ pos = from + len
        \/ \E j \in 1..len : pos + 1 = from + j /\ own[j] = "CR"
    <3>1. \/ pos = End(r, k) + Len(r.lines[k + 1])
          \/ \E j \in 1..Len(r.lines[k + 1]) :
               pos + 1 = End(r, k) + j /\ r.lines[k + 1][j] = "CR"
      BY <2>1, ReturnIsInLine
    <3> QED BY <1>2, <2>2, <2>3, <3>1, Zenon
  <2>5. ASSUME NEW j \in 1..len, pos + 1 = from + j, own[j] = "CR"
        PROVE  FALSE
    <3>1. pos + 2 = from + (j + 1) /\ (j # len => j + 1 \in 1..len)
      <4>1. from \in Nat /\ len \in Nat
        BY <1>2, <2>3, Zenon
      <4> QED BY <2>5, <4>1
    <3>2. /\ \A i \in 1..len : whole[from + i] = own[i]
          /\ whole[End(r, k + 1) - 1] = "CR"
          /\ End(r, k + 1) = from + len + 2
      <4>1. /\ \A i \in 1..Len(r.lines[k + 1]) :
                 Bytes(r)[End(r, (k + 1) - 1) + i] = r.lines[k + 1][i]
            /\ Bytes(r)[End(r, k + 1) - 1] = "CR"
        BY <2>1, BytesAre
      <4>2. End(r, k + 1) = End(r, (k + 1) - 1) + Len(r.lines[k + 1]) + 2
        BY <2>1, EndsAre
      <4> QED BY <1>2, <1>3, <2>1, <2>2, <2>3, <4>1, <4>2, Zenon
    <3>3. CASE j = len
      <4>1. End(r, k + 1) - 1 = pos + 2
        BY <1>2, <2>3, <3>1, <3>2, <3>3
      <4> QED BY <1>4, <3>2, <4>1
    <3>4. CASE j # len
      <4>1. own[j + 1] = "LF" /\ j \in 1..Len(own) - 1
        BY <1>4, <2>3, <3>1, <3>2, <3>4
      <4> QED BY <2>2, <2>5, <4>1 DEF HoldsEnd
    <3> QED BY <3>3, <3>4
  <2> QED BY <1>2, <2>1, <2>2, <2>3, <2>4, <2>5, Zenon
<1> QED BY <1>5, <1>6

-----------------------------------------------------------------------------
(* The buffer.                                                             *)

(* A search tells the truth about the bytes that were received, and takes  *)
(* the byte behind them for what it happens to be.                         *)
SearchFinds(b, s) ==
  /\ s \in Buffers
  /\ s.bytes = b.bytes /\ s.receive = b.receive /\ s.current = b.current
  /\ s.newline = None => Searching(s)
  /\ s.newline # None =>
       /\ s.newline \in b.current..b.receive - 1
       /\ s.newline < b.current + LimitLine
       /\ NoReturn(b, b.current, s.newline) /\ s.lastFind = None
       /\ b.bytes[s.newline] = "CR" /\ b.bytes[s.newline + 1] = "LF"

LEMMA LimitsAre ==
  /\ LimitLine \in Nat /\ LimitLine > 0 /\ BufferSize \in Nat
  /\ LimitLine <= BufferSize
  /\ LimitHeaderFieldCount \in Nat /\ MaxCalls \in Nat
BY ReceiverAssumption

LEMMA SearchIs ==
  ASSUME NEW b \in Buffers, Searching(b)
  PROVE  /\ SearchFinds(b, FindNewline(b, LimitLine))
         /\ ReachedMaxLength(b, LimitLine) =>
              /\ b.current + LimitLine < b.receive
              /\ NoReturn(b, b.current, b.current + LimitLine)
<1> DEFINE S == CarriageReturns(b, LimitLine)
           from == FindFrom(b)
           to == FindTo(b, LimitLine)
           pos == FoundPos(b, LimitLine)
           s == FindNewline(b, LimitLine)
<1>1. /\ b.current \in Nat /\ b.receive \in Nat /\ b.current <= b.receive
      /\ b.receive <= BufferSize /\ BufferSize \in Nat /\ LimitLine \in Nat
      /\ LimitLine > 0 /\ LimitLine <= BufferSize /\ b.newline = None
  BY LimitsAre DEF Buffers, Searching
<1>2. /\ to \in b.current..b.receive /\ to <= b.current + LimitLine
      /\ UseMaxLength(b, LimitLine) =>
           to = b.current + LimitLine /\ to < b.receive
  BY <1>1 DEF FindTo, UseMaxLength
<1>3. from \in b.current..b.receive /\ NoReturn(b, b.current, from)
  BY <1>1 DEF FindFrom, Searching, Buffers, NoReturn
<1>4. S = {i \in from..to - 1 : b.bytes[i] = "CR"}
  <2>1. \A i \in from..to - 1 : i < BufferSize
    BY <1>1, <1>2, <1>3
  <2>2. S = {i \in from..to - 1 : i < BufferSize /\ b.bytes[i] = "CR"}
    BY Zenon DEF CarriageReturns
  <2> HIDE DEF S, from, to
  <2> QED BY <2>1, <2>2
<1>5. (S = {} => pos = to) /\ (S # {} => pos = Min(S))
  BY DEF FoundPos
<1>6. ASSUME S = {} PROVE NoReturn(b, b.current, to)
  <2> HIDE DEF S, from, to, pos
  <2>1. ASSUME NEW i \in b.current..to - 1 PROVE b.bytes[i] # "CR"
    <3>1. i \in b.current..from - 1 \/ i \in from..to - 1
      BY <1>1, <1>2, <1>3
    <3> QED BY <1>3, <1>4, <1>6, <3>1 DEF NoReturn
  <2> QED BY <2>1 DEF NoReturn
<1>7. ASSUME S # {}
      PROVE  /\ pos \in b.current..to - 1 /\ b.bytes[pos] = "CR"
             /\ NoReturn(b, b.current, pos)
  <2> HIDE DEF S, from, to, pos
  <2>1. S \subseteq Nat
    BY <1>1, <1>2, <1>3, <1>4
  <2>2. pos \in S /\ \A i \in S : pos <= i
    BY <1>5, <1>7, <2>1, LeastExists
  <2>3. pos \in from..to - 1 /\ b.bytes[pos] = "CR"
    BY <1>4, <2>2
  <2>4. ASSUME NEW i \in b.current..pos - 1 PROVE b.bytes[i] # "CR"
    <3>1. i \in b.current..from - 1 \/ i \in from..to - 1
      BY <1>1, <1>2, <1>3, <2>3
    <3>2. i \notin S
      BY <1>1, <2>1, <2>2, <2>3
    <3> QED BY <1>3, <1>4, <3>1, <3>2 DEF NoReturn
  <2> QED BY <1>1, <1>2, <1>3, <2>3, <2>4 DEF NoReturn
<1>8. SearchFinds(b, s)
  <2>1. CASE S # {} /\ b.bytes[pos + 1] = "LF"
    <3>1. s = [b EXCEPT !.newline = pos, !.lastFind = None]
      BY <1>1, <2>1 DEF FindNewline
    <3> HIDE DEF S, from, to, pos, s
    <3>2. /\ s.bytes = b.bytes /\ s.receive = b.receive
          /\ s.current = b.current /\ s.newline = pos /\ s.lastFind = None
      BY <3>1 DEF Buffers
    <3>3. pos \in b.current..b.receive - 1 /\ pos < b.current + LimitLine
          /\ pos \in 0..BufferSize /\ pos # None
      BY <1>1, <1>2, <1>7, <2>1 DEF None
    <3>4. s \in Buffers
      BY <3>1, <3>3 DEF Buffers
    <3> QED BY <1>7, <2>1, <3>2, <3>3, <3>4 DEF SearchFinds
  <2>2. CASE ~(S # {} /\ b.bytes[pos + 1] = "LF")
    <3>1. s = [b EXCEPT !.lastFind = pos]
      BY <1>1, <2>2 DEF FindNewline
    <3> HIDE DEF S, from, to, pos, s
    <3>2. /\ s.bytes = b.bytes /\ s.receive = b.receive
          /\ s.current = b.current /\ s.newline = None /\ s.lastFind = pos
      BY <1>1, <3>1 DEF Buffers
    <3>3. /\ pos \in b.current..b.receive /\ NoReturn(b, b.current, pos)
          /\ pos \in 0..BufferSize
      BY <1>1, <1>2, <1>5, <1>6, <1>7
    <3>4. s \in Buffers
      BY <3>1, <3>3 DEF Buffers
    <3>5. Searching(s)
      BY <1>1, <3>2, <3>3 DEF Searching, NoReturn
    <3> QED BY <3>2, <3>4, <3>5 DEF SearchFinds
  <2> QED BY <2>1, <2>2
<1>9. ASSUME ReachedMaxLength(b, LimitLine)
      PROVE  /\ b.current + LimitLine < b.receive
             /\ NoReturn(b, b.current, b.current + LimitLine)
  BY <1>2, <1>6, <1>9 DEF ReachedMaxLength
<1> QED BY <1>8, <1>9

(* What was received, and the text of a line that was found.               *)
LEMMA LineIs ==
  ASSUME NEW r \in Requests, NEW k \in 0..Len(r.lines) - 1,
         NEW b \in Buffers, Received(b, Bytes(r)), b.current = End(r, k),
         b.newline = End(r, k) + Len(r.lines[k + 1]), b.newline <= b.receive
  PROVE  Line(b) = r.lines[k + 1]
<1>1. k + 1 \in 1..Len(r.lines) /\ (k + 1) - 1 = k /\ k \in 0..Len(r.lines)
  BY RequestIs
<1>2. PICK own : own = r.lines[k + 1] /\ own \in Seq(Symbols)
  BY <1>1, RequestIs
<1>3. PICK from : from = End(r, k) /\ from \in Nat
  BY <1>1, EndsAre
<1>4. PICK len : len = Len(own) /\ len \in Nat
  <2>1. own \in Seq(Symbols)
    BY <1>2
  <2> QED BY <2>1
<1>5. PICK bytes, receive : /\ bytes = b.bytes /\ receive = b.receive
                            /\ receive \in Int
  BY DEF Buffers
<1>6. PICK whole : whole = Bytes(r)
  OBVIOUS
<1>7. \A j \in 1..len : whole[from + j] = own[j]
  <2>1. \A j \in 1..Len(r.lines[k + 1]) :
          Bytes(r)[End(r, (k + 1) - 1) + j] = r.lines[k + 1][j]
    BY <1>1, BytesAre
  <2> QED BY <1>1, <1>2, <1>3, <1>4, <1>6, <2>1, Zenon
<1>8. b.current = from /\ b.newline = from + len
  BY <1>2, <1>3, <1>4, Zenon
<1>9. Line(b) = [i \in 1..(from + len) - from |-> bytes[from + i - 1]]
  BY <1>5, <1>8, Zenon DEF Line, Text
<1>10. /\ from + len <= receive
       /\ \A i \in 0..receive - 1 : bytes[i] = whole[i + 1]
  BY <1>5, <1>6, <1>8 DEF Received
<1>11. ASSUME NEW i \in 1..len PROVE bytes[from + i - 1] = own[i]
  <2>1. from + i - 1 \in 0..receive - 1 /\ (from + i - 1) + 1 = from + i
    <3>1. from \in Nat /\ len \in Nat /\ receive \in Int
      BY <1>3, <1>4, <1>5, Zenon
    <3> QED BY <1>10, <3>1
  <2> QED BY <1>7, <1>10, <2>1
<1>12. own = [i \in 1..len |-> own[i]]
  <2>1. own \in Seq(Symbols)
    BY <1>2
  <2> QED BY <1>4, <2>1
<1>13. (from + len) - from = len
  <2>1. from \in Nat /\ len \in Nat
    BY <1>3, <1>4, Zenon
  <2> QED BY <2>1
<1>14. Line(b) = own
  BY <1>9, <1>11, <1>12, <1>13
<1> QED BY <1>2, <1>14

(* A line that was found is the one the peer has sent, unless its line feed*)
(* was not received and the line holds a carriage return.                  *)
LEMMA FoundLineIs ==
  ASSUME NEW r \in Requests, NEW k \in 0..Len(r.lines),
         k = Len(r.lines) => ~HasEmptyLine(r),
         NEW b \in Buffers, Received(b, Bytes(r)), b.current = End(r, k),
         NEW s, SearchFinds(b, s), s.newline # None,
         \/ s.newline + 2 <= b.receive
         \/ /\ k < Len(r.lines)
            /\ \A j \in 1..Len(r.lines[k + 1]) : r.lines[k + 1][j] # "CR"
  PROVE  /\ k \in 0..Len(r.lines) - 1
         /\ Line(s) = r.lines[k + 1]
         /\ s.newline + 2 = End(r, k + 1)
<1>1. k \in Nat /\ Len(r.lines) \in Nat
  BY RequestIs
<1>2. End(r, k) \in Nat
  BY EndsAre
<1>3. PICK pos : pos = s.newline
  OBVIOUS
<1>4. /\ pos \in Nat /\ End(r, k) <= pos /\ pos < b.receive
      /\ b.receive \in Nat
  BY <1>2, <1>3 DEF SearchFinds, Buffers
<1>5. \A i \in End(r, k)..pos - 1 : Bytes(r)[i + 1] # "CR"
  <2>1. \A i \in End(r, k)..pos - 1 : i \in 0..b.receive - 1
    BY <1>2, <1>4
  <2>2. \A i \in End(r, k)..pos - 1 : b.bytes[i] # "CR"
    BY <1>3 DEF SearchFinds, NoReturn
  <2> QED BY <2>1, <2>2 DEF Received
<1>6. b.receive <= Len(Bytes(r))
  BY DEF Received
<1>7. Bytes(r)[pos + 1] = "CR"
  <2>1. pos \in 0..b.receive - 1
    BY <1>4
  <2> QED BY <1>3, <2>1 DEF Received, SearchFinds
<1>8. k \in 0..Len(r.lines) - 1 /\ pos = End(r, k) + Len(r.lines[k + 1])
  <2>1. CASE pos + 2 <= b.receive
    <3>1. /\ pos + 1 \in 0..b.receive - 1 /\ (pos + 1) + 1 = pos + 2
          /\ pos + 2 <= Len(Bytes(r))
      <4>1. Bytes(r) \in Seq(Symbols)
        BY BytesAre
      <4> HIDE DEF Bytes
      <4>2. Len(Bytes(r)) \in Nat
        BY <4>1
      <4> QED BY <1>4, <1>6, <2>1, <4>2
    <3>2. Bytes(r)[pos + 2] = "LF"
      BY <1>3, <3>1 DEF Received, SearchFinds
    <3> QED BY <1>4, <1>5, <1>7, <3>1, <3>2, LineEndIs
  <2>2. CASE /\ k < Len(r.lines)
             /\ \A j \in 1..Len(r.lines[k + 1]) : r.lines[k + 1][j] # "CR"
    <3>1. k \in 0..Len(r.lines) - 1
      BY <1>1, <2>2
    <3> QED BY <1>4, <1>5, <1>7, <2>2, <3>1, ReturnIsInLine
  <2> QED BY <1>3, <2>1, <2>2
<1>9. s.newline + 2 = End(r, k + 1)
  <2>1. k + 1 \in 1..Len(r.lines) /\ (k + 1) - 1 = k
    BY <1>1, <1>8
  <2>2. PICK len : len = Len(r.lines[k + 1]) /\ len \in Nat
    BY <2>1, RequestIs
  <2>3. PICK from : from = End(r, k) /\ from \in Nat
    BY <1>2
  <2>4. End(r, k + 1) = from + len + 2
    <3>1. End(r, k + 1) = End(r, (k + 1) - 1) + Len(r.lines[k + 1]) + 2
      BY <2>1, EndsAre
    <3> QED BY <2>1, <2>2, <2>3, <3>1, Zenon
  <2>5. pos = from + len
    BY <1>8, <2>2, <2>3, Zenon
  <2> QED BY <1>3, <2>4, <2>5
<1>10. Line(s) = r.lines[k + 1]
  <2>1. /\ s \in Buffers /\ s.bytes = b.bytes /\ s.receive = b.receive
        /\ s.current = b.current
    BY DEF SearchFinds
  <2>2. Received(s, Bytes(r))
    BY <2>1 DEF Received
  <2>3. s.newline <= s.receive
    BY <1>3, <1>4, <2>1
  <2>4. s.current = End(r, k)
    BY <2>1
  <2>5. s.newline = End(r, k) + Len(r.lines[k + 1])
    BY <1>3, <1>8
  <2> QED BY <1>8, <2>1, <2>2, <2>3, <2>4, <2>5, LineIs
<1> QED BY <1>8, <1>9, <1>10

(* No line within the limit is taken for a longer one.                     *)
LEMMA LongLineIs ==
  ASSUME NEW r \in Requests, NEW k \in 0..Len(r.lines) - 1,
         NEW b \in Buffers, Received(b, Bytes(r)), b.current = End(r, k),
         b.current + LimitLine < b.receive,
         NoReturn(b, b.current, b.current + LimitLine)
  PROVE  Len(r.lines[k + 1]) >= LimitLine
<1>1. k + 1 \in 1..Len(r.lines) /\ (k + 1) - 1 = k /\ k \in 0..Len(r.lines)
  BY RequestIs
<1>2. PICK len : len = Len(r.lines[k + 1]) /\ len \in Nat
  BY <1>1, RequestIs
<1>3. PICK from : from = End(r, k) /\ from \in Nat
  BY <1>1, EndsAre
<1>4. End(r, k + 1) = from + len + 2
  <2>1. End(r, k + 1) = End(r, (k + 1) - 1) + Len(r.lines[k + 1]) + 2
    BY <1>1, EndsAre
  <2> QED BY <1>1, <1>2, <1>3, <2>1, Zenon
<1>5. Bytes(r)[End(r, k + 1) - 1] = "CR"
  BY <1>1, BytesAre
<1>6. LimitLine \in Nat /\ b.receive \in Int
  BY LimitsAre DEF Buffers
<1>7. from + LimitLine < b.receive
  BY <1>3
<1> SUFFICES ASSUME len < LimitLine PROVE FALSE
  BY <1>2, <1>6
<1>8. /\ from + len \in 0..b.receive - 1
      /\ from + len \in from..(from + LimitLine) - 1
      /\ (from + len) + 1 = End(r, k + 1) - 1
  <2>1. from \in Nat /\ len \in Nat
    BY <1>2, <1>3, Zenon
  <2> QED BY <1>4, <1>6, <1>7, <2>1
<1>9. b.bytes[from + len] = "CR"
  BY <1>5, <1>8 DEF Received
<1>10. b.bytes[from + len] # "CR"
  BY <1>3, <1>8 DEF NoReturn
<1> QED BY <1>9, <1>10

(* A line end that follows a line and was received is the empty line.      *)
LEMMA NewlineIs ==
  ASSUME NEW r \in Requests, NEW k \in 0..Len(r.lines),
         k = Len(r.lines) => ~HasEmptyLine(r),
         NEW b \in Buffers, Received(b, Bytes(r)), b.current = End(r, k),
         NewlineFollows(b), b.current + 2 <= b.receive
  PROVE  /\ k + 1 = Len(r.lines) /\ HasEmptyLine(r)
         /\ b.current + 2 = End(r, k + 1)
<1>1. k \in Nat /\ Len(r.lines) \in Nat
  BY RequestIs
<1>2. PICK from : from = End(r, k) /\ from \in Nat
  BY EndsAre
<1>3. b.receive \in Int /\ from + 2 <= b.receive
  BY <1>2 DEF Buffers
<1>4. from + 2 <= Len(Bytes(r))
  <2>1. Bytes(r) \in Seq(Symbols)
    BY BytesAre
  <2> HIDE DEF Bytes
  <2>2. Len(Bytes(r)) \in Nat
    BY <2>1
  <2> QED BY <1>2, <1>3, <2>2 DEF Received
<1>5. Bytes(r)[from + 1] = "CR" /\ Bytes(r)[from + 2] = "LF"
  <2>1. from \in 0..b.receive - 1 /\ from + 1 \in 0..b.receive - 1
        /\ (from + 1) + 1 = from + 2
    <3>1. from \in Nat
      BY <1>2
    <3> QED BY <1>3, <3>1
  <2>2. b.bytes[from] = "CR" /\ b.bytes[from + 1] = "LF"
    BY <1>2 DEF NewlineFollows
  <2> QED BY <2>1, <2>2 DEF Received
<1>6. k \in 0..Len(r.lines) - 1 /\ from = End(r, k) + Len(r.lines[k + 1])
  <2>1. \A i \in End(r, k)..from - 1 : Bytes(r)[i + 1] # "CR"
    <3>1. End(r, k)..from - 1 = {}
      BY <1>2
    <3> QED BY <3>1
  <2>2. End(r, k) <= from
    BY <1>2
  <2> QED BY <1>2, <1>4, <1>5, <2>1, <2>2, LineEndIs
<1>7. k + 1 \in 1..Len(r.lines) /\ (k + 1) - 1 = k
  BY <1>1, <1>6
<1>8. PICK own : own = r.lines[k + 1] /\ own \in Seq(Symbols)
  BY <1>7, RequestIs
<1>9. PICK len : len = Len(own) /\ len \in Nat
  <2>1. own \in Seq(Symbols)
    BY <1>8
  <2> QED BY <2>1
<1>10. len = 0
  <2>1. from = from + len
    BY <1>2, <1>6, <1>8, <1>9, Zenon
  <2> QED BY <1>2, <1>9, <2>1
<1>11. own = <<>>
  <2>1. own \in Seq(Symbols)
    BY <1>8
  <2>2. Len(own) = 0
    BY <1>9, <1>10
  <2> QED BY <2>1, <2>2, EmptySeq, Zenon
<1>12. k + 1 = Len(r.lines)
  BY <1>7, <1>8, <1>11, RequestIs
<1>13. HasEmptyLine(r)
  <2>1. r.lines # <<>>
    BY <1>7
  <2> QED BY <1>8, <1>11, <1>12, <2>1, Zenon DEF HasEmptyLine
<1>14. End(r, k + 1) = from + 2
  <2>1. End(r, k + 1) = End(r, (k + 1) - 1) + Len(r.lines[k + 1]) + 2
    BY <1>7, EndsAre
  <2>2. End(r, k + 1) = from + len + 2
    BY <1>2, <1>7, <1>8, <1>9, <2>1, Zenon
  <2> QED BY <1>2, <1>10, <2>2
<1> QED BY <1>2, <1>12, <1>13, <1>14

LEMMA EmptyLineIs ==
  ASSUME NEW r \in Requests, HasEmptyLine(r), r = peerRequest
  PROVE  /\ Len(r.lines) > 0
         /\ EmptyLine = End(r, Len(r.lines) - 1)
         /\ End(r, Len(r.lines)) = End(r, Len(r.lines) - 1) + 2
         /\ EmptyLine \in Nat
<1>1. PICK n : n = Len(r.lines) /\ n \in Nat
  BY RequestIs
<1>2. r.lines # <<>> /\ r.lines[n] = <<>>
  BY <1>1, Zenon DEF HasEmptyLine
<1>3. n > 0
  <2>1. r.lines \in Seq(Seq(Symbols))
    BY RequestIs
  <2>2. PICK lines : lines = r.lines
    OBVIOUS
  <2>3. lines \in Seq(Seq(Symbols)) /\ lines # <<>> /\ n = Len(lines)
    BY <1>1, <1>2, <2>1, <2>2, Zenon
  <2> HIDE DEF Symbols
  <2> QED BY <1>1, <2>3, EmptySeq, SMT
<1>4. n \in 1..Len(r.lines) /\ n - 1 \in 0..Len(r.lines)
  BY <1>1, <1>3
<1>5. PICK from : from = End(r, n - 1) /\ from \in Nat
  BY <1>4, EndsAre
<1>6. End(r, n) = from + 2
  <2>1. End(r, n) = End(r, n - 1) + Len(r.lines[n]) + 2
    BY <1>4, EndsAre
  <2>2. Len(<<>>) = 0
    OBVIOUS
  <2>3. End(r, n) = from + 0 + 2
    BY <1>2, <1>5, <2>1, <2>2, Zenon
  <2> QED BY <1>5, <2>3
<1>7. PICK rest : rest = Len(r.rest) /\ rest \in Nat
  BY RequestIs
<1>8. Len(Bytes(r)) = End(r, n) + rest
  <2>1. Len(Bytes(r)) = End(r, Len(r.lines)) + Len(r.rest)
    BY BytesAre
  <2> QED BY <1>1, <1>7, <2>1, Zenon
<1>9. EmptyLine = Len(Bytes(r)) - rest - 2
  <2>1. HasEmptyLine(peerRequest) /\ Len(Stream) = Len(Bytes(r))
        /\ Len(peerRequest.rest) = rest
    BY <1>7, Zenon DEF Stream
  <2> QED BY <2>1, Zenon DEF EmptyLine
<1>10. EmptyLine = from
  BY <1>5, <1>6, <1>7, <1>8, <1>9
<1> QED BY <1>1, <1>3, <1>5, <1>6, <1>10, Zenon

-----------------------------------------------------------------------------
(* What steps leave alone.                                                 *)

LEMMA PeerKept ==
  ASSUME peerRequest' = peerRequest
  PROVE  /\ Stream' = Stream /\ EmptyLine' = EmptyLine
         /\ WellFormed' <=> WellFormed
<1>1. Stream' = Stream
  BY DEF Stream
<1>2. EmptyLine' = EmptyLine
  BY <1>1 DEF EmptyLine
<1>3. Fields' = Fields
  BY DEF Fields
<1>4. Announced' = Announced
  BY <1>3 DEF Announced
<1>5. WellFormed' <=> WellFormed
  BY <1>3, <1>4, Zenon DEF WellFormed
<1> QED BY <1>1, <1>2, <1>5

LEMMA RequestKept ==
  ASSUME peerRequest' = peerRequest, UNCHANGED requestVars
  PROVE  /\ LinesTaken(headerCount + 1)' <=> LinesTaken(headerCount + 1)
         /\ WithinLimits' <=> WithinLimits
         /\ Untouched' <=> Untouched
         /\ Counted' <=> Counted
         /\ stale' = stale
<1>1. /\ request' = request /\ headerCount' = headerCount
      /\ contentLength' = contentLength /\ totalReceived' = totalReceived
      /\ stale' = stale
  BY DEF requestVars
<1>2. LinesTaken(headerCount + 1)' <=> LinesTaken(headerCount + 1)
  BY <1>1 DEF LinesTaken
<1>3. WithinLimits' <=> WithinLimits
  BY <1>1 DEF WithinLimits
<1>4. /\ Untouched' <=> Untouched
      /\ Counted' <=> Counted
  BY <1>1 DEF Untouched, Counted
<1> QED BY <1>1, <1>2, <1>3, <1>4

Groups == {{"requestReceive", "requestParse"},
           {"headerReceive", "headerParse"}, {"body", "bodyReceive"}}

(* A step that goes on without taking anything from the buffer.            *)
LEMMA GoesOnStep ==
  ASSUME StraightInv, NEW g \in Groups, pc \in g, pc' \in g,
         UNCHANGED <<peerVars, requestVars, resultVars>>,
         m_buffer' \in Buffers, Received(m_buffer', Stream),
         Searching(m_buffer'), m_buffer'.current = m_buffer.current,
         pc = "bodyReceive" => m_buffer'.lastFind = m_buffer.lastFind,
         pc # "body", splitEnd' \in BOOLEAN, splitEnd => splitEnd',
         m_buffer'.receive \in {EmptyLine, EmptyLine + 1} \ {0} => splitEnd'
  PROVE  StraightInv'
<1>1. /\ peerRequest' = peerRequest /\ closed' = closed /\ calls' = calls
      /\ request' = request /\ headerCount' = headerCount
      /\ contentLength' = contentLength /\ totalReceived' = totalReceived
      /\ status' = status /\ response' = response
  BY DEF peerVars, requestVars, resultVars
<1>2. /\ LinesTaken(headerCount + 1)' <=> LinesTaken(headerCount + 1)
      /\ WithinLimits' <=> WithinLimits
      /\ Untouched' <=> Untouched
      /\ Counted' <=> Counted
      /\ ~stale' /\ stale' = stale
  <2>1. ~stale' /\ stale' = stale
    BY <1>1, RequestKept DEF StraightInv
  <2> QED BY <1>1, RequestKept, <2>1, Zenon
<1>3. Stream' = Stream /\ EmptyLine' = EmptyLine
      /\ (WellFormed' <=> WellFormed)
  BY <1>1, PeerKept
<1>4. /\ pc \in {"requestReceive", "requestParse"} <=>
           pc' \in {"requestReceive", "requestParse"}
      /\ pc \in {"headerReceive", "headerParse"} <=>
           pc' \in {"headerReceive", "headerParse"}
      /\ pc \in {"body", "bodyReceive"} <=> pc' \in {"body", "bodyReceive"}
      /\ pc \notin {"idle", "undefined", "returned"}
      /\ pc' \notin {"idle", "undefined", "returned"}
      /\ pc' \in {"requestReceive", "requestParse", "headerReceive",
                  "headerParse", "body", "bodyReceive"}
  BY DEF Groups
<1>5. status = "none"
  BY <1>4 DEF StraightInv, ResultInv
<1>6. TypeInv'
  BY <1>1, <1>2, <1>4 DEF StraightInv, TypeInv
<1>7. BufferInv'
  BY <1>3 DEF BufferInv, Searching
<1>8. SplitSeen'
  BY <1>3 DEF SplitSeen
<1>9. RequestPhase'
  BY <1>2, <1>4 DEF StraightInv, RequestPhase
<1>10. HeaderPhase'
  <2> SUFFICES ASSUME pc' \in {"headerReceive", "headerParse"}
               PROVE  HeaderPhase'
    BY DEF HeaderPhase
  <2>1. /\ LinesTaken(headerCount + 1) /\ request.body = <<>>
        /\ m_buffer.current = End(peerRequest, headerCount + 1)
        /\ headerCount > 0 /\ HasEmptyLine(peerRequest)
             /\ headerCount + 2 = Len(peerRequest.lines) => splitEnd
    BY <1>4 DEF StraightInv, HeaderPhase
  <2> QED BY <1>1, <1>2, <2>1 DEF HeaderPhase
<1>11. BodyPhase'
  <2> SUFFICES ASSUME pc' \in {"body", "bodyReceive"} PROVE BodyPhase'
    BY <1>1, <1>5 DEF BodyPhase
  <2>1. /\ LinesTaken(headerCount + 1) /\ headerCount > 0
        /\ HasEmptyLine(peerRequest)
        /\ headerCount + 2 = Len(peerRequest.lines)
        /\ m_buffer.current = End(peerRequest, headerCount + 2)
                                + Len(request.body)
        /\ IsPrefix(request.body, peerRequest.rest)
        /\ contentLength > 0 \/ request.body = <<>>
        /\ m_buffer.lastFind = None
    BY <1>4 DEF StraightInv, BodyPhase
  <2>2. m_buffer'.lastFind = None
    BY <1>4, <2>1
  <2>3. m_buffer'.current = End(peerRequest', headerCount' + 2)
                              + Len(request'.body)
    BY <1>1, <2>1
  <2> QED BY <1>1, <1>2, <2>1, <2>2, <2>3 DEF BodyPhase
<1>12. ResultInv'
  BY <1>1, <1>4, <1>5 DEF ResultInv
<1>13. WithinLimits' /\ RefusedForSplitEndOnly' /\ Counted' /\ ~stale'
  BY <1>1, <1>2, <1>5 DEF StraightInv, RefusedForSplitEndOnly
<1> QED BY <1>6, <1>7, <1>8, <1>9, <1>10, <1>11, <1>12, <1>13 DEF StraightInv

(* A step that returns without a request.                                  *)
LEMMA ReturnStep ==
  ASSUME StraightInv, pc' = "returned",
         UNCHANGED <<peerVars, requestVars, splitEnd>>,
         m_buffer' \in Buffers, Received(m_buffer', Stream),
         status' \in {"Disconnected", "PeerError", "InternalError"},
         response' \in Responses,
         status' # "InternalError" =>
           m_buffer'.current <= m_buffer'.receive,
         status' = "PeerError" =>
           response' # "Ok" /\ (WellFormed => splitEnd)
  PROVE  StraightInv'
<1>1. /\ peerRequest' = peerRequest /\ closed' = closed /\ calls' = calls
      /\ request' = request /\ headerCount' = headerCount
      /\ contentLength' = contentLength /\ totalReceived' = totalReceived
      /\ splitEnd' = splitEnd
  BY DEF peerVars, requestVars
<1>2. /\ WithinLimits' <=> WithinLimits
      /\ Counted' <=> Counted
      /\ ~stale' /\ stale' = stale
  <2>1. ~stale' /\ stale' = stale
    BY <1>1, RequestKept DEF StraightInv
  <2> QED BY <1>1, RequestKept, <2>1, Zenon
<1>3. Stream' = Stream /\ EmptyLine' = EmptyLine
      /\ (WellFormed' <=> WellFormed)
  BY <1>1, PeerKept
<1>4. TypeInv'
  BY <1>1, <1>2 DEF StraightInv, TypeInv
<1>5. BufferInv'
  BY <1>3 DEF BufferInv
<1>6. SplitSeen' /\ RequestPhase' /\ HeaderPhase' /\ BodyPhase'
  BY DEF SplitSeen, RequestPhase, HeaderPhase, BodyPhase
<1>7. ResultInv'
  BY DEF ResultInv
<1>8. WithinLimits' /\ RefusedForSplitEndOnly' /\ Counted' /\ ~stale'
  BY <1>1, <1>2, <1>3 DEF StraightInv, RefusedForSplitEndOnly
<1> QED BY <1>4, <1>5, <1>6, <1>7, <1>8 DEF StraightInv

-----------------------------------------------------------------------------
(* The line that is looked for.                                            *)

(* Line k + 1 is looked for.                                               *)
LooksBehind(k) ==
  \/ pc = "requestParse" /\ k = 0
  \/ pc = "headerParse" /\ k = headerCount + 1

LEMMA SearchedIs ==
  ASSUME StraightInv, NEW k, LooksBehind(k)
  PROVE  /\ peerRequest \in Requests /\ Stream = Bytes(peerRequest)
         /\ k \in 0..Len(peerRequest.lines)
         /\ k = Len(peerRequest.lines) => ~HasEmptyLine(peerRequest)
         /\ m_buffer \in Buffers /\ Searching(m_buffer)
         /\ Received(m_buffer, Stream) /\ Received(Searched, Stream)
         /\ m_buffer.current = End(peerRequest, k)
         /\ SearchFinds(m_buffer, Searched)
         /\ ReachedMaxLength(m_buffer, LimitLine) =>
              /\ m_buffer.current + LimitLine < m_buffer.receive
              /\ NoReturn(m_buffer, m_buffer.current,
                          m_buffer.current + LimitLine)
<1>1. peerRequest \in Requests /\ Stream = Bytes(peerRequest)
  BY DEF StraightInv, TypeInv, Stream
<1>2. m_buffer \in Buffers /\ Searching(m_buffer) /\ Received(m_buffer, Stream)
  BY DEF StraightInv, BufferInv, LooksBehind
<1>3. /\ SearchFinds(m_buffer, Searched)
      /\ ReachedMaxLength(m_buffer, LimitLine) =>
              /\ m_buffer.current + LimitLine < m_buffer.receive
              /\ NoReturn(m_buffer, m_buffer.current,
                          m_buffer.current + LimitLine)
  BY <1>2, SearchIs, Zenon DEF Searched
<1>4. Received(Searched, Stream)
  BY <1>2, <1>3 DEF SearchFinds, Received
<1>5. PICK n : n = Len(peerRequest.lines) /\ n \in Nat
  BY <1>1, RequestIs
<1>6. /\ k \in 0..n /\ (k = n => ~HasEmptyLine(peerRequest))
      /\ m_buffer.current = End(peerRequest, k)
  <2>1. CASE pc = "requestParse" /\ k = 0
    <3>1. End(peerRequest, 0) = 0 /\ m_buffer.current = 0
      BY <1>1, <2>1, EndsAre DEF StraightInv, RequestPhase
    <3>2. n = 0 => ~HasEmptyLine(peerRequest)
      <4> SUFFICES ASSUME n = 0, HasEmptyLine(peerRequest) PROVE FALSE
        OBVIOUS
      <4>1. PICK lines : lines = peerRequest.lines
        OBVIOUS
      <4>2. lines \in Seq(Seq(Symbols)) /\ lines # <<>> /\ Len(lines) = 0
        BY <1>1, <1>5, <4>1, RequestIs, Zenon DEF HasEmptyLine
      <4> QED BY <4>2, EmptySeq, Zenon
    <3> QED BY <1>5, <2>1, <3>1, <3>2
  <2>2. CASE pc = "headerParse" /\ k = headerCount + 1
    <3>1. /\ k <= n /\ m_buffer.current = End(peerRequest, k)
          /\ \A i \in 1..k : peerRequest.lines[i] # <<>>
      BY <1>5, <2>2 DEF StraightInv, HeaderPhase, LinesTaken
    <3>2. k \in Nat /\ k > 0
      BY <2>2 DEF StraightInv, TypeInv
    <3>3. k = n => peerRequest.lines[n] # <<>>
      BY <1>5, <3>1, <3>2
    <3> QED BY <1>5, <3>1, <3>2, <3>3 DEF HasEmptyLine
  <2> QED BY <2>1, <2>2 DEF LooksBehind
<1> QED BY <1>1, <1>2, <1>3, <1>4, <1>5, <1>6

(* A line that was found has come from the peer when its end was received. *)
LEMMA TakenIs ==
  ASSUME StraightInv, NEW k, LooksBehind(k), Found,
         Searched.newline + 2 <= m_buffer.receive
  PROVE  /\ k \in 0..Len(peerRequest.lines) - 1
         /\ Line(Searched) = peerRequest.lines[k + 1]
         /\ Searched.newline + 2 = End(peerRequest, k + 1)
<1>1. Searched.newline # None
  BY DEF Found, HasNewline
<1> QED BY <1>1, SearchedIs, FoundLineIs

LEMMA FieldsAre ==
  ASSUME peerRequest \in Requests, HasEmptyLine(peerRequest)
  PROVE  /\ Len(Fields) = IF Len(peerRequest.lines) > 2
                            THEN Len(peerRequest.lines) - 2 ELSE 0
         /\ DOMAIN Fields = 1..Len(peerRequest.lines) - 2
         /\ \A i \in 1..Len(peerRequest.lines) - 2 :
              Fields[i] = peerRequest.lines[i + 1]
<1>1. PICK lines, n, fields : /\ lines = peerRequest.lines
                              /\ n = Len(lines) /\ fields = Fields
  OBVIOUS
<1>2. lines \in Seq(Seq(Symbols)) /\ n \in Nat
  BY <1>1, RequestIs
<1>3. fields = SubSeq(lines, 2, n - 1)
  BY <1>1, Zenon DEF Fields
<1> HIDE DEF Symbols
<1>4. \A i \in 2..n - 1 : lines[i] \in Seq(Symbols)
  BY <1>1, <1>2
<1>5. /\ fields \in Seq(Seq(Symbols))
      /\ Len(fields) = IF 2 <= n - 1 THEN (n - 1) - 2 + 1 ELSE 0
      /\ \A i \in 1..(n - 1) - 2 + 1 : fields[i] = lines[2 + i - 1]
  BY <1>2, <1>3, <1>4, SubSeqProperties
<1>6. (n - 1) - 2 + 1 = n - 2 /\ \A i \in 1..n - 2 : 2 + i - 1 = i + 1
  BY <1>2
<1>7. /\ Len(fields) = IF n > 2 THEN n - 2 ELSE 0
      /\ \A i \in 1..n - 2 : fields[i] = lines[i + 1]
  BY <1>2, <1>5, <1>6
<1>8. DOMAIN fields = 1..n - 2
  <2>1. DOMAIN fields = 1..Len(fields)
    BY <1>5
  <2> QED BY <1>2, <1>7, <2>1
<1> QED BY <1>1, <1>7, <1>8, Zenon

(* A well-formed request is read line by line.                             *)
LEMMA WellFormedIs ==
  ASSUME StraightInv, NEW k, LooksBehind(k), WellFormed, ~splitEnd
  PROVE  /\ k \in 0..Len(peerRequest.lines) - 2
         /\ HasEmptyLine(peerRequest)
         /\ ~LineRefused
         /\ HasNewline => Line(Searched) = peerRequest.lines[k + 1]
         /\ peerRequest.lines[k + 1] # <<>>
<1>1. PICK n : n = Len(peerRequest.lines) /\ n \in Nat
  BY SearchedIs, RequestIs
<1>2. HasEmptyLine(peerRequest) /\ k \in 0..n /\ k # n
  BY <1>1, SearchedIs DEF WellFormed
<1>3. n - 2 >= 1
  <2>1. Len(Fields) >= 1
    <3>1. Len(Fields) \in 1..LimitHeaderFieldCount
      BY Zenon DEF WellFormed
    <3> HIDE DEF Fields
    <3> QED BY <3>1, LimitsAre
  <2>2. PICK c : c = Len(Fields) /\ c >= 1
    BY <2>1
  <2>3. c = IF n > 2 THEN n - 2 ELSE 0
    BY <1>1, <1>2, <2>2, SearchedIs, FieldsAre, Zenon
  <2>4. n \in Nat /\ c >= 1
    BY <1>1, <2>2, Zenon
  <2> QED BY <2>3, <2>4
<1>4. k # n - 1
  <2> n \in Nat
    BY <1>1
  <2>1. CASE pc = "requestParse" /\ k = 0
    BY <1>3, <2>1
  <2>2. CASE pc = "headerParse" /\ k = headerCount + 1
    <3>1. headerCount \in Nat
      BY DEF StraightInv, TypeInv
    <3>2. headerCount = 0 => k = 1
      BY <2>2
    <3>3. headerCount > 0 => headerCount + 2 # n
      BY <1>1, <1>2, <2>2 DEF StraightInv, HeaderPhase
    <3> QED BY <1>1, <1>3, <2>2, <3>1, <3>2, <3>3
  <2> QED BY <2>1, <2>2 DEF LooksBehind
<1>5. k \in 0..n - 2 /\ k + 1 \in 1..n /\ k + 1 # n /\ k \in 0..n - 1
  BY <1>1, <1>2, <1>4
<1>6. peerRequest.lines[k + 1] # <<>>
  BY <1>1, <1>5, SearchedIs, RequestIs
<1>7. PICK own : own = peerRequest.lines[k + 1] /\ own \in Seq(Symbols)
                 /\ k + 1 \in DOMAIN peerRequest.lines
  BY <1>1, <1>5, SearchedIs, RequestIs
<1>8. PICK len : len = Len(own) /\ len \in Nat
  <2>1. own \in Seq(Symbols)
    BY <1>7
  <2> QED BY <2>1
<1>9. /\ len <= LimitLine - 2
      /\ \A j \in 1..len : own[j] # "CR"
  <2>1. /\ Len(peerRequest.lines[k + 1]) <= LimitLine - 2
        /\ \A j \in DOMAIN peerRequest.lines[k + 1] :
             peerRequest.lines[k + 1][j] \notin {"CR", "LF"}
    BY <1>7 DEF WellFormed
  <2>2. DOMAIN own = 1..len
    <3>1. own \in Seq(Symbols)
      BY <1>7
    <3> QED BY <1>8, <3>1
  <2>3. \A j \in 1..len : own[j] \notin {"CR", "LF"}
    BY <1>7, <2>1, <2>2, Zenon
  <2> QED BY <1>7, <1>8, <2>1, <2>3, Zenon
<1>10. ~LineRefused
  <2>1. ~ReachedMaxLength(m_buffer, LimitLine)
    <3> SUFFICES ASSUME ReachedMaxLength(m_buffer, LimitLine) PROVE FALSE
      OBVIOUS
    <3>1. Len(peerRequest.lines[k + 1]) >= LimitLine
      BY <1>1, <1>5, SearchedIs, LongLineIs
    <3>2. len >= LimitLine
      BY <1>7, <1>8, <3>1, Zenon
    <3> QED BY <1>8, <1>9, <3>2, LimitsAre
  <2>2. HasNewline => ~TooLong(Searched, LimitLine)
    <3> SUFFICES ASSUME HasNewline PROVE ~TooLong(Searched, LimitLine)
      OBVIOUS
    <3>1. /\ Searched \in Buffers /\ Searched.newline # None
          /\ Searched.newline < m_buffer.current + LimitLine
          /\ Searched.current = m_buffer.current
      BY SearchedIs DEF HasNewline, SearchFinds
    <3> HIDE DEF Searched
    <3> QED BY <3>1, LimitsAre DEF TooLong, Buffers, None
  <2> QED BY <2>1, <2>2 DEF LineRefused
<1>11. HasNewline => Line(Searched) = peerRequest.lines[k + 1]
  <2> SUFFICES ASSUME HasNewline
               PROVE  Line(Searched) = peerRequest.lines[k + 1]
    OBVIOUS
  <2>1. \A j \in 1..Len(peerRequest.lines[k + 1]) :
          peerRequest.lines[k + 1][j] # "CR"
    BY <1>7, <1>8, <1>9, Zenon
  <2>2. k < Len(peerRequest.lines)
    BY <1>1, <1>5
  <2>3. Searched.newline # None
    BY DEF HasNewline
  <2> QED BY <2>1, <2>2, <2>3, SearchedIs, FoundLineIs
<1> QED BY <1>1, <1>2, <1>5, <1>6, <1>10, <1>11

-----------------------------------------------------------------------------
(* The steps of the receiver.                                              *)

LEMMA IncompleteStep ==
  ASSUME StraightInv, NEW k, LooksBehind(k), ~Found, ~LineRefused,
         m_buffer' = Searched, NEW g \in Groups, pc \in g, pc' \in g,
         UNCHANGED <<peerVars, requestVars, resultVars, splitEnd>>
  PROVE  StraightInv'
<1>1. Searched.newline = None
  BY DEF Found, LineRefused, HasNewline
<1>2. /\ Searched \in Buffers /\ Searching(Searched)
      /\ Searched.current = m_buffer.current
      /\ Searched.receive = m_buffer.receive /\ Received(Searched, Stream)
  BY <1>1, SearchedIs DEF SearchFinds
<1>3. m_buffer.receive \in {EmptyLine, EmptyLine + 1} \ {0} => splitEnd
  BY DEF StraightInv, SplitSeen, LooksBehind
<1>4. splitEnd' = splitEnd /\ splitEnd \in BOOLEAN
  BY DEF StraightInv, TypeInv
<1>5. pc # "bodyReceive" /\ pc # "body"
  BY DEF LooksBehind
<1> HIDE DEF Searched
<1> QED BY <1>2, <1>3, <1>4, <1>5, GoesOnStep

LEMMA RequestLineIncompleteStep ==
  ASSUME StraightInv, RequestLineIncomplete PROVE StraightInv'
<1>1. LooksBehind(0) /\ ~Found /\ ~LineRefused /\ m_buffer' = Searched
      /\ UNCHANGED <<peerVars, requestVars, resultVars, splitEnd>>
      /\ pc = "requestParse" /\ pc' = "requestReceive"
  BY DEF RequestLineIncomplete, Parse, GoesOn, LooksBehind
<1>2. {"requestReceive", "requestParse"} \in Groups
  BY DEF Groups
<1> QED BY <1>1, <1>2, IncompleteStep

LEMMA HeaderIncompleteStep ==
  ASSUME StraightInv, HeaderIncomplete PROVE StraightInv'
<1>1. LooksBehind(headerCount + 1) /\ ~Found /\ ~LineRefused
      /\ m_buffer' = Searched
      /\ UNCHANGED <<peerVars, requestVars, resultVars, splitEnd>>
      /\ pc = "headerParse" /\ pc' = "headerReceive"
  BY DEF HeaderIncomplete, HeaderParse, Parse, GoesOn, LooksBehind
<1>2. {"headerReceive", "headerParse"} \in Groups
  BY DEF Groups
<1> QED BY <1>1, <1>2, IncompleteStep

(* What the receiver refuses of a well-formed request, it refuses because  *)
(* of a split end.                                                         *)
LEMMA RefusedStep ==
  ASSUME StraightInv, NEW k, LooksBehind(k), m_buffer' = Searched,
         UNCHANGED <<peerVars, requestVars, splitEnd>>, pc' = "returned",
         status' = "PeerError", response' \in Responses \ {"Ok"},
         WellFormed => splitEnd
  PROVE  StraightInv'
<1>1. /\ Searched \in Buffers /\ Received(Searched, Stream)
      /\ Searched.current <= Searched.receive
  BY SearchedIs DEF SearchFinds, Searching
<1> HIDE DEF Searched
<1> QED BY <1>1, ReturnStep

LEMMA RequestLineRefusedStep ==
  ASSUME StraightInv, RequestLineRefused PROVE StraightInv'
<1>1. LooksBehind(0) /\ m_buffer' = Searched /\ pc' = "returned"
      /\ UNCHANGED <<peerVars, requestVars, splitEnd>>
      /\ status' = "PeerError" /\ response' \in Responses \ {"Ok"}
  BY DEF RequestLineRefused, Parse, LooksBehind, PeerError, Return, Responses
<1>2. ASSUME WellFormed, ~splitEnd PROVE FALSE
  <2>1. ~LineRefused /\ peerRequest.lines[1] # <<>>
        /\ (HasNewline => Line(Searched) = peerRequest.lines[1])
    <3>1. 0 + 1 = 1
      OBVIOUS
    <3> QED BY <1>1, <1>2, <3>1, WellFormedIs
  <2>2. HasNewline => Kind = "R"
    <3>1. peerRequest.lines[1][1] = "R"
      BY <1>2 DEF WellFormed
    <3> HIDE DEF Searched
    <3> QED BY <2>1, <3>1 DEF Kind
  <2>3. Found /\ Kind # "R"
    BY <2>1 DEF RequestLineRefused
  <2> QED BY <2>2, <2>3 DEF Found
<1> QED BY <1>1, <1>2, RefusedStep

LEMMA HeaderRefusedStep ==
  ASSUME StraightInv, HeaderRefused PROVE StraightInv'
<1>1. LooksBehind(headerCount + 1) /\ m_buffer' = Searched /\ pc' = "returned"
      /\ UNCHANGED <<peerVars, requestVars, splitEnd>>
      /\ status' = "PeerError" /\ response' \in Responses \ {"Ok"}
  BY DEF HeaderRefused, HeaderParse, Parse, LooksBehind, PeerError, Return,
         Responses
<1>2. ASSUME WellFormed, ~splitEnd PROVE FALSE
  <2>1. PICK k : k = headerCount + 1 /\ k \in Nat /\ k > 0
    BY DEF StraightInv, TypeInv
  <2>2. /\ k \in 0..Len(peerRequest.lines) - 2 /\ HasEmptyLine(peerRequest)
        /\ ~LineRefused /\ peerRequest.lines[k + 1] # <<>>
        /\ (HasNewline => Line(Searched) = peerRequest.lines[k + 1])
    BY <1>1, <1>2, <2>1, WellFormedIs
  <2>3. k \in DOMAIN Fields /\ Fields[k] = peerRequest.lines[k + 1]
    <3>1. k \in 1..Len(peerRequest.lines) - 2
      BY <2>1, <2>2
    <3>2. peerRequest \in Requests
      BY DEF StraightInv, TypeInv
    <3> QED BY <2>2, <3>1, <3>2, FieldsAre
  <2>4. PICK name : name = peerRequest.lines[k + 1][1]
                    /\ name \in {"H"} \cup DOMAIN LengthOf
    BY <1>2, <2>3 DEF WellFormed
  <2>5. Found /\ Kind = name
    <3>1. Found
      BY <2>2 DEF HeaderRefused
    <3> HIDE DEF Searched
    <3> QED BY <2>2, <2>4, <3>1 DEF Kind, Found
  <2>6. "H" \notin DOMAIN LengthOf /\ "T" \notin DOMAIN LengthOf
    BY DEF LengthOf
  <2>7. Contradicts
    BY <2>2, <2>4, <2>5, <2>6 DEF HeaderRefused, IsLength
  <2>8. /\ name \in DOMAIN LengthOf /\ contentLength # None
        /\ contentLength # LengthOf[name]
    BY <2>5, <2>7 DEF Contradicts, IsLength
  <2>9. PICK i \in 2..k : /\ peerRequest.lines[i][1] \in DOMAIN LengthOf
                          /\ LengthOf[peerRequest.lines[i][1]] = contentLength
    BY <1>1, <2>1, <2>8 DEF StraightInv, HeaderPhase, LooksBehind, LinesTaken,
       LengthIs
  <2>10. i - 1 \in DOMAIN Fields /\ Fields[i - 1] = peerRequest.lines[i]
    <3>1. PICK n : n = Len(peerRequest.lines) /\ n \in Nat
      BY RequestIs DEF StraightInv, TypeInv
    <3>2. i - 1 \in 1..n - 2 /\ (i - 1) + 1 = i
      <4>1. n \in Nat /\ k \in 0..n - 2
        BY <2>2, <3>1, Zenon
      <4> QED BY <4>1
    <3> QED BY <2>2, <3>1, <3>2, FieldsAre DEF StraightInv, TypeInv
  <2>11. contentLength \in Announced /\ LengthOf[name] \in Announced
    <3> HIDE DEF Fields, LengthOf
    <3> QED BY <2>3, <2>4, <2>8, <2>9, <2>10 DEF Announced
  <2>12. Announced = {} \/ Announced = {Len(peerRequest.rest)}
    BY <1>2 DEF WellFormed
  <2> HIDE DEF Announced
  <2> QED BY <2>8, <2>11, <2>12
<1> QED BY <1>1, <1>2, RefusedStep

LEMMA TooManyHeadersStep ==
  ASSUME StraightInv, TooManyHeaders PROVE StraightInv'
<1>1. LooksBehind(headerCount + 1) /\ pc' = "returned"
      /\ UNCHANGED <<m_buffer, peerVars, requestVars, splitEnd>>
      /\ status' = "PeerError" /\ response' \in Responses \ {"Ok"}
      /\ headerCount > LimitHeaderFieldCount
  BY DEF TooManyHeaders, Parse, LooksBehind, PeerError, Return, Responses
<1>2. ASSUME WellFormed, ~splitEnd PROVE FALSE
  <2>1. PICK k : k = headerCount + 1 /\ k \in Nat
    BY DEF StraightInv, TypeInv
  <2>2. k \in 0..Len(peerRequest.lines) - 2 /\ HasEmptyLine(peerRequest)
    BY <1>1, <1>2, <2>1, WellFormedIs
  <2>3. PICK n : n = Len(peerRequest.lines)
    OBVIOUS
  <2>4. n \in Nat /\ k \in 0..n - 2
    BY <2>2, <2>3, RequestIs DEF StraightInv, TypeInv
  <2>5. PICK c : c = Len(Fields)
    OBVIOUS
  <2>6. c = IF n > 2 THEN n - 2 ELSE 0
    BY <2>2, <2>3, <2>5, FieldsAre, Zenon DEF StraightInv, TypeInv
  <2>7. c \in 1..LimitHeaderFieldCount
    BY <1>2, <2>5, Zenon DEF WellFormed
  <2>8. headerCount \in Nat /\ headerCount + 1 = k
    BY <2>1 DEF StraightInv, TypeInv
  <2> QED BY <1>1, <2>4, <2>6, <2>7, <2>8, LimitsAre
<1>3. /\ m_buffer \in Buffers /\ Received(m_buffer, Stream)
      /\ m_buffer.current <= m_buffer.receive
  BY <1>1, SearchedIs DEF Searching
<1> QED BY <1>1, <1>2, <1>3, ReturnStep

LEMMA ReceivingIs ==
  ASSUME StraightInv, Receiving
  PROVE  /\ m_buffer \in Buffers /\ Received(m_buffer, Stream)
         /\ Searching(m_buffer) /\ Stream \in Seq(Symbols)
         /\ Len(Stream) \in Nat
<1>1. Stream \in Seq(Symbols)
  BY BytesAre DEF Stream, StraightInv, TypeInv
<1>2. Len(Stream) \in Nat
  <2> HIDE DEF Stream
  <2> QED BY <1>1
<1> QED BY <1>1, <1>2 DEF StraightInv, BufferInv, Receiving

LEMMA ReceiveNothingStep ==
  ASSUME StraightInv, ReceiveNothing PROVE StraightInv'
<1>1. pc' = "returned" /\ status' = "Disconnected" /\ response' \in Responses
      /\ UNCHANGED <<m_buffer, peerVars, requestVars, splitEnd>>
  BY DEF ReceiveNothing, Disconnected, Return, Responses
<1>2. Received(m_buffer, Stream) /\ m_buffer \in Buffers
      /\ m_buffer.current <= m_buffer.receive
  BY ReceivingIs DEF ReceiveNothing, Searching
<1> QED BY <1>1, <1>2, ReturnStep

LEMMA ReceiveErrorStep ==
  ASSUME StraightInv, ReceiveError PROVE StraightInv'
<1>1. pc' = "returned" /\ status' = "InternalError" /\ response' \in Responses
      /\ UNCHANGED <<peerVars, requestVars, splitEnd>>
      /\ m_buffer' = [m_buffer EXCEPT !.receive = @ - 1]
  BY DEF ReceiveError, Return, Responses
<1>2. Received(m_buffer, Stream) /\ m_buffer \in Buffers
      /\ m_buffer.receive \in 0..BufferSize /\ Len(Stream) \in Nat
  BY ReceivingIs DEF ReceiveError, Searching, Buffers
<1>3. m_buffer' \in Buffers /\ m_buffer'.receive = m_buffer.receive - 1
      /\ m_buffer'.bytes = m_buffer.bytes
  BY <1>1, <1>2, LimitsAre DEF Buffers
<1>4. Received(m_buffer', Stream)
  <2> HIDE DEF Stream
  <2> QED BY <1>2, <1>3 DEF Received
<1> QED BY <1>1, <1>3, <1>4, ReturnStep

LEMMA PutIs ==
  ASSUME NEW b \in Buffers, b.receive \in Nat, NEW text \in Seq(Symbols),
         NEW n \in Nat, n = Len(text), b.receive + n <= BufferSize
  PROVE  /\ Put(b, text) \in Buffers
         /\ Put(b, text).receive = b.receive + n
         /\ Put(b, text).current = b.current
         /\ Put(b, text).newline = b.newline
         /\ Put(b, text).lastFind = b.lastFind
         /\ \A i \in 0..b.receive - 1 : Put(b, text).bytes[i] = b.bytes[i]
         /\ \A i \in b.receive..b.receive + n - 1 :
              Put(b, text).bytes[i] = text[i - b.receive + 1]
<1> DEFINE p == Put(b, text)
           bytes == [i \in 0..BufferSize |->
                       IF b.receive <= i /\ i < b.receive + n
                         THEN text[i - b.receive + 1] ELSE b.bytes[i]]
<1>1. p = [b EXCEPT !.bytes = bytes, !.receive = b.receive + n]
  BY DEF Put, Buffers
<1>2. bytes \in [0..BufferSize -> Symbols]
  <2>1. ASSUME NEW i \in 0..BufferSize, b.receive <= i, i < b.receive + n
        PROVE  text[i - b.receive + 1] \in Symbols
    <3>1. i - b.receive + 1 \in 1..Len(text)
      BY <2>1
    <3> HIDE DEF Symbols
    <3> QED BY <3>1, ElementOfSeq
  <2>2. b.bytes \in [0..BufferSize -> Symbols]
    BY DEF Buffers
  <2> HIDE DEF Symbols
  <2> QED BY <2>1, <2>2
<1>3. /\ \A i \in 0..b.receive - 1 : bytes[i] = b.bytes[i]
      /\ \A i \in b.receive..b.receive + n - 1 :
              bytes[i] = text[i - b.receive + 1]
  <2>1. PICK end \in Nat : end = b.receive + n /\ end <= BufferSize
    OBVIOUS
  <2>2. ASSUME NEW i \in 0..b.receive - 1 PROVE bytes[i] = b.bytes[i]
    <3>1. i \in 0..BufferSize /\ ~(b.receive <= i)
      BY <2>1, LimitsAre
    <3> QED BY <3>1
  <2>3. ASSUME NEW i \in b.receive..b.receive + n - 1
        PROVE  bytes[i] = text[i - b.receive + 1]
    <3>1. i \in 0..BufferSize /\ b.receive <= i /\ i < b.receive + n
      BY <2>1, LimitsAre
    <3> QED BY <3>1
  <2> QED BY <2>2, <2>3
<1> HIDE DEF bytes, p
<1>4. /\ p.bytes = bytes /\ p.receive = b.receive + n
      /\ p.current = b.current /\ p.newline = b.newline
      /\ p.lastFind = b.lastFind
  BY <1>1 DEF Buffers
<1>5. p \in Buffers
  <2>1. PICK end \in -1..BufferSize : end = b.receive + n
    BY LimitsAre
  <2>2. p = [b EXCEPT !.bytes = bytes, !.receive = end]
    BY <1>1, <2>1
  <2> HIDE DEF Symbols
  <2> QED BY <1>2, <2>2 DEF Buffers
<1> QED BY <1>3, <1>4, <1>5 DEF p

(* recv() takes the next bytes of the peer.                                *)
LEMMA ReceivesSome ==
  ASSUME m_buffer \in Buffers, m_buffer.receive \in Nat,
         peerRequest \in Requests, NEW n \in 1..BufferSize, ReceiveSome(n)
  PROVE  /\ m_buffer' \in Buffers
         /\ m_buffer'.receive = m_buffer.receive + n
         /\ m_buffer'.current = m_buffer.current
         /\ m_buffer'.newline = m_buffer.newline
         /\ m_buffer'.lastFind = m_buffer.lastFind
         /\ m_buffer.receive + n <= Len(Stream)
         /\ \A i \in 0..m_buffer.receive - 1 :
              m_buffer'.bytes[i] = m_buffer.bytes[i]
         /\ \A i \in m_buffer.receive..m_buffer.receive + n - 1 :
              m_buffer'.bytes[i] = Stream[i + 1]
<1>1. Stream \in Seq(Symbols) /\ Len(Stream) \in Nat
  <2>1. Stream \in Seq(Symbols)
    BY BytesAre DEF Stream
  <2> HIDE DEF Stream
  <2> QED BY <2>1
<1>2. PICK text : text = SubSeq(Stream, (m_buffer.receive + n) - n + 1,
                                        m_buffer.receive + n)
  OBVIOUS
<1>3. /\ m_buffer' = Put(m_buffer, text)
      /\ n <= BufferSize - m_buffer.receive
      /\ n <= Len(Stream) - m_buffer.receive
  <2> HIDE DEF Stream
  <2>1. m_buffer' = Put(m_buffer, SubSeq(Stream,
                      (m_buffer.receive + n) - n + 1, m_buffer.receive + n))
    BY Zenon DEF ReceiveSome
  <2>2. /\ n <= BufferSize - m_buffer.receive
        /\ n <= Len(Stream) - m_buffer.receive
    BY Zenon DEF ReceiveSome, FreeSpace, Remaining
  <2> QED BY <1>2, <2>1, <2>2
<1>4. PICK receive \in Nat : receive = m_buffer.receive
  OBVIOUS
<1>5. /\ text \in Seq(Symbols) /\ Len(text) = n /\ n \in Nat
      /\ \A i \in 1..n : text[i] = Stream[receive + i]
  <2>1. PICK stream : stream = Stream
    OBVIOUS
  <2>2. stream \in Seq(Symbols) /\ receive + n <= Len(stream)
        /\ text = SubSeq(stream, receive + 1, receive + n)
    <3>1. (receive + n) - n + 1 = receive + 1
      BY <1>4
    <3>2. text = SubSeq(stream, receive + 1, receive + n)
      BY <1>2, <1>4, <2>1, <3>1, Zenon
    <3>3. PICK c : c = Len(Stream)
      OBVIOUS
    <3>4. c \in Nat /\ n <= c - receive
      BY <1>1, <1>3, <1>4, <3>3, Zenon
    <3>5. receive + n <= c
      BY <3>4
    <3>6. receive + n <= Len(stream)
      BY <2>1, <3>3, <3>5, Zenon
    <3> QED BY <1>1, <2>1, <3>2, <3>6, Zenon
  <2> HIDE DEF Symbols
  <2>3. \A i \in receive + 1..receive + n : stream[i] \in Symbols
    BY <2>2, ElementOfSeq
  <2>4. /\ text \in Seq(Symbols)
        /\ Len(text) = IF receive + 1 <= receive + n
                         THEN (receive + n) - (receive + 1) + 1 ELSE 0
        /\ \A i \in 1..(receive + n) - (receive + 1) + 1 :
             text[i] = stream[receive + 1 + i - 1]
    BY <2>2, <2>3, SubSeqProperties
  <2>5. (receive + n) - (receive + 1) + 1 = n
        /\ \A i \in 1..n : receive + 1 + i - 1 = receive + i
    OBVIOUS
  <2> QED BY <2>1, <2>4, <2>5
<1>6. /\ m_buffer' \in Buffers
      /\ m_buffer'.receive = receive + n
      /\ m_buffer'.current = m_buffer.current
      /\ m_buffer'.newline = m_buffer.newline
      /\ m_buffer'.lastFind = m_buffer.lastFind
      /\ \A i \in 0..receive - 1 : m_buffer'.bytes[i] = m_buffer.bytes[i]
      /\ \A i \in receive..receive + n - 1 :
           m_buffer'.bytes[i] = text[i - receive + 1]
  <2>1. receive + n <= BufferSize
    BY <1>3, <1>4, LimitsAre
  <2> QED BY <1>1, <1>3, <1>4, <1>5, <2>1, PutIs
<1>7. receive + n <= Len(Stream)
  <2> HIDE DEF Stream
  <2> QED BY <1>1, <1>3, <1>4
<1>8. ASSUME NEW i \in receive..receive + n - 1
      PROVE  m_buffer'.bytes[i] = Stream[i + 1]
  <2>1. i - receive + 1 \in 1..n /\ receive + (i - receive + 1) = i + 1
    OBVIOUS
  <2> QED BY <1>5, <1>6, <2>1
<1> QED BY <1>4, <1>6, <1>7, <1>8

LEMMA ReceiveSomeStep ==
  ASSUME StraightInv, NEW n \in 1..BufferSize, ReceiveSome(n)
  PROVE  StraightInv'
<1>1. /\ m_buffer \in Buffers /\ Received(m_buffer, Stream)
      /\ Searching(m_buffer) /\ peerRequest \in Requests
  BY ReceivingIs DEF ReceiveSome, StraightInv, TypeInv
<1>2. PICK receive \in Nat : receive = m_buffer.receive
  BY <1>1 DEF Searching, Buffers
<1>3. /\ splitEnd' = (splitEnd \/
           m_buffer.receive + n \in {EmptyLine, EmptyLine + 1})
      /\ pc' = AfterReceive /\ Receiving
      /\ UNCHANGED <<peerVars, requestVars, resultVars>>
  <2> HIDE DEF Stream, EmptyLine, Receiving, AfterReceive
  <2> QED BY Zenon DEF ReceiveSome, GoesOn
<1>4. /\ m_buffer' \in Buffers
      /\ m_buffer'.receive = receive + n
      /\ m_buffer'.current = m_buffer.current
      /\ m_buffer'.newline = m_buffer.newline
      /\ m_buffer'.lastFind = m_buffer.lastFind
      /\ receive + n <= Len(Stream)
      /\ \A i \in 0..receive - 1 : m_buffer'.bytes[i] = m_buffer.bytes[i]
      /\ \A i \in receive..receive + n - 1 : m_buffer'.bytes[i] = Stream[i + 1]
  BY <1>1, <1>2, ReceivesSome
<1>7. Received(m_buffer', Stream)
  <2>1. ASSUME NEW i \in 0..receive + n - 1
        PROVE  m_buffer'.bytes[i] = Stream[i + 1]
    <3>1. i \in 0..receive - 1 \/ i \in receive..receive + n - 1
      OBVIOUS
    <3> QED BY <1>1, <1>2, <1>4, <3>1 DEF Received
  <2> QED BY <1>4, <2>1 DEF Received
<1>8. Searching(m_buffer')
  <2>1. m_buffer.current \in Nat /\ m_buffer.current <= receive
    BY <1>1, <1>2 DEF Searching, Buffers
  <2>2. m_buffer.lastFind # None =>
          /\ m_buffer.lastFind \in Nat
          /\ m_buffer.current <= m_buffer.lastFind
          /\ m_buffer.lastFind <= receive
          /\ \A i \in m_buffer.current..m_buffer.lastFind - 1 :
               /\ i \in 0..receive - 1 /\ m_buffer.bytes[i] # "CR"
    BY <1>1, <1>2, <2>1 DEF Searching, Buffers, NoReturn
  <2> QED BY <1>1, <1>4, <2>1, <2>2 DEF Searching, NoReturn
<1>9. PICK g \in Groups : pc \in g /\ pc' \in g
  BY <1>3 DEF Groups, Receiving, AfterReceive
<1>10. splitEnd' \in BOOLEAN /\ (splitEnd => splitEnd')
       /\ (m_buffer'.receive \in {EmptyLine, EmptyLine + 1} => splitEnd')
  <2>1. splitEnd \in BOOLEAN
    BY DEF StraightInv, TypeInv
  <2> HIDE DEF EmptyLine
  <2> QED BY <1>2, <1>3, <1>4, <2>1
<1>11. pc # "body"
  BY <1>3 DEF Receiving
<1> QED BY <1>3, <1>4, <1>7, <1>8, <1>9, <1>10, <1>11, GoesOnStep

-----------------------------------------------------------------------------
(* A line is taken.                                                        *)

LEMMA LineFits ==
  ASSUME NEW s \in Buffers, s.newline \in s.current..BufferSize - 1,
         s.newline < s.current + LimitLine
  PROVE  /\ AfterLine(s) \in Buffers
         /\ AfterLine(s).bytes = s.bytes /\ AfterLine(s).receive = s.receive
         /\ AfterLine(s).current = s.newline + 2
         /\ AfterLine(s).newline = None /\ AfterLine(s).lastFind = s.lastFind
         /\ Line(s) \in Seq(Symbols) /\ Len(Line(s)) \in 0..LimitLine - 1
<1>2. PICK pos, current :
        /\ pos = s.newline /\ current = s.current
        /\ pos \in Nat /\ current \in Nat
        /\ current <= pos /\ pos < BufferSize /\ pos < current + LimitLine
  BY LimitsAre DEF Buffers
<1>3. /\ AfterLine(s) \in Buffers
      /\ AfterLine(s).bytes = s.bytes /\ AfterLine(s).receive = s.receive
      /\ AfterLine(s).current = s.newline + 2
      /\ AfterLine(s).newline = None /\ AfterLine(s).lastFind = s.lastFind
  <2>1. PICK next \in 0..BufferSize + 1 : next = s.newline + 2
    BY <1>2, LimitsAre
  <2>2. AfterLine(s) = [s EXCEPT !.current = next, !.newline = None]
    BY <2>1 DEF AfterLine
  <2> HIDE DEF Symbols
  <2> QED BY <2>1, <2>2 DEF Buffers
<1>4. Line(s) \in Seq(Symbols) /\ Len(Line(s)) \in 0..LimitLine - 1
  <2>1. PICK bytes : bytes = s.bytes /\ bytes \in [0..BufferSize -> Symbols]
    BY DEF Buffers
  <2>2. PICK line, len : /\ line = [i \in 1..len |-> bytes[current + i - 1]]
                         /\ line = Line(s) /\ len = pos - current
    BY <1>2, <2>1 DEF Line, Text
  <2>3. len \in Nat /\ len \in 0..LimitLine - 1
    BY <1>2, <2>2, LimitsAre
  <2>4. \A i \in 1..len : bytes[current + i - 1] \in Symbols
    <3>1. \A i \in 1..len : current + i - 1 \in 0..BufferSize
      <4>1. len = pos - current
        BY <2>2
      <4> QED BY <1>2, <4>1, LimitsAre
    <3> HIDE DEF Symbols
    <3> QED BY <2>1, <3>1
  <2> HIDE DEF Symbols
  <2>5. line \in Seq(Symbols) /\ Len(line) = len
    <3>1. line = [i \in 1..len |-> bytes[current + i - 1]]
      BY <2>2
    <3>2. line \in [1..len -> Symbols]
      BY <2>4, <3>1, Zenon
    <3> QED BY <2>3, <3>2
  <2> QED BY <2>2, <2>3, <2>5
<1> QED BY <1>3, <1>4

LEMMA AfterLineIs ==
  ASSUME NEW b \in Buffers, Searching(b), NEW s, SearchFinds(b, s),
         s.newline # None
  PROVE  /\ s.newline \in s.current..BufferSize - 1
         /\ s.newline < s.current + LimitLine
         /\ AfterLine(s) \in Buffers
         /\ AfterLine(s).bytes = b.bytes /\ AfterLine(s).receive = b.receive
         /\ AfterLine(s).current = s.newline + 2
         /\ AfterLine(s).newline = None /\ AfterLine(s).lastFind = None
         /\ Line(s) \in Seq(Symbols) /\ Len(Line(s)) \in 0..LimitLine - 1
<1>1. /\ s \in Buffers /\ s.bytes = b.bytes /\ s.receive = b.receive
      /\ s.current = b.current /\ s.lastFind = None
      /\ s.newline \in b.current..b.receive - 1
      /\ s.newline < b.current + LimitLine
  BY DEF SearchFinds
<1>2. s.newline \in s.current..BufferSize - 1
  BY <1>1, LimitsAre DEF Buffers, Searching
<1> QED BY <1>1, <1>2, LineFits

(* A line end was taken that was not received to its last byte.            *)
LEMMA TurnsStale ==
  ASSUME StraightInv, pc # "returned", pc' \in {"headerParse", "body"}, stale',
         UNCHANGED resultVars, m_buffer' \in Buffers,
         m_buffer'.receive >= 0, m_buffer'.newline = None,
         TypeInv', WithinLimits'
  PROVE  StaleInv'
<1>1. status' = "none"
  BY DEF StraightInv, ResultInv, resultVars
<1> QED BY <1>1 DEF StaleInv

LEMMA RequestLineAcceptedStep ==
  ASSUME StraightInv, RequestLineAccepted
  PROVE  IF stale' THEN StaleInv' ELSE StraightInv'
<1> DEFINE next == AfterLine(Searched)
<1>1. /\ LooksBehind(0) /\ pc = "requestParse" /\ Found /\ Kind = "R"
      /\ request' = [request EXCEPT !.line = Line(Searched)]
      /\ m_buffer' = next /\ pc' = "headerParse"
      /\ stale' = (next.current > next.receive)
      /\ UNCHANGED <<headerCount, contentLength, totalReceived>>
      /\ UNCHANGED <<peerVars, resultVars, splitEnd>>
  BY DEF RequestLineAccepted, Parse, LooksBehind, Advances, GoesOn,
         StraightInv
<1>2. /\ m_buffer \in Buffers /\ Searching(m_buffer)
      /\ Received(m_buffer, Stream) /\ SearchFinds(m_buffer, Searched)
  BY <1>1, SearchedIs
<1>3. Searched.newline # None
  BY <1>1 DEF Found, HasNewline
<1>4. /\ next \in Buffers /\ next.bytes = m_buffer.bytes
      /\ next.receive = m_buffer.receive
      /\ next.current = Searched.newline + 2
      /\ next.newline = None /\ next.lastFind = None
      /\ Line(Searched) \in Seq(Symbols)
      /\ Len(Line(Searched)) \in 0..LimitLine - 1
  BY <1>2, <1>3, AfterLineIs
<1> HIDE DEF next
<1>5. Received(m_buffer', Stream)
  BY <1>1, <1>2, <1>4 DEF Received
<1>6. Untouched
  BY <1>1 DEF StraightInv, RequestPhase
<1>7. /\ peerRequest' = peerRequest /\ closed' = closed /\ calls' = calls
      /\ status' = status /\ response' = response /\ splitEnd' = splitEnd
      /\ headerCount' = 0 /\ contentLength' = None /\ totalReceived' = 0
  BY <1>1, <1>6 DEF peerVars, resultVars, Untouched
<1>8. PICK line : line = Line(Searched) /\ line \in Seq(Symbols)
                  /\ Len(line) \in 0..LimitLine - 1
  BY <1>4
<1>9. request' = [line |-> line, headers |-> <<>>, body |-> <<>>]
  BY <1>1, <1>6, <1>8 DEF Untouched, NewRequest
<1>10. status = "none"
  BY <1>1 DEF StraightInv, ResultInv
<1>11. TypeInv'
  <2>1. <<>> \in Seq(Symbols) /\ DOMAIN <<>> = {}
    OBVIOUS
  <2>2. request' \in [line : Seq(Symbols), body : Seq(Symbols),
                      headers : {request'.headers}]
        /\ request'.headers = <<>>
    <3> HIDE DEF Symbols
    <3> QED BY <1>8, <1>9, <2>1
  <2>3. pc' = "headerParse" /\ stale' \in BOOLEAN
    BY <1>1
  <2> QED BY <1>7, <2>1, <2>2, <2>3 DEF StraightInv, TypeInv, None
<1>12. WithinLimits'
  <2>1. request'.line = line /\ DOMAIN request'.headers = {}
    BY <1>9
  <2> QED BY <1>7, <1>8, <2>1, LimitsAre DEF WithinLimits
<1>15. m_buffer.receive \in Nat /\ next.current \in Nat
  BY <1>2, <1>4, LimitsAre DEF Buffers, Searching
<1>13. CASE stale'
  BY <1>1, <1>4, <1>11, <1>12, <1>13, <1>15, TurnsStale
<1>14. CASE ~stale'
  <2>1. pc' = "headerParse" /\ next.current <= next.receive
    <3>1. pc' = "headerParse" /\ ~(next.current > next.receive)
      BY <1>1, <1>14, Zenon
    <3> QED BY <1>4, <1>15, <3>1
  <2>2. /\ 0 \in 0..Len(peerRequest.lines) - 1
        /\ Line(Searched) = peerRequest.lines[1]
        /\ Searched.newline + 2 = End(peerRequest, 1)
    <3>1. Searched.newline + 2 <= m_buffer.receive /\ 0 + 1 = 1
      BY <1>4, <2>1
    <3> QED BY <1>1, <3>1, TakenIs
  <2>3. PICK n : n = Len(peerRequest.lines) /\ n \in Nat /\ n >= 1
    BY <1>1, <2>2, SearchedIs, RequestIs
  <2>4. line = peerRequest.lines[1] /\ line # <<>>
    <3> HIDE DEF Searched
    <3> QED BY <1>1, <1>8, <2>2 DEF Kind
  <2>5. LinesTaken(1)'
    <3>1. /\ HeadersAre(<<>>, peerRequest.lines, 1)
          /\ LengthIs(None, peerRequest.lines, 1)
      BY DEF HeadersAre, LengthIs
    <3>2. request'.line = line /\ request'.headers = <<>>
      BY <1>9
    <3> QED BY <1>7, <2>3, <2>4, <3>1, <3>2 DEF LinesTaken
  <2>6. HeaderPhase'
    <3>1. m_buffer'.current = End(peerRequest', 1) /\ request'.body = <<>>
      BY <1>1, <1>4, <1>7, <1>9, <2>2
    <3>2. headerCount' + 1 = 1 /\ ~(headerCount' > 0)
      BY <1>7
    <3>3. LinesTaken(headerCount + 1)'
      BY <2>5, <3>2
    <3> QED BY <3>1, <3>2, <3>3 DEF HeaderPhase
  <2>7. Stream' = Stream /\ EmptyLine' = EmptyLine
    BY <1>7, PeerKept
  <2>8. BufferInv'
    <3>1. Searching(m_buffer')
      BY <1>1, <1>2, <1>4, <2>1 DEF Searching
    <3> QED BY <1>1, <1>4, <1>5, <2>1, <2>7, <3>1 DEF BufferInv
  <2>9. SplitSeen'
    BY <1>1, <1>4, <1>7, <2>7 DEF StraightInv, SplitSeen
  <2>10. /\ RequestPhase' /\ BodyPhase' /\ ResultInv'
         /\ RefusedForSplitEndOnly'
    BY <1>7, <1>10, <2>1 DEF RequestPhase, BodyPhase, ResultInv,
       RefusedForSplitEndOnly
  <2>11. Counted'
    <3>1. Len(<<>>) = 0
      OBVIOUS
    <3>2. request'.body = <<>>
      BY <1>9
    <3> QED BY <1>7, <3>1, <3>2 DEF Counted
  <2> QED BY <1>11, <1>12, <1>14, <2>6, <2>8, <2>9, <2>10, <2>11
          DEF StraightInv
<1> QED BY <1>13, <1>14

(* A header field more.                                                    *)
LEMMA HeadersStep ==
  ASSUME NEW headers, NEW lines, NEW last \in Nat, last > 0,
         HeadersAre(headers, lines, last)
  PROVE  HeadersAre(SetHeader(headers, lines[last + 1]), lines, last + 1)
<1> DEFINE line == lines[last + 1]
           all == SetHeader(headers, line)
           Name(i) == FieldName(lines[i])
<1>1. /\ \A i \in 2..last + 1 : i \in 2..last \/ i = last + 1
      /\ last + 1 \in 2..last + 1
      /\ \A i \in 2..last : i \in 2..last + 1 /\ i # last + 1
  OBVIOUS
<1>2. /\ DOMAIN headers = {Name(i) : i \in 2..last}
      /\ \A i \in 2..last :
           (\A j \in i + 1..last : Name(j) # Name(i))
             => headers[Name(i)] = lines[i]
  BY DEF HeadersAre
<1>3. /\ DOMAIN all = DOMAIN headers \cup {Name(last + 1)}
      /\ all[Name(last + 1)] = line
      /\ \A name \in DOMAIN headers :
           name # Name(last + 1) => all[name] = headers[name]
  BY DEF SetHeader
<1> HIDE DEF all, Name
<1>4. DOMAIN all = {Name(i) : i \in 2..last + 1}
  BY <1>1, <1>2, <1>3
<1>5. ASSUME NEW i \in 2..last + 1,
             \A j \in i + 1..last + 1 : Name(j) # Name(i)
      PROVE  all[Name(i)] = lines[i]
  <2>1. CASE i = last + 1
    BY <1>3, <2>1
  <2>2. CASE i # last + 1
    <3>1. /\ i \in 2..last /\ last + 1 \in i + 1..last + 1
          /\ \A j \in i + 1..last : j \in i + 1..last + 1
      BY <2>2
    <3>2. Name(last + 1) # Name(i) /\ headers[Name(i)] = lines[i]
          /\ Name(i) \in DOMAIN headers
      BY <1>2, <1>5, <3>1
    <3> QED BY <1>3, <3>2
  <2> QED BY <2>1, <2>2
<1> QED BY <1>4, <1>5 DEF HeadersAre, all, Name

LEMMA LengthStep ==
  ASSUME NEW length, NEW lines, NEW last \in Nat, last > 0,
         LengthIs(length, lines, last), NEW name, name = lines[last + 1][1],
         name \in DOMAIN LengthOf => length \in {None, LengthOf[name]}
  PROVE  LengthIs(IF name \in DOMAIN LengthOf THEN LengthOf[name] ELSE length,
                  lines, last + 1)
<1>1. /\ \A i \in 2..last + 1 : i \in 2..last \/ i = last + 1
      /\ last + 1 \in 2..last + 1
      /\ \A i \in 2..last : i \in 2..last + 1
  OBVIOUS
<1>2. \A k \in DOMAIN LengthOf : LengthOf[k] # None
  BY DEF LengthOf, None
<1> HIDE DEF LengthOf, None
<1>3. CASE name \in DOMAIN LengthOf
  <2>1. \A i \in 2..last : lines[i][1] \in DOMAIN LengthOf =>
                             LengthOf[lines[i][1]] = LengthOf[name]
    BY <1>3 DEF LengthIs
  <2> QED BY <1>1, <1>2, <1>3, <2>1 DEF LengthIs
<1>4. CASE name \notin DOMAIN LengthOf
  BY <1>1, <1>4 DEF LengthIs
<1> QED BY <1>3, <1>4

(* What the request is when a header field was accepted.                   *)
LEMMA HeaderTakenIs ==
  ASSUME TypeInv, WithinLimits, HeaderAccepted, m_buffer.receive \in Nat,
         Searched \in Buffers, Searched.receive = m_buffer.receive,
         Searched.newline \in Searched.current..BufferSize - 1,
         Searched.newline < Searched.current + LimitLine
  PROVE  /\ pc = "headerParse" /\ Found /\ Line(Searched) # <<>>
         /\ UNCHANGED <<peerVars, resultVars, splitEnd>>
         /\ request'.line = request.line /\ request'.body = request.body
         /\ request'.headers = SetHeader(request.headers, Line(Searched))
         /\ headerCount' = headerCount + 1
         /\ LET name == Line(Searched)[1]
            IN /\ contentLength' = IF name \in DOMAIN LengthOf
                                     THEN LengthOf[name] ELSE contentLength
               /\ name \in DOMAIN LengthOf =>
                    contentLength \in {None, LengthOf[name]}
         /\ pc' \in {"headerParse", "body"} /\ totalReceived' = totalReceived
         /\ stale' = (stale \/ m_buffer'.current > m_buffer'.receive)
         /\ m_buffer' \in Buffers /\ m_buffer'.bytes = Searched.bytes
         /\ m_buffer'.receive = m_buffer.receive /\ m_buffer'.newline = None
         /\ TypeInv' /\ WithinLimits'
<1> DEFINE next == AfterLine(Searched)
           after == AfterNewline(next)
<1>1. /\ pc = "headerParse" /\ Found
      /\ headerCount <= LimitHeaderFieldCount
      /\ (Kind = "H" \/ IsLength) /\ ~Contradicts
      /\ request' = [request EXCEPT !.headers = SetHeader(@, Line(Searched))]
      /\ headerCount' = headerCount + 1
      /\ contentLength' = IF IsLength THEN LengthOf[Kind] ELSE contentLength
      /\ \/ NewlineFollows(next) /\ m_buffer' = after
         \/ m_buffer' = next
      /\ pc' \in {"body", "headerParse"} /\ totalReceived' = totalReceived
      /\ stale' = (stale \/ m_buffer'.current > m_buffer'.receive)
      /\ UNCHANGED <<peerVars, resultVars, splitEnd>>
  BY DEF HeaderAccepted, HeaderIsAccepted, HeaderParse, Parse, Advances,
         GoesOn
<1>4. /\ next \in Buffers /\ next.bytes = Searched.bytes
      /\ next.receive = m_buffer.receive /\ next.newline = None
      /\ Line(Searched) \in Seq(Symbols)
      /\ Len(Line(Searched)) \in 0..LimitLine - 1
  BY LineFits
<1>5. PICK line : line = Line(Searched)
  OBVIOUS
<1>6. line # <<>> /\ Kind = line[1]
  <2>1. "x" \notin DOMAIN LengthOf
    BY DEF LengthOf
  <2> HIDE DEF Searched, LengthOf
  <2> QED BY <1>1, <1>5, <2>1 DEF Kind, IsLength
<1> HIDE DEF next
<1>7. /\ m_buffer' \in Buffers /\ m_buffer'.bytes = Searched.bytes
      /\ m_buffer'.receive = m_buffer.receive /\ m_buffer'.newline = None
  <2>1. NewlineFollows(next) =>
          /\ after \in Buffers /\ after.bytes = next.bytes
          /\ after.receive = next.receive /\ after.newline = None
    <3> SUFFICES ASSUME NewlineFollows(next)
                 PROVE  /\ after \in Buffers /\ after.bytes = next.bytes
                        /\ after.receive = next.receive
                        /\ after.newline = None
      OBVIOUS
    <3>1. next \in Buffers
      BY <1>4
    <3>2. PICK c \in 0..BufferSize + 1 : c = next.current + 2
      BY <3>1, LimitsAre DEF NewlineFollows, Buffers
    <3>3. after = [next EXCEPT !.current = c, !.newline = None]
      BY <3>2 DEF AfterNewline
    <3> HIDE DEF Symbols, after
    <3> QED BY <3>1, <3>2, <3>3 DEF Buffers
  <2> HIDE DEF after
  <2> QED BY <1>1, <1>4, <2>1
<1>8. /\ request \in [line : Seq(Symbols), body : Seq(Symbols),
                      headers : {request.headers}]
      /\ DOMAIN request.headers \subseteq Symbols \cup {"content-length"}
      /\ headerCount \in Nat /\ contentLength \in Int
  BY DEF TypeInv
<1>9. PICK headers : headers = SetHeader(request.headers, line)
  OBVIOUS
<1>10. request' = [request EXCEPT !.headers = headers]
  BY <1>1, <1>5, <1>9
<1>11. /\ request'.line = request.line /\ request'.body = request.body
       /\ request'.headers = headers
       /\ request' \in [line : Seq(Symbols), body : Seq(Symbols),
                        headers : {request'.headers}]
  <2> HIDE DEF Symbols
  <2> QED BY <1>8, <1>10
<1>12. FieldName(line) \in Symbols \cup {"content-length"}
  <2>1. line \in Seq(Symbols)
    BY <1>4, <1>5
  <2>2. line[1] \in Symbols
    <3>1. Len(line) \in Nat /\ Len(line) # 0
      <4>1. line # <<>>
        BY <1>6
      <4> HIDE DEF Symbols
      <4> QED BY <2>1, <4>1
    <3>2. 1 \in 1..Len(line)
      BY <3>1
    <3> HIDE DEF Symbols
    <3> QED BY <2>1, <3>2, ElementOfSeq
  <2> HIDE DEF Symbols, LengthOf
  <2> QED BY <2>2 DEF FieldName
<1>13. /\ DOMAIN headers = DOMAIN request.headers \cup {FieldName(line)}
       /\ headers[FieldName(line)] = line
       /\ \A n \in DOMAIN request.headers :
            headers[n] \in {line, request.headers[n]}
  <2> HIDE DEF FieldName
  <2> QED BY <1>9 DEF SetHeader
<1>14. contentLength' \in Int
  BY <1>1, <1>8 DEF IsLength, LengthOf
<1>15. TypeInv'
  <2>1. DOMAIN request'.headers \subseteq Symbols \cup {"content-length"}
    BY <1>8, <1>11, <1>12, <1>13
  <2>2. /\ headerCount' \in Nat /\ pc' \in {"headerParse", "body"}
    BY <1>1, <1>8
  <2>3. /\ peerRequest' = peerRequest /\ closed' = closed /\ calls' = calls
        /\ status' = status /\ response' = response /\ splitEnd' = splitEnd
        /\ totalReceived' = totalReceived
    BY <1>1 DEF peerVars, resultVars
  <2>4. stale' \in BOOLEAN
    BY <1>1, Zenon
  <2> QED BY <1>11, <1>14, <2>1, <2>2, <2>3, <2>4 DEF TypeInv
<1>16. WithinLimits'
  <2>1. Len(request'.line) \in 0..LimitLine - 1
    BY <1>11 DEF WithinLimits
  <2>2. headerCount' <= LimitHeaderFieldCount + 1
    BY <1>1, <1>8, LimitsAre
  <2>3. \A n \in DOMAIN request.headers :
          Len(request.headers[n]) \in 0..LimitLine - 1
    BY DEF WithinLimits
  <2>4. Len(line) \in 0..LimitLine - 1
    BY <1>4, <1>5
  <2>5. \A n \in DOMAIN headers : headers[n] = line \/
          (n \in DOMAIN request.headers /\ headers[n] = request.headers[n])
    BY <1>13
  <2>6. \A n \in DOMAIN headers : Len(headers[n]) \in 0..LimitLine - 1
    BY <2>3, <2>4, <2>5, Zenon
  <2> QED BY <1>11, <2>1, <2>2, <2>6, Zenon DEF WithinLimits
<1>17. /\ contentLength' = IF line[1] \in DOMAIN LengthOf
                             THEN LengthOf[line[1]] ELSE contentLength
       /\ line[1] \in DOMAIN LengthOf =>
            contentLength \in {None, LengthOf[line[1]]}
  <2> HIDE DEF LengthOf
  <2> QED BY <1>1, <1>6 DEF IsLength, Contradicts
<1>18. /\ pc' \in {"headerParse", "body"} /\ totalReceived' = totalReceived
       /\ stale' = (stale \/ m_buffer'.current > m_buffer'.receive)
  BY <1>1
<1> QED BY <1>1, <1>5, <1>6, <1>7, <1>9, <1>11, <1>15, <1>16, <1>17, <1>18,
           Zenon

LEMMA HeaderAcceptedIs ==
  ASSUME StraightInv, HeaderAccepted
  PROVE  /\ LooksBehind(headerCount + 1) /\ pc = "headerParse" /\ Found
         /\ Line(Searched) # <<>>
         /\ UNCHANGED <<peerVars, resultVars, splitEnd>>
         /\ request'.line = request.line /\ request'.body = request.body
         /\ request'.headers = SetHeader(request.headers, Line(Searched))
         /\ headerCount' = headerCount + 1
         /\ LET name == Line(Searched)[1]
            IN /\ contentLength' = IF name \in DOMAIN LengthOf
                                     THEN LengthOf[name] ELSE contentLength
               /\ name \in DOMAIN LengthOf =>
                    contentLength \in {None, LengthOf[name]}
         /\ pc' \in {"headerParse", "body"} /\ totalReceived' = totalReceived
         /\ stale' = (m_buffer'.current > m_buffer'.receive)
         /\ m_buffer' \in Buffers /\ Received(m_buffer', Stream)
         /\ m_buffer'.receive = m_buffer.receive /\ m_buffer'.newline = None
         /\ TypeInv' /\ WithinLimits'
<1>1. LooksBehind(headerCount + 1) /\ HasNewline
  BY Zenon DEF HeaderAccepted, HeaderParse, Parse, LooksBehind,
               HeaderIsAccepted, Found
<1>2. /\ m_buffer \in Buffers /\ Searching(m_buffer)
      /\ Received(m_buffer, Stream) /\ SearchFinds(m_buffer, Searched)
  BY <1>1, SearchedIs
<1>3. /\ m_buffer.receive \in Nat /\ Searched \in Buffers
      /\ Searched.receive = m_buffer.receive
      /\ Searched.bytes = m_buffer.bytes
      /\ Searched.newline \in Searched.current..BufferSize - 1
      /\ Searched.newline < Searched.current + LimitLine
  <2>1. m_buffer.receive \in Nat
    BY <1>2 DEF Buffers, Searching
  <2> QED BY <1>1, <1>2, <2>1, AfterLineIs DEF HasNewline, SearchFinds
<1>4. TypeInv /\ WithinLimits /\ ~stale
  BY DEF StraightInv
<1>5. /\ m_buffer'.bytes = m_buffer.bytes
      /\ m_buffer'.receive = m_buffer.receive
      /\ stale' = (stale \/ m_buffer'.current > m_buffer'.receive)
  BY <1>3, <1>4, HeaderTakenIs
<1>6. Received(m_buffer', Stream)
  BY <1>2, <1>5 DEF Received
<1>7. stale' = (m_buffer'.current > m_buffer'.receive)
  BY <1>4, <1>5
<1> HIDE DEF Searched
<1> QED BY <1>1, <1>3, <1>4, <1>6, <1>7, HeaderTakenIs, Zenon

(* The lines that were taken, when the next one is a header field of the   *)
(* peer.                                                                   *)
LEMMA TakenStep ==
  ASSUME StraightInv, HeaderAccepted, NEW k, k = headerCount + 1,
         k \in 0..Len(peerRequest.lines) - 1,
         Line(Searched) = peerRequest.lines[k + 1]
  PROVE  LinesTaken(headerCount + 1)' /\ headerCount' + 1 = k + 1
         /\ k + 1 \in 1..Len(peerRequest.lines)
         /\ peerRequest.lines[k + 1] # <<>>
         /\ request'.body = <<>>
<1>1. /\ k \in Nat /\ k > 0 /\ headerCount' + 1 = k + 1
      /\ headerCount' = headerCount + 1
  <2>1. headerCount \in Nat
    BY DEF StraightInv, TypeInv
  <2>2. headerCount' = headerCount + 1
    BY HeaderAcceptedIs
  <2> QED BY <2>1, <2>2
<1>2. PICK n : n = Len(peerRequest.lines) /\ n \in Nat
  BY RequestIs DEF StraightInv, TypeInv
<1>3. PICK lines, line : lines = peerRequest.lines /\ line = lines[k + 1]
  OBVIOUS
<1>4. /\ Line(Searched) = line /\ line # <<>>
      /\ request'.line = request.line /\ request'.body = request.body
      /\ request'.headers = SetHeader(request.headers, line)
      /\ contentLength' = IF line[1] \in DOMAIN LengthOf
                            THEN LengthOf[line[1]] ELSE contentLength
      /\ line[1] \in DOMAIN LengthOf =>
           contentLength \in {None, LengthOf[line[1]]}
      /\ peerRequest' = peerRequest
  <2>1. Line(Searched) = line
    BY <1>3
  <2> HIDE DEF LengthOf, Searched
  <2> QED BY <2>1, HeaderAcceptedIs DEF peerVars
<1>5. /\ k <= n /\ \A i \in 1..k : lines[i] # <<>>
      /\ request.line = lines[1] /\ HeadersAre(request.headers, lines, k)
      /\ LengthIs(contentLength, lines, k) /\ request.body = <<>>
  <2>1. pc = "headerParse"
    BY HeaderAcceptedIs
  <2>2. LinesTaken(k) /\ request.body = <<>>
    BY <2>1 DEF StraightInv, HeaderPhase
  <2> QED BY <1>2, <1>3, <2>2, Zenon DEF LinesTaken
<1>6. k + 1 <= n /\ k + 1 \in 1..n
  <2>1. k \in 0..n - 1 /\ n \in Nat
    BY <1>2, Zenon
  <2> QED BY <1>1, <2>1
<1>7. \A i \in 1..k + 1 : lines[i] # <<>>
  <2>1. \A i \in 1..k + 1 : i \in 1..k \/ i = k + 1
    BY <1>1
  <2> QED BY <1>3, <1>4, <1>5, <2>1
<1>8. HeadersAre(request'.headers, lines, k + 1)
  BY <1>1, <1>3, <1>4, <1>5, HeadersStep
<1>9. LengthIs(contentLength', lines, k + 1)
  <2>1. LengthIs(IF line[1] \in DOMAIN LengthOf THEN LengthOf[line[1]]
                 ELSE contentLength, lines, k + 1)
    <3> HIDE DEF LengthOf
    <3> QED BY <1>1, <1>3, <1>4, <1>5, LengthStep
  <2> QED BY <1>4, <2>1, Zenon
<1>10. LinesTaken(headerCount + 1)'
  <2>1. /\ k + 1 <= Len(peerRequest'.lines)
        /\ \A i \in 1..k + 1 : peerRequest'.lines[i] # <<>>
        /\ request'.line = peerRequest'.lines[1]
        /\ HeadersAre(request'.headers, peerRequest'.lines, k + 1)
        /\ LengthIs(contentLength', peerRequest'.lines, k + 1)
    BY <1>2, <1>3, <1>4, <1>5, <1>6, <1>7, <1>8, <1>9, Zenon
  <2> QED BY <1>1, <2>1, Zenon DEF LinesTaken
<1> QED BY <1>1, <1>2, <1>3, <1>4, <1>5, <1>6, <1>10, Zenon

LEMMA NoBytesArePrefix ==
  ASSUME NEW text \in Seq(Symbols)
  PROVE  IsPrefix(<<>>, text) /\ Len(<<>>) = 0
<1>1. SubSeq(text, 1, 0) = <<>> /\ SubSeq(<<>>, 1, 0) = <<>>
  BY SubSeqEmpty
<1>2. Len(<<>>) = 0 /\ 0 <= Len(text)
  <2> HIDE DEF Symbols
  <2> QED OBVIOUS
<1> QED BY <1>1, <1>2, Zenon DEF IsPrefix

LEMMA HeaderAcceptedStep ==
  ASSUME StraightInv, HeaderAccepted
  PROVE  IF stale' THEN StaleInv' ELSE StraightInv'
<1> DEFINE next == AfterLine(Searched)
<1>1. /\ LooksBehind(headerCount + 1) /\ pc = "headerParse" /\ Found
      /\ UNCHANGED <<peerVars, resultVars, splitEnd>>
      /\ headerCount' = headerCount + 1 /\ totalReceived' = totalReceived
      /\ pc' \in {"headerParse", "body"}
      /\ stale' = (m_buffer'.current > m_buffer'.receive)
      /\ m_buffer' \in Buffers /\ Received(m_buffer', Stream)
      /\ m_buffer'.receive = m_buffer.receive /\ m_buffer'.newline = None
      /\ request'.body = request.body
      /\ TypeInv' /\ WithinLimits'
  BY HeaderAcceptedIs, Zenon
<1>2. /\ peerRequest' = peerRequest /\ status' = status
      /\ splitEnd' = splitEnd
  BY <1>1 DEF peerVars, resultVars
<1>3. status = "none"
  BY <1>1 DEF StraightInv, ResultInv
<1>6. /\ m_buffer.receive \in Nat /\ m_buffer'.current \in Int
      /\ m_buffer'.receive \in Int
  BY <1>1, SearchedIs, LimitsAre DEF Buffers, Searching
<1>4. CASE stale'
  BY <1>1, <1>4, <1>6, TurnsStale
<1>5. CASE ~stale'
  <2>1. /\ m_buffer \in Buffers /\ Searching(m_buffer)
        /\ Received(m_buffer, Stream) /\ SearchFinds(m_buffer, Searched)
        /\ peerRequest \in Requests /\ Stream = Bytes(peerRequest)
    BY <1>1, SearchedIs
  <2>2. Searched.newline # None
    BY <1>1 DEF Found, HasNewline
  <2>3. /\ next \in Buffers /\ next.bytes = m_buffer.bytes
        /\ next.receive = m_buffer.receive
        /\ next.current = Searched.newline + 2
        /\ next.newline = None /\ next.lastFind = None
    BY <2>1, <2>2, AfterLineIs
  <2>4. \/ /\ NewlineFollows(next) /\ m_buffer' = AfterNewline(next)
           /\ pc' = "body"
        \/ /\ ~NewlineFollows(next) /\ m_buffer' = next
           /\ pc' = "headerParse"
    BY DEF HeaderAccepted, Advances, GoesOn
  <2>5. m_buffer'.current <= m_buffer'.receive
    <3>1. ~(m_buffer'.current > m_buffer'.receive)
      BY <1>1, <1>5, Zenon
    <3> QED BY <1>6, <3>1
  <2> HIDE DEF next
  <2>6. /\ m_buffer'.receive = m_buffer.receive
        /\ m_buffer'.newline = None /\ m_buffer'.lastFind = None
        /\ m_buffer'.current =
             IF pc' = "body" THEN next.current + 2 ELSE next.current
    BY <2>3, <2>4 DEF AfterNewline, Buffers
  <2>7. next.current <= m_buffer.receive
    BY <2>1, <2>3, <2>5, <2>6 DEF Buffers
  <2>8. PICK k : k = headerCount + 1
    OBVIOUS
  <2>9. /\ k \in 0..Len(peerRequest.lines) - 1
        /\ Line(Searched) = peerRequest.lines[k + 1]
        /\ next.current = End(peerRequest, k + 1)
    BY <1>1, <2>3, <2>7, <2>8, TakenIs
  <2>10. /\ LinesTaken(headerCount + 1)' /\ headerCount' + 1 = k + 1
         /\ k + 1 \in 1..Len(peerRequest.lines)
         /\ peerRequest.lines[k + 1] # <<>> /\ request'.body = <<>>
    BY <2>8, <2>9, TakenStep
  <2>11. k \in Nat /\ headerCount' > 0 /\ headerCount' = k
    <3>1. headerCount \in Nat
      BY DEF StraightInv, TypeInv
    <3> QED BY <1>1, <2>8, <3>1
  <2>12. /\ Received(next, Stream)
         /\ k + 1 \in 0..Len(peerRequest.lines)
         /\ k + 1 = Len(peerRequest.lines) => ~HasEmptyLine(peerRequest)
    BY <2>1, <2>3, <2>10 DEF Received, HasEmptyLine
  <2>13. Stream' = Stream /\ EmptyLine' = EmptyLine
    BY <1>2, PeerKept
  <2>14. BufferInv'
    <3>1. Searching(m_buffer')
      BY <2>1, <2>5, <2>6 DEF Searching
    <3> QED BY <1>1, <2>5, <2>13, <3>1 DEF BufferInv
  <2>15. SplitSeen'
    BY <1>1, <1>2, <2>6, <2>13 DEF StraightInv, SplitSeen
  <2>16. HeaderPhase'
    <3> SUFFICES ASSUME pc' = "headerParse" PROVE HeaderPhase'
      BY <1>1 DEF HeaderPhase
    <3>1. m_buffer'.current = End(peerRequest', headerCount' + 1)
      BY <1>2, <2>6, <2>9, <2>10
    <3>2. ASSUME HasEmptyLine(peerRequest),
                 headerCount' + 2 = Len(peerRequest.lines)
          PROVE  splitEnd
      <4>1. PICK n : n = Len(peerRequest.lines)
        OBVIOUS
      <4>2. n - 1 = k + 1 /\ n \in 1..n
        <5>1. n = headerCount' + 2
          BY <3>2, <4>1
        <5> QED BY <2>11, <5>1
      <4>3. EmptyLine = next.current /\ End(peerRequest, n) = next.current + 2
        BY <2>1, <2>9, <3>2, <4>1, <4>2, EmptyLineIs
      <4>4. PICK c : c = next.current /\ c \in Nat /\ c > 0
        <5>1. next.current \in Nat /\ next.current > 0
          BY <2>1, <2>2, <2>3 DEF SearchFinds, Searching, Buffers
        <5> QED BY <5>1
      <4>5. PICK receive : receive = m_buffer.receive /\ receive \in Nat
                           /\ receive <= BufferSize
        BY <2>1 DEF Searching, Buffers
      <4>6. receive \in {c, c + 1}
        <5> SUFFICES ASSUME receive \notin {c, c + 1} PROVE FALSE
          OBVIOUS
        <5>1. /\ c \in 0..receive - 1 /\ c + 1 \in 0..receive - 1
              /\ BufferSize - c >= 2 /\ (c + 2) - 1 = c + 1
              /\ (c + 1) + 1 = c + 2
          BY <2>7, <4>4, <4>5, LimitsAre
        <5>2. Stream[c + 1] = "CR" /\ Stream[c + 2] = "LF"
          <6>1. /\ Bytes(peerRequest)[End(peerRequest, n) - 1] = "CR"
                /\ Bytes(peerRequest)[End(peerRequest, n)] = "LF"
            BY <2>1, <4>1, <4>2, BytesAre, Zenon
          <6>2. End(peerRequest, n) = c + 2 /\ End(peerRequest, n) - 1 = c + 1
            BY <4>3, <4>4, <5>1
          <6> QED BY <2>1, <6>1, <6>2, Zenon
        <5>3. next.bytes[c] = "CR" /\ next.bytes[c + 1] = "LF"
          BY <2>3, <2>12, <4>5, <5>1, <5>2 DEF Received
        <5>4. NewlineFollows(next)
          BY <4>4, <5>1, <5>3 DEF NewlineFollows
        <5> QED BY <2>4, <5>4
      <4>7. pc \notin {"idle", "undefined", "returned"}
        BY <1>1
      <4>8. m_buffer.receive \in {EmptyLine, EmptyLine + 1} \ {0}
        BY <4>3, <4>4, <4>5, <4>6
      <4> QED BY <4>7, <4>8 DEF StraightInv, SplitSeen
    <3> QED BY <1>2, <2>10, <3>1, <3>2 DEF HeaderPhase
  <2>17. BodyPhase'
    <3> SUFFICES ASSUME pc' = "body" PROVE BodyPhase'
      BY <1>1, <1>2, <1>3 DEF BodyPhase
    <3>1. NewlineFollows(next) /\ next.current + 2 <= next.receive
      BY <2>3, <2>4, <2>5, <2>6
    <3>2. /\ (k + 1) + 1 = Len(peerRequest.lines) /\ HasEmptyLine(peerRequest)
          /\ next.current + 2 = End(peerRequest, (k + 1) + 1)
      BY <2>1, <2>3, <2>9, <2>12, <3>1, NewlineIs
    <3>3. (k + 1) + 1 = headerCount' + 2
      BY <2>11
    <3>4. IsPrefix(<<>>, peerRequest.rest) /\ Len(<<>>) = 0
      BY <2>1, RequestIs, NoBytesArePrefix
    <3>5. End(peerRequest, headerCount' + 2) \in Nat
      <4>1. headerCount' + 2 \in 0..Len(peerRequest.lines)
        BY <2>1, <3>2, <3>3, RequestIs
      <4> QED BY <2>1, <4>1, EndsAre
    <3>6. m_buffer'.current = End(peerRequest', headerCount' + 2)
                                + Len(request'.body)
      <4>1. PICK e : e = End(peerRequest, headerCount' + 2) /\ e \in Nat
        BY <3>5
      <4>2. m_buffer'.current = e /\ e = e + 0
        BY <2>6, <3>2, <3>3, <4>1
      <4> QED BY <1>2, <2>10, <3>4, <4>1, <4>2, Zenon
    <3> QED BY <1>2, <2>6, <2>10, <2>11, <3>2, <3>3, <3>4, <3>6 DEF BodyPhase
  <2>18. RequestPhase' /\ ResultInv' /\ RefusedForSplitEndOnly'
    BY <1>1, <1>2, <1>3 DEF RequestPhase, ResultInv, RefusedForSplitEndOnly
  <2>19. Counted'
    BY <1>1 DEF StraightInv, Counted
  <2> QED BY <1>1, <1>5, <2>14, <2>15, <2>16, <2>17, <2>18, <2>19
          DEF StraightInv
<1> QED BY <1>4, <1>5

-----------------------------------------------------------------------------
(* The body.                                                               *)

LEMMA PrefixIs ==
  ASSUME NEW s \in Seq(Symbols), NEW t \in Seq(Symbols)
  PROVE  IsPrefix(s, t) <=> /\ Len(s) <= Len(t)
                            /\ \A i \in 1..Len(s) : s[i] = t[i]
<1> HIDE DEF Symbols
<1>1. Len(s) \in Nat /\ Len(t) \in Nat
  OBVIOUS
<1> DEFINE a == SubSeq(s, 1, Len(s))
           b == SubSeq(t, 1, Len(s))
<1> SUFFICES ASSUME Len(s) <= Len(t)
             PROVE  a = b <=> \A i \in 1..Len(s) : s[i] = t[i]
  BY Zenon DEF IsPrefix
<1>2. \A i \in 1..Len(s) : s[i] \in Symbols /\ t[i] \in Symbols
  BY <1>1, ElementOfSeq
<1>3. (IF 1 <= Len(s) THEN Len(s) - 1 + 1 ELSE 0) = Len(s)
      /\ Len(s) - 1 + 1 = Len(s) /\ \A i \in 1..Len(s) : 1 + i - 1 = i
  BY <1>1
<1>4. /\ a \in Seq(Symbols) /\ Len(a) = Len(s)
      /\ \A i \in 1..Len(s) : a[i] = s[i]
  BY <1>1, <1>2, <1>3, SubSeqProperties
<1>5. /\ b \in Seq(Symbols) /\ Len(b) = Len(s)
      /\ \A i \in 1..Len(s) : b[i] = t[i]
  BY <1>1, <1>2, <1>3, SubSeqProperties
<1> HIDE DEF a, b
<1>6. ASSUME \A i \in 1..Len(s) : s[i] = t[i] PROVE a = b
  BY <1>4, <1>5, <1>6, SeqEqual
<1>7. ASSUME a = b PROVE \A i \in 1..Len(s) : s[i] = t[i]
  BY <1>4, <1>5, <1>7
<1> QED BY <1>6, <1>7

LEMMA LongerPrefix ==
  ASSUME NEW rest \in Seq(Symbols), NEW body \in Seq(Symbols),
         IsPrefix(body, rest), NEW all \in Seq(Symbols), NEW m, NEW d \in Nat,
         m = Len(body), Len(all) = m + d, m + d <= Len(rest),
         \A j \in 1..m : all[j] = body[j],
         \A i \in 1..d : all[m + i] = rest[m + i]
  PROVE  IsPrefix(all, rest)
<1>1. m \in Nat /\ \A j \in 1..m : body[j] = rest[j]
  <2>1. m \in Nat
    <3> HIDE DEF Symbols
    <3> QED OBVIOUS
  <2> QED BY <2>1, PrefixIs
<1>2. ASSUME NEW j \in 1..m + d PROVE all[j] = rest[j]
  <2>1. CASE j <= m
    BY <1>1, <2>1
  <2>2. CASE j > m
    <3>1. j - m \in 1..d /\ m + (j - m) = j
      BY <1>1, <2>2
    <3> QED BY <3>1
  <2> QED BY <1>1, <2>1, <2>2
<1> QED BY <1>2, PrefixIs

(* Whatever was received behind the header is the rest of the request.     *)
LEMMA ReadAllIs ==
  ASSUME NEW r \in Requests, NEW b \in Buffers, Received(b, Bytes(r)),
         NEW body \in Seq(Symbols), IsPrefix(body, r.rest),
         b.current = End(r, Len(r.lines)) + Len(body), b.current <= b.receive,
         NEW all, all = body \o Unread(b)
  PROVE  /\ all \in Seq(Symbols) /\ IsPrefix(all, r.rest)
         /\ b.receive = End(r, Len(r.lines)) + Len(all)
<1>1. PICK e, rest, whole, bytes, current, receive, m :
        /\ e = End(r, Len(r.lines)) /\ rest = r.rest /\ whole = Bytes(r)
        /\ bytes = b.bytes /\ current = b.current /\ receive = b.receive
        /\ m = Len(body)
  OBVIOUS
<1>2. e \in Nat
  <2>1. Len(r.lines) \in 0..Len(r.lines)
    BY RequestIs
  <2> QED BY <1>1, <2>1, EndsAre
<1>3. /\ rest \in Seq(Symbols) /\ whole \in Seq(Symbols)
      /\ Len(whole) = e + Len(rest)
      /\ \A j \in 1..Len(rest) : whole[e + j] = rest[j]
  BY <1>1, RequestIs, BytesAre, Zenon
<1>4. m \in Nat
  <2> HIDE DEF Symbols
  <2> QED BY <1>1
<1>5. current = e + m /\ current <= receive
  BY <1>1, Zenon
<1>6. /\ bytes \in [0..BufferSize -> Symbols] /\ receive \in Int
      /\ receive <= BufferSize
  <2> HIDE DEF Symbols
  <2> QED BY <1>1, LimitsAre DEF Buffers
<1>7. /\ receive <= Len(whole)
      /\ \A i \in 0..receive - 1 : bytes[i] = whole[i + 1]
  BY <1>1, Zenon DEF Received
<1>8. PICK len : len = Len(rest) /\ len \in Nat
  <2>1. rest \in Seq(Symbols)
    BY <1>3
  <2> HIDE DEF Symbols
  <2> QED BY <2>1
<1>9. receive <= e + len
  BY <1>3, <1>7, <1>8
<1>10. m <= len /\ \A j \in 1..m : body[j] = rest[j]
  BY <1>1, <1>3, <1>8, PrefixIs
<1>11. PICK d \in Nat : d = receive - current /\ receive = (e + m) + d
                        /\ m + d <= len
  BY <1>2, <1>4, <1>5, <1>6, <1>8, <1>9
<1>12. PICK unread : unread = [i \in 1..d |-> bytes[current + i - 1]]
                     /\ unread = Unread(b)
  BY <1>1, <1>11 DEF Unread, Text
<1>13. ASSUME NEW i \in 1..d
       PROVE  /\ unread[i] = rest[m + i] /\ unread[i] \in Symbols
              /\ m + i \in 1..len
  <2>1. PICK j : j = current + i - 1
    OBVIOUS
  <2>2. /\ j \in 0..receive - 1 /\ j \in 0..BufferSize /\ j + 1 = e + (m + i)
        /\ m + i \in 1..len
    <3>1. /\ current = e + m /\ receive = (e + m) + d
          /\ receive <= BufferSize /\ m + d <= len /\ len \in Nat
      BY <1>5, <1>6, <1>8, <1>11, Zenon
    <3> QED BY <1>2, <1>4, <2>1, <3>1, LimitsAre
  <2>3. unread[i] = bytes[j]
    BY <1>12, <2>1
  <2>4. whole[e + (m + i)] = rest[m + i]
    BY <1>3, <1>8, <2>2
  <2> HIDE DEF Symbols
  <2> QED BY <1>6, <1>7, <2>2, <2>3, <2>4
<1>14. unread \in Seq(Symbols) /\ Len(unread) = d
  <2> HIDE DEF Symbols
  <2>1. unread = [i \in 1..d |-> bytes[current + i - 1]]
    BY <1>12
  <2>2. unread \in [1..d -> Symbols]
    BY <1>13, <2>1
  <2> QED BY <2>2
<1>15. /\ all \in Seq(Symbols) /\ Len(all) = m + d
       /\ \A j \in 1..m : all[j] = body[j]
       /\ \A j \in 1..d : all[m + j] = unread[j]
  <2>1. all = body \o unread
    BY <1>12
  <2>2. unread \in Seq(Symbols)
    BY <1>14
  <2>3. /\ all \in Seq(Symbols) /\ Len(all) = Len(body) + Len(unread)
        /\ \A j \in 1..Len(body) : all[j] = body[j]
        /\ \A j \in 1..Len(unread) : all[Len(body) + j] = unread[j]
    BY <2>1, <2>2, ConcatIs
  <2> QED BY <1>1, <1>14, <2>3, Zenon
<1>16. IsPrefix(all, rest)
  <2>1. IsPrefix(body, rest) /\ m = Len(body) /\ rest \in Seq(Symbols)
        /\ m + d <= Len(rest)
    BY <1>1, <1>3, <1>8, <1>11, Zenon
  <2>2. /\ all \in Seq(Symbols) /\ Len(all) = m + d
        /\ \A j \in 1..m : all[j] = body[j]
        /\ \A i \in 1..d : all[m + i] = rest[m + i]
    BY <1>13, <1>15, Zenon
  <2> QED BY <2>1, <2>2, LongerPrefix, Zenon
<1>17. receive = e + Len(all)
  <2>1. receive = e + (m + d)
    BY <1>2, <1>4, <1>11
  <2> QED BY <1>15, <2>1, Zenon
<1> QED BY <1>1, <1>15, <1>16, <1>17, Zenon

(* What receive() knows when it comes to the body.                         *)
BodyIs ==
  /\ LinesTaken(headerCount + 1) /\ headerCount > 0
  /\ HasEmptyLine(peerRequest)
  /\ headerCount + 2 = Len(peerRequest.lines)
  /\ m_buffer.current = End(peerRequest, headerCount + 2) + Len(request.body)
  /\ IsPrefix(request.body, peerRequest.rest)
  /\ contentLength > 0 \/ request.body = <<>>

LEMMA NoBodyStep ==
  ASSUME StraightInv, NoBody PROVE StraightInv'
<1>1. /\ pc = "body" /\ ~(contentLength > 0)
      /\ pc' = "returned" /\ status' = "Ok" /\ response' = "Ok"
      /\ UNCHANGED <<m_buffer, peerVars, requestVars, splitEnd>>
  BY DEF NoBody, Parse, BodyIsPresent, Return
<1>2. /\ peerRequest' = peerRequest /\ closed' = closed /\ calls' = calls
      /\ request' = request /\ headerCount' = headerCount
      /\ contentLength' = contentLength /\ totalReceived' = totalReceived
      /\ splitEnd' = splitEnd /\ m_buffer' = m_buffer
  BY <1>1 DEF peerVars, requestVars
<1>3. BodyIs /\ request.body = <<>>
  BY <1>1 DEF StraightInv, BodyPhase, BodyIs
<1>4. (LinesTaken(headerCount + 1)' <=> LinesTaken(headerCount + 1))
      /\ (WithinLimits' <=> WithinLimits)
      /\ (Counted' <=> Counted) /\ ~stale' /\ stale' = stale
  <2>1. ~stale' /\ stale' = stale
    BY <1>1, <1>2, RequestKept DEF StraightInv
  <2> QED BY <1>1, <1>2, RequestKept, <2>1, Zenon
<1>5. Stream' = Stream
  BY <1>2, PeerKept
<1>6. contentLength = None \/ contentLength = 0
  <2>1. contentLength # None =>
          \E k \in DOMAIN LengthOf : LengthOf[k] = contentLength
    BY <1>3 DEF BodyIs, LinesTaken, LengthIs
  <2>2. \A k \in DOMAIN LengthOf : LengthOf[k] \in 0..2
    BY DEF LengthOf
  <2> HIDE DEF LengthOf
  <2> QED BY <1>1, <2>1, <2>2
<1>7. TypeInv'
  BY <1>1, <1>2, <1>4 DEF StraightInv, TypeInv, Responses
<1>8. BufferInv'
  <2>1. m_buffer.current <= m_buffer.receive
    BY <1>1 DEF StraightInv, BufferInv, Searching
  <2> QED BY <1>1, <1>2, <1>5, <2>1 DEF StraightInv, BufferInv
<1>9. BodyPhase'
  BY <1>1, <1>2, <1>3, <1>4 DEF BodyIs, BodyPhase
<1>10. ResultInv'
  <2>1. Len(<<>>) = 0
    OBVIOUS
  <2>2. Len(request'.body) = IF contentLength' = None THEN 0
                                                       ELSE contentLength'
    <3>1. request'.body = <<>>
      BY <1>2, <1>3
    <3>2. Len(request'.body) = 0
      BY <2>1, <3>1, Zenon
    <3>3. (IF contentLength' = None THEN 0 ELSE contentLength') = 0
      BY <1>2, <1>6
    <3> QED BY <3>2, <3>3, Zenon
  <2> QED BY <1>1, <2>2, Zenon DEF ResultInv
<1>11. /\ SplitSeen' /\ RequestPhase' /\ HeaderPhase'
       /\ WithinLimits' /\ RefusedForSplitEndOnly' /\ Counted' /\ ~stale'
  BY <1>1, <1>4 DEF StraightInv, SplitSeen, RequestPhase, HeaderPhase,
     RefusedForSplitEndOnly
<1> QED BY <1>7, <1>8, <1>9, <1>10, <1>11 DEF StraightInv

LEMMA ReadBodyStep ==
  ASSUME StraightInv, ReadBody PROVE StraightInv'
<1>1. /\ pc = "body" /\ contentLength > 0
      /\ request' = [request EXCEPT !.body = @ \o Unread(m_buffer)]
      /\ m_buffer' = AfterAll(m_buffer)
      /\ \/ /\ Complete /\ pc' = "returned"
            /\ status' = "Ok" /\ response' = "Ok"
         \/ pc' = "bodyReceive" /\ UNCHANGED resultVars
      /\ totalReceived' = totalReceived
                             + (m_buffer.receive - m_buffer.current)
      /\ UNCHANGED <<peerVars, splitEnd, headerCount, contentLength, stale>>
  BY DEF ReadBody, Parse, BodyIsPresent, Return, GoesOn
<1>2. /\ peerRequest' = peerRequest /\ closed' = closed /\ calls' = calls
      /\ headerCount' = headerCount /\ contentLength' = contentLength
      /\ splitEnd' = splitEnd /\ ~stale' /\ stale' = stale
  BY <1>1 DEF peerVars, StraightInv
<1>3. BodyIs /\ m_buffer.lastFind = None
  BY <1>1 DEF StraightInv, BodyPhase, BodyIs
<1>4. /\ m_buffer \in Buffers /\ Received(m_buffer, Stream)
      /\ Searching(m_buffer) /\ peerRequest \in Requests
      /\ Stream = Bytes(peerRequest)
      /\ status = "none" /\ response \in Responses
  BY <1>1 DEF StraightInv, BufferInv, TypeInv, ResultInv, Stream
<1>5. /\ request \in [line : Seq(Symbols), body : Seq(Symbols),
                      headers : {request.headers}]
      /\ DOMAIN request.headers \subseteq Symbols \cup {"content-length"}
      /\ headerCount \in Nat /\ contentLength \in Int
  BY DEF StraightInv, TypeInv
<1>6. PICK body, all : body = request.body /\ all = body \o Unread(m_buffer)
  OBVIOUS
<1>7. request' = [request EXCEPT !.body = all]
  BY <1>1, <1>6
<1>8. /\ all \in Seq(Symbols) /\ IsPrefix(all, peerRequest.rest)
      /\ m_buffer.receive = End(peerRequest, headerCount + 2) + Len(all)
  <2>1. body \in Seq(Symbols)
    BY <1>5, <1>6
  <2>2. headerCount + 2 = Len(peerRequest.lines)
        /\ IsPrefix(body, peerRequest.rest)
        /\ m_buffer.current = End(peerRequest, Len(peerRequest.lines))
                                + Len(body)
    BY <1>3, <1>6, Zenon DEF BodyIs
  <2>3. /\ m_buffer.current <= m_buffer.receive
        /\ Received(m_buffer, Bytes(peerRequest))
    BY <1>4 DEF Searching
  <2>4. /\ all \in Seq(Symbols) /\ IsPrefix(all, peerRequest.rest)
        /\ m_buffer.receive = End(peerRequest, Len(peerRequest.lines))
                                + Len(all)
    BY <1>4, <1>6, <2>1, <2>2, <2>3, ReadAllIs
  <2> QED BY <2>2, <2>4, Zenon
<1>9. /\ request'.line = request.line /\ request'.headers = request.headers
      /\ request'.body = all
      /\ request' \in [line : Seq(Symbols), body : Seq(Symbols),
                       headers : {request'.headers}]
  <2>1. all \in Seq(Symbols)
    BY <1>8
  <2> HIDE DEF Symbols
  <2> QED BY <1>5, <1>7, <2>1
<1>10. /\ m_buffer' \in Buffers /\ m_buffer'.receive = m_buffer.receive
       /\ m_buffer'.current = m_buffer.receive
       /\ m_buffer'.bytes = m_buffer.bytes
       /\ m_buffer'.newline = None /\ m_buffer'.lastFind = None
  <2>1. m_buffer' = [m_buffer EXCEPT !.current = m_buffer.receive]
    BY <1>1 DEF AfterAll
  <2>2. m_buffer.receive \in 0..BufferSize + 1 /\ m_buffer.newline = None
    BY <1>4, LimitsAre DEF Searching, Buffers
  <2> HIDE DEF Symbols
  <2> QED BY <1>3, <1>4, <2>1, <2>2 DEF Buffers
<1>11. LinesTaken(headerCount + 1)'
  <2>1. LinesTaken(headerCount + 1)
    BY <1>3 DEF BodyIs
  <2> QED BY <1>2, <1>9, <2>1 DEF LinesTaken
<1>12. WithinLimits'
  BY <1>2, <1>9 DEF StraightInv, WithinLimits
<1>18. Counted' /\ totalReceived' \in Int
  <2>1. PICK e, m, n : /\ e = End(peerRequest, headerCount + 2)
                       /\ m = Len(body) /\ n = Len(all)
    OBVIOUS
  <2>2. e \in Nat
    <3>1. headerCount + 2 \in 0..Len(peerRequest.lines)
      BY <1>3, <1>4, RequestIs DEF BodyIs
    <3> QED BY <1>4, <2>1, <3>1, EndsAre
  <2>3. m \in Nat /\ n \in Nat
    <3>1. body \in Seq(Symbols) /\ all \in Seq(Symbols)
      BY <1>5, <1>6, <1>8
    <3> HIDE DEF Symbols
    <3> QED BY <2>1, <3>1
  <2>4. m_buffer.current = e + m /\ m_buffer.receive = e + n
    BY <1>3, <1>6, <1>8, <2>1, Zenon DEF BodyIs
  <2>5. totalReceived = m
    BY <1>6, <2>1 DEF StraightInv, Counted
  <2>6. totalReceived' = n
    BY <1>1, <2>2, <2>3, <2>4, <2>5
  <2> QED BY <1>9, <2>1, <2>3, <2>6 DEF Counted
<1>13. BodyPhase'
  <2>1. m_buffer'.current = End(peerRequest', headerCount' + 2)
                              + Len(request'.body)
    BY <1>2, <1>8, <1>9, <1>10, Zenon
  <2>2. IsPrefix(request'.body, peerRequest'.rest)
    BY <1>2, <1>8, <1>9, Zenon
  <2>3. /\ headerCount' > 0 /\ HasEmptyLine(peerRequest')
        /\ headerCount' + 2 = Len(peerRequest'.lines)
    BY <1>2, <1>3 DEF BodyIs
  <2>4. contentLength' > 0
    BY <1>1, <1>2
  <2> QED BY <1>10, <1>11, <2>1, <2>2, <2>3, <2>4 DEF BodyPhase
<1>14. Stream' = Stream /\ EmptyLine' = EmptyLine
  BY <1>2, PeerKept
<1>15. BufferInv'
  <2>1. Received(m_buffer', Stream')
    BY <1>4, <1>10, <1>14 DEF Received
  <2>2. Searching(m_buffer') /\ m_buffer'.current <= m_buffer'.receive
    BY <1>4, <1>10 DEF Searching, Buffers
  <2> QED BY <1>10, <2>1, <2>2 DEF BufferInv
<1>16. CASE pc' = "returned"
  <2>1. Complete /\ status' = "Ok" /\ response' = "Ok"
    BY <1>1, <1>16
  <2>2. TypeInv'
    BY <1>2, <1>9, <1>16, <1>18, <2>1 DEF StraightInv, TypeInv, Responses
  <2>3. ResultInv'
    <3>1. Len(request'.body) = contentLength /\ contentLength # None
      BY <1>1, <1>18, <2>1 DEF Complete, Counted, None
    <3> QED BY <1>2, <1>16, <2>1, <3>1, Zenon DEF ResultInv
  <2>4. SplitSeen' /\ RequestPhase' /\ HeaderPhase' /\ RefusedForSplitEndOnly'
    BY <1>16, <2>1 DEF SplitSeen, RequestPhase, HeaderPhase,
       RefusedForSplitEndOnly
  <2> QED BY <1>2, <1>12, <1>13, <1>15, <1>18, <2>2, <2>3, <2>4
          DEF StraightInv
<1>17. CASE pc' # "returned"
  <2>1. pc' = "bodyReceive" /\ status' = "none" /\ response' = response
    BY <1>1, <1>4, <1>17 DEF resultVars
  <2>2. TypeInv'
    BY <1>2, <1>9, <1>18, <2>1 DEF StraightInv, TypeInv
  <2>3. SplitSeen'
    BY <1>1, <1>2, <1>10, <1>14 DEF StraightInv, SplitSeen
  <2>4. ResultInv' /\ RequestPhase' /\ HeaderPhase' /\ RefusedForSplitEndOnly'
    BY <2>1 DEF ResultInv, RequestPhase, HeaderPhase, RefusedForSplitEndOnly
  <2> QED BY <1>2, <1>12, <1>13, <1>15, <1>18, <2>2, <2>3, <2>4
          DEF StraightInv
<1> QED BY <1>16, <1>17

-----------------------------------------------------------------------------
(* The other steps, and the worker.                                        *)

(* Steps that leave everything to StraightInv as it is, but the response.  *)
LEMMA StraightKept ==
  ASSUME StraightInv, response' \in Responses,
         response' = response \/ status # "PeerError",
         UNCHANGED <<m_buffer, pc, peerRequest, calls, requestVars, status,
                     splitEnd>>,
         closed' \in BOOLEAN
  PROVE  StraightInv'
<1>1. /\ request' = request /\ headerCount' = headerCount
      /\ contentLength' = contentLength /\ totalReceived' = totalReceived
  BY DEF requestVars
<1>2. /\ LinesTaken(headerCount + 1)' <=> LinesTaken(headerCount + 1)
      /\ WithinLimits' <=> WithinLimits
      /\ Untouched' <=> Untouched
      /\ Counted' <=> Counted
      /\ ~stale' /\ stale' = stale
  <2>1. ~stale' /\ stale' = stale
    BY RequestKept DEF StraightInv
  <2> QED BY RequestKept, <2>1, Zenon
<1>3. Stream' = Stream /\ EmptyLine' = EmptyLine
      /\ (WellFormed' <=> WellFormed)
  BY PeerKept
<1>4. TypeInv'
  BY <1>1, <1>2 DEF StraightInv, TypeInv
<1>5. BufferInv'
  BY <1>3 DEF StraightInv, BufferInv
<1>6. SplitSeen'
  BY <1>3 DEF StraightInv, SplitSeen
<1>7. RequestPhase'
  BY <1>2 DEF StraightInv, RequestPhase
<1>8. HeaderPhase'
  BY <1>1, <1>2 DEF StraightInv, HeaderPhase
<1>9. BodyPhase'
  BY <1>1, <1>2 DEF StraightInv, BodyPhase
<1>10. ResultInv'
  <2>1. status = "PeerError" => response' # "Ok"
    BY DEF StraightInv, ResultInv
  <2> QED BY <1>1, <2>1 DEF StraightInv, ResultInv
<1>11. WithinLimits' /\ RefusedForSplitEndOnly' /\ Counted' /\ ~stale'
  BY <1>2, <1>3 DEF StraightInv, RefusedForSplitEndOnly
<1> QED BY <1>4, <1>5, <1>6, <1>7, <1>8, <1>9, <1>10, <1>11 DEF StraightInv

LEMMA UndefinedStep ==
  ASSUME StraightInv, Undefined PROVE StraightInv'
<1>1. /\ pc \in {"headerParse", "body"} /\ pc' = "undefined"
      /\ peerRequest' = peerRequest /\ closed' = closed /\ calls' = calls
      /\ m_buffer' = m_buffer /\ UNCHANGED requestVars
      /\ request' = request /\ headerCount' = headerCount
      /\ contentLength' = contentLength /\ totalReceived' = totalReceived
      /\ status' = status /\ response' = response /\ splitEnd' = splitEnd
  BY Zenon DEF Undefined, StraysInHeader, AppendsWrapped, Parse, GoesOn,
               peerVars, requestVars, resultVars
<1>2. /\ WithinLimits' <=> WithinLimits
      /\ Counted' <=> Counted
      /\ ~stale' /\ stale' = stale
  <2>1. ~stale' /\ stale' = stale
    BY <1>1, RequestKept DEF StraightInv
  <2> QED BY <1>1, RequestKept, <2>1, Zenon
<1>3. Stream' = Stream
  BY <1>1, PeerKept
<1>4. status = "none"
  BY <1>1 DEF StraightInv, ResultInv
<1>5. TypeInv'
  BY <1>1, <1>2 DEF StraightInv, TypeInv
<1>6. BufferInv'
  BY <1>1, <1>3 DEF StraightInv, BufferInv
<1>7. SplitSeen' /\ RequestPhase' /\ HeaderPhase' /\ BodyPhase' /\ ResultInv'
      /\ RefusedForSplitEndOnly'
  BY <1>1, <1>4 DEF SplitSeen, RequestPhase, HeaderPhase, BodyPhase,
     ResultInv, RefusedForSplitEndOnly
<1> QED BY <1>2, <1>5, <1>6, <1>7 DEF StraightInv

-----------------------------------------------------------------------------
(* Behind bytes of an earlier request.                                     *)

(* A search that is defined stays in the buffer and within its limit.      *)
LEMMA StaleSearchIs ==
  ASSUME NEW b \in Buffers, b.newline = None,
         ~SearchIsUndefined(b, LimitLine)
  PROVE  LET s == FindNewline(b, LimitLine)
         IN /\ s \in Buffers /\ s.bytes = b.bytes /\ s.receive = b.receive
            /\ s.current = b.current
            /\ s.newline # None =>
                 /\ s.newline \in s.current..BufferSize - 1
                 /\ s.newline < s.current + LimitLine
<1> DEFINE S == CarriageReturns(b, LimitLine)
           from == FindFrom(b)
           to == FindTo(b, LimitLine)
           pos == FoundPos(b, LimitLine)
           s == FindNewline(b, LimitLine)
<1>1. /\ b.current \in Nat /\ b.receive \in Int /\ BufferSize \in Nat
      /\ LimitLine \in 1..BufferSize
      /\ b.lastFind \in {None} \cup 0..BufferSize
  BY LimitsAre DEF Buffers
<1>2. to \in Int /\ to <= b.current + LimitLine
  BY <1>1 DEF FindTo, UseMaxLength
<1>3. from \in Nat
  BY <1>1 DEF FindFrom
<1>4. S = {i \in from..to - 1 : i < BufferSize /\ b.bytes[i] = "CR"}
  BY Zenon DEF CarriageReturns
<1>5. /\ S = {} => pos = to
      /\ S # {} => pos = Min(S)
      /\ S = {} => ~(to > BufferSize)
      /\ ~(pos < b.current)
  BY Zenon DEF FoundPos, SearchIsUndefined
<1>6. ASSUME S # {}
      PROVE  pos \in b.current..BufferSize - 1 /\ pos < b.current + LimitLine
  <2> HIDE DEF S, from, to, pos
  <2>1. S \subseteq Nat
    BY <1>2, <1>3, <1>4
  <2>2. pos \in S
    BY <1>5, <1>6, <2>1, LeastExists
  <2> QED BY <1>1, <1>2, <1>3, <1>4, <1>5, <2>2
<1>7. pos \in 0..BufferSize
  <2> HIDE DEF S, from, to, pos
  <2> QED BY <1>1, <1>2, <1>5, <1>6
<1>8. CASE S # {} /\ b.bytes[pos + 1] = "LF"
  <2>1. s = [b EXCEPT !.newline = pos, !.lastFind = None]
    BY <1>8, Zenon DEF FindNewline
  <2> HIDE DEF S, from, to, pos, s
  <2>2. /\ s.bytes = b.bytes /\ s.receive = b.receive
        /\ s.current = b.current /\ s.newline = pos
    BY <2>1 DEF Buffers
  <2>3. s \in Buffers
    BY <1>7, <2>1 DEF Buffers
  <2> QED BY <1>6, <1>8, <2>2, <2>3 DEF s
<1>9. CASE ~(S # {} /\ b.bytes[pos + 1] = "LF")
  <2>1. s = [b EXCEPT !.lastFind = pos]
    BY <1>9, Zenon DEF FindNewline
  <2> HIDE DEF S, from, to, pos, s
  <2>2. /\ s.bytes = b.bytes /\ s.receive = b.receive
        /\ s.current = b.current /\ s.newline = None
    BY <2>1 DEF Buffers
  <2>3. s \in Buffers
    BY <1>7, <2>1 DEF Buffers
  <2> QED BY <2>2, <2>3 DEF s
<1> QED BY <1>8, <1>9

(* A step that leaves the request alone.                                   *)
LEMMA StaleKept ==
  ASSUME StaleInv, m_buffer' \in Buffers,
         pc' \in {"headerReceive", "headerParse", "body", "bodyReceive",
                  "returned", "undefined"},
         pc' # "returned" => m_buffer'.receive >= 0 /\ m_buffer'.newline = None,
         UNCHANGED <<peerRequest, calls, requestVars>>, closed' \in BOOLEAN,
         splitEnd' \in BOOLEAN, response' \in Responses,
         status' \in {"none", "Ok", "Disconnected", "PeerError",
                      "InternalError"},
         status' = "none" <=> pc' # "returned",
         status' = "PeerError" => response' # "Ok"
  PROVE  StaleInv'
<1>1. /\ request' = request /\ headerCount' = headerCount
      /\ contentLength' = contentLength /\ totalReceived' = totalReceived
      /\ stale' = stale
  BY DEF requestVars
<1>2. stale'
  BY <1>1, Zenon DEF StaleInv
<1>3. TypeInv'
  BY <1>1 DEF StaleInv, TypeInv
<1>4. WithinLimits'
  BY <1>1 DEF StaleInv, WithinLimits
<1> QED BY <1>2, <1>3, <1>4 DEF StaleInv

LEMMA StaleReceives ==
  ASSUME StaleInv, NEW n \in 1..BufferSize, ReceiveSome(n) PROVE StaleInv'
<1>1. m_buffer \in Buffers /\ pc # "returned" /\ peerRequest \in Requests
      /\ status = "none" /\ pc \in {"headerReceive", "bodyReceive"}
      /\ m_buffer.receive \in Nat /\ m_buffer.newline = None
  BY DEF StaleInv, TypeInv, Buffers, ReceiveSome, Receiving
<1>2. /\ m_buffer' \in Buffers /\ m_buffer'.receive = m_buffer.receive + n
      /\ m_buffer'.newline = m_buffer.newline
  BY <1>1, ReceivesSome
<1>3. /\ pc' \in {"headerParse", "body"} /\ UNCHANGED <<peerVars, requestVars>>
      /\ status' = status /\ response' = response
  BY <1>1 DEF ReceiveSome, GoesOn, AfterReceive, resultVars
<1>4. peerRequest' = peerRequest /\ calls' = calls /\ closed' = closed
  BY <1>3 DEF peerVars
<1>5. splitEnd' \in BOOLEAN
  BY Zenon DEF ReceiveSome
<1>6. m_buffer'.receive >= 0 /\ m_buffer'.newline = None
  BY <1>1, <1>2
<1>7. closed' \in BOOLEAN /\ response' \in Responses
  BY <1>3, <1>4 DEF StaleInv, TypeInv
<1> QED BY <1>1, <1>2, <1>3, <1>4, <1>5, <1>6, <1>7, StaleKept

LEMMA StaleHeader ==
  ASSUME StaleInv, HeaderAccepted PROVE StaleInv'
<1>1. /\ pc = "headerParse" /\ ~SearchIsUndefined(m_buffer, LimitLine)
      /\ HasNewline /\ UNCHANGED resultVars
  BY Zenon DEF HeaderAccepted, HeaderParse, Parse, SearchStrays,
               HeaderIsAccepted, Found, Advances, GoesOn
<1>2. /\ m_buffer \in Buffers /\ m_buffer.newline = None /\ status = "none"
      /\ m_buffer.receive \in Nat /\ TypeInv /\ WithinLimits /\ stale
  BY <1>1 DEF StaleInv, Buffers
<1>3. /\ Searched \in Buffers /\ Searched.receive = m_buffer.receive
      /\ Searched.newline \in Searched.current..BufferSize - 1
      /\ Searched.newline < Searched.current + LimitLine
  BY <1>1, <1>2, StaleSearchIs DEF Searched, HasNewline
<1>4. /\ pc' \in {"headerParse", "body"} /\ stale'
      /\ m_buffer' \in Buffers /\ m_buffer'.receive = m_buffer.receive
      /\ m_buffer'.newline = None /\ TypeInv' /\ WithinLimits'
  BY <1>2, <1>3, HeaderTakenIs, Zenon
<1>5. status' = "none"
  BY <1>1, <1>2 DEF resultVars
<1> QED BY <1>2, <1>4, <1>5 DEF StaleInv

(* What lies before a reading position is no text.                         *)
LEMMA UnreadIs ==
  ASSUME NEW b \in Buffers PROVE Unread(b) \in Seq(Symbols)
<1>1. PICK bytes, current, len :
        /\ bytes = b.bytes /\ current = b.current
        /\ len = b.receive - b.current
  OBVIOUS
<1>2. /\ bytes \in [0..BufferSize -> Symbols] /\ current \in Nat
      /\ len \in Int /\ current + len <= BufferSize
  <2> HIDE DEF Symbols
  <2> QED BY <1>1, LimitsAre DEF Buffers
<1>3. Unread(b) = [i \in 1..len |-> bytes[current + i - 1]]
  BY <1>1, Zenon DEF Unread, Text
<1>4. \A i \in 1..len : bytes[current + i - 1] \in Symbols
  <2>1. \A i \in 1..len : current + i - 1 \in 0..BufferSize
    BY <1>2, LimitsAre
  <2> HIDE DEF Symbols
  <2> QED BY <1>2, <2>1
<1>5. PICK k \in Nat : 1..len = 1..k
  <2>1. CASE len \in Nat
    BY <2>1
  <2>2. CASE len \notin Nat
    <3>1. 1..len = 1..0
      BY <1>2, <2>2
    <3> QED BY <3>1
  <2> QED BY <2>1, <2>2
<1>6. Unread(b) \in [1..k -> Symbols]
  BY <1>3, <1>4, <1>5, Zenon
<1> HIDE DEF Symbols
<1> QED BY <1>6

LEMMA StaleBody ==
  ASSUME StaleInv, ReadBody PROVE StaleInv'
<1>1. /\ pc = "body"
      /\ request' = [request EXCEPT !.body = @ \o Unread(m_buffer)]
      /\ m_buffer' = AfterAll(m_buffer)
      /\ \/ pc' = "returned" /\ status' = "Ok" /\ response' = "Ok"
         \/ pc' = "bodyReceive" /\ status' = status /\ response' = response
      /\ totalReceived' = totalReceived
                             + (m_buffer.receive - m_buffer.current)
      /\ peerRequest' = peerRequest /\ closed' = closed /\ calls' = calls
      /\ splitEnd' = splitEnd /\ headerCount' = headerCount
      /\ contentLength' = contentLength /\ stale' = stale
  BY DEF ReadBody, Parse, Return, GoesOn, peerVars, resultVars
<1>2. /\ m_buffer \in Buffers /\ m_buffer.newline = None /\ status = "none"
      /\ m_buffer.receive \in Nat /\ TypeInv /\ WithinLimits /\ stale
  BY <1>1 DEF StaleInv, Buffers
<1>3. /\ m_buffer' \in Buffers /\ m_buffer'.receive >= 0
      /\ m_buffer'.newline = None
  <2>1. m_buffer' = [m_buffer EXCEPT !.current = m_buffer.receive]
    BY <1>1 DEF AfterAll
  <2>2. m_buffer.receive \in 0..BufferSize + 1
    BY <1>2, LimitsAre DEF Buffers
  <2> HIDE DEF Symbols
  <2> QED BY <1>2, <2>1, <2>2 DEF Buffers
<1>4. /\ request \in [line : Seq(Symbols), body : Seq(Symbols),
                      headers : {request.headers}]
      /\ DOMAIN request.headers \subseteq Symbols \cup {"content-length"}
      /\ totalReceived \in Int
  BY <1>2 DEF TypeInv
<1>5. PICK all : all = request.body \o Unread(m_buffer)
  OBVIOUS
<1>6. all \in Seq(Symbols)
  <2>1. Unread(m_buffer) \in Seq(Symbols)
    BY <1>2, UnreadIs
  <2> HIDE DEF Symbols
  <2>2. request.body \in Seq(Symbols)
    BY <1>4
  <2> QED BY <1>5, <2>1, <2>2, ConcatProperties
<1>7. /\ request'.line = request.line /\ request'.headers = request.headers
      /\ request' \in [line : Seq(Symbols), body : Seq(Symbols),
                       headers : {request'.headers}]
  <2>1. request' = [request EXCEPT !.body = all]
    BY <1>1, <1>5
  <2> HIDE DEF Symbols
  <2> QED BY <1>4, <1>6, <2>1
<1>8. totalReceived' \in Int
  <2>1. m_buffer.receive - m_buffer.current \in Int
    BY <1>2 DEF Buffers
  <2> QED BY <1>1, <1>4, <2>1
<1>9. TypeInv'
  BY <1>1, <1>2, <1>4, <1>7, <1>8 DEF TypeInv, Responses
<1>10. WithinLimits'
  BY <1>1, <1>2, <1>7 DEF WithinLimits
<1>11. stale'
  BY <1>1, <1>2, Zenon
<1> QED BY <1>1, <1>2, <1>3, <1>9, <1>10, <1>11 DEF StaleInv

LEMMA StaleStep ==
  ASSUME StaleInv, ReceiverStep \/ ReceiveError PROVE StaleInv'
<1>1. /\ m_buffer \in Buffers
      /\ pc \in {"headerReceive", "headerParse", "body", "bodyReceive",
                 "returned", "undefined"}
      /\ pc # "returned" =>
           m_buffer.receive \in Nat /\ m_buffer.newline = None
      /\ closed \in BOOLEAN /\ splitEnd \in BOOLEAN /\ response \in Responses
      /\ status = "none" <=> pc # "returned"
      /\ "Ok" \in Responses
  BY DEF StaleInv, TypeInv, Buffers, Responses
<1>2. ASSUME NEW n \in 1..BufferSize, ReceiveSome(n) PROVE StaleInv'
  BY <1>2, StaleReceives
<1>3. CASE ReceiveNothing
  <2>1. /\ UNCHANGED <<peerRequest, closed, calls, requestVars>>
        /\ splitEnd' = splitEnd /\ m_buffer' = m_buffer
        /\ pc' = "returned" /\ status' = "Disconnected" /\ response' = "Ok"
    BY <1>3 DEF ReceiveNothing, Disconnected, Return, peerVars
  <2> QED BY <1>1, <2>1, StaleKept
<1>4. CASE ReceiveError
  <2>1. /\ UNCHANGED <<peerRequest, closed, calls, requestVars>>
        /\ splitEnd' = splitEnd /\ pc # "returned"
        /\ m_buffer' = [m_buffer EXCEPT !.receive = @ - 1]
        /\ pc' = "returned" /\ status' = "InternalError"
        /\ response' \in Responses
    BY <1>4 DEF ReceiveError, Receiving, Return, peerVars, Responses
  <2>2. m_buffer' \in Buffers
    <3>1. m_buffer.receive - 1 \in -1..BufferSize
      BY <1>1, <2>1, LimitsAre DEF Buffers
    <3> HIDE DEF Symbols
    <3> QED BY <1>1, <2>1, <3>1 DEF Buffers
  <2> QED BY <1>1, <2>1, <2>2, StaleKept
<1>5. ~RequestLineIncomplete /\ ~RequestLineRefused /\ ~RequestLineAccepted
  BY <1>1 DEF RequestLineIncomplete, RequestLineRefused, RequestLineAccepted,
     Parse
<1>6. CASE TooManyHeaders
  <2>1. /\ UNCHANGED <<peerRequest, closed, calls, requestVars>>
        /\ splitEnd' = splitEnd /\ m_buffer' = m_buffer
        /\ pc' = "returned" /\ status' = "PeerError"
        /\ response' \in Responses \ {"Ok"}
    BY <1>6 DEF TooManyHeaders, Parse, PeerError, Return, peerVars, Responses
  <2> QED BY <1>1, <2>1, StaleKept
<1>7. ASSUME HeaderIncomplete \/ HeaderRefused
      PROVE  /\ Searched \in Buffers /\ Searched.receive \in Nat
             /\ m_buffer' = Searched /\ splitEnd' = splitEnd
             /\ UNCHANGED <<peerRequest, closed, calls, requestVars>>
  <2>1. /\ pc = "headerParse" /\ ~SearchIsUndefined(m_buffer, LimitLine)
        /\ m_buffer' = Searched /\ splitEnd' = splitEnd
        /\ UNCHANGED <<peerRequest, closed, calls, requestVars>>
    BY <1>7, Zenon DEF HeaderIncomplete, HeaderRefused, HeaderParse, Parse,
                       SearchStrays, peerVars
  <2>2. Searched \in Buffers /\ Searched.receive = m_buffer.receive
    BY <1>1, <2>1, StaleSearchIs DEF Searched
  <2> HIDE DEF Searched
  <2> QED BY <1>1, <2>1, <2>2
<1>8. CASE HeaderIncomplete
  <2>1. /\ pc' = "headerReceive" /\ status' = status /\ response' = response
        /\ Searched.newline = None /\ pc = "headerParse"
    BY <1>8 DEF HeaderIncomplete, HeaderParse, Parse, GoesOn, resultVars,
       Found, LineRefused, HasNewline
  <2>2. m_buffer'.receive >= 0 /\ m_buffer'.newline = None
    <3> HIDE DEF Searched
    <3> QED BY <1>7, <1>8, <2>1
  <2> QED BY <1>1, <1>7, <1>8, <2>1, <2>2, StaleKept
<1>9. CASE HeaderRefused
  <2>1. /\ pc' = "returned" /\ status' = "PeerError"
        /\ response' \in Responses \ {"Ok"}
    BY <1>9 DEF HeaderRefused, PeerError, Return, Responses
  <2> QED BY <1>1, <1>7, <1>9, <2>1, StaleKept
<1>10. CASE NoBody
  <2>1. /\ UNCHANGED <<peerRequest, closed, calls, requestVars>>
        /\ splitEnd' = splitEnd /\ m_buffer' = m_buffer
        /\ pc' = "returned" /\ status' = "Ok" /\ response' = "Ok"
    BY <1>10 DEF NoBody, Parse, Return, peerVars
  <2> QED BY <1>1, <2>1, StaleKept
<1>11. CASE Undefined
  <2>1. /\ UNCHANGED <<peerRequest, closed, calls, requestVars>>
        /\ splitEnd' = splitEnd /\ m_buffer' = m_buffer
        /\ pc \in {"headerParse", "body"} /\ pc' = "undefined"
        /\ status' = status /\ response' = response
    BY <1>11, Zenon DEF Undefined, StraysInHeader, AppendsWrapped, Parse,
                        GoesOn, peerVars, resultVars
  <2> QED BY <1>1, <2>1, StaleKept
<1> QED BY <1>2, <1>3, <1>4, <1>5, <1>6, <1>8, <1>9, <1>10, <1>11,
           StaleHeader, StaleBody, Zenon DEF ReceiverStep

-----------------------------------------------------------------------------
(* The steps of the receiver, and those of the worker.                     *)

LEMMA StraightStep ==
  ASSUME StraightInv, ReceiverStep PROVE ReceiverInv'
<1>1. CASE \E n \in 1..BufferSize : ReceiveSome(n)
  BY <1>1, ReceiveSomeStep DEF ReceiverInv
<1>2. CASE ReceiveNothing
  BY <1>2, ReceiveNothingStep DEF ReceiverInv
<1>3. CASE RequestLineIncomplete
  BY <1>3, RequestLineIncompleteStep DEF ReceiverInv
<1>4. CASE RequestLineRefused
  BY <1>4, RequestLineRefusedStep DEF ReceiverInv
<1>5. CASE RequestLineAccepted
  BY <1>5, RequestLineAcceptedStep, Zenon DEF ReceiverInv
<1>6. CASE TooManyHeaders
  BY <1>6, TooManyHeadersStep DEF ReceiverInv
<1>7. CASE HeaderIncomplete
  BY <1>7, HeaderIncompleteStep DEF ReceiverInv
<1>8. CASE HeaderRefused
  BY <1>8, HeaderRefusedStep DEF ReceiverInv
<1>9. CASE HeaderAccepted
  BY <1>9, HeaderAcceptedStep, Zenon DEF ReceiverInv
<1>10. CASE NoBody
  BY <1>10, NoBodyStep DEF ReceiverInv
<1>11. CASE ReadBody
  BY <1>11, ReadBodyStep DEF ReceiverInv
<1>12. CASE Undefined
  BY <1>12, UndefinedStep DEF ReceiverInv
<1> QED BY <1>1, <1>2, <1>3, <1>4, <1>5, <1>6, <1>7, <1>8, <1>9, <1>10, <1>11,
           <1>12 DEF ReceiverStep

LEMMA ReceiverStepIs ==
  ASSUME ReceiverInv, ReceiverStep \/ ReceiveError PROVE ReceiverInv'
BY StraightStep, ReceiveErrorStep, StaleStep DEF ReceiverInv

(* Of every execution, whether a line end was received or not.             *)
LEMMA ResultIs ==
  ASSUME ReceiverInv
  PROVE  /\ TypeInv /\ m_buffer \in Buffers /\ WithinLimits
         /\ status = "none" <=> pc # "returned"
         /\ status = "PeerError" => response # "Ok"
         /\ ~stale => StraightInv
         /\ pc = "idle" => StraightInv
BY Zenon DEF ReceiverInv, StraightInv, StaleInv, BufferInv, ResultInv

(* Steps that leave everything to ReceiverInv as it is, but the response.  *)
LEMMA ReceiverKept ==
  ASSUME ReceiverInv, response' \in Responses,
         response' = response \/ status # "PeerError",
         UNCHANGED <<m_buffer, pc, peerRequest, calls, requestVars, status,
                     splitEnd>>,
         closed' \in BOOLEAN
  PROVE  ReceiverInv'
<1>1. CASE StraightInv
  BY <1>1, StraightKept DEF ReceiverInv
<1>2. CASE StaleInv
  <2>1. StaleInv'
    BY <1>2, StaleKept DEF StaleInv, TypeInv
  <2> QED BY <2>1 DEF ReceiverInv
<1> QED BY <1>1, <1>2 DEF ReceiverInv

LEMMA ResetIs ==
  ASSUME NEW b \in Buffers
  PROVE  /\ Reset(b) \in Buffers /\ Reset(b).receive = 0
         /\ Reset(b).current = 0
         /\ Reset(b).newline = None /\ Reset(b).lastFind = None
<1>1. 0 \in -1..BufferSize /\ 0 \in 0..BufferSize + 1
  BY LimitsAre
<1> HIDE DEF Symbols, None
<1> QED BY <1>1 DEF Reset, Buffers

LEMMA NothingReceived ==
  ASSUME NEW r \in Requests, NEW b, b.receive = 0 PROVE Received(b, Bytes(r))
<1>1. Bytes(r) \in Seq(Symbols)
  BY BytesAre
<1>2. 0 <= Len(Bytes(r))
  <2> HIDE DEF Bytes, Symbols
  <2> QED BY <1>1
<1> QED BY <1>2 DEF Received

LEMMA NewRequestIs ==
  /\ NewRequest \in [line : Seq(Symbols), body : Seq(Symbols),
                     headers : {NewRequest.headers}]
  /\ DOMAIN NewRequest.headers = {} /\ NewRequest.line = <<>>
  /\ Len(NewRequest.line) \in 0..LimitLine - 1 /\ NewRequest.body = <<>>
  /\ Len(NewRequest.body) = 0
<1>1. <<>> \in Seq(Symbols) /\ DOMAIN <<>> = {} /\ Len(<<>>) = 0
  OBVIOUS
<1>2. /\ NewRequest \in [line : Seq(Symbols), body : Seq(Symbols),
                         headers : {NewRequest.headers}]
      /\ DOMAIN NewRequest.headers = {} /\ NewRequest.line = <<>>
      /\ NewRequest.body = <<>>
  <2> HIDE DEF Symbols
  <2> QED BY <1>1 DEF NewRequest
<1> QED BY <1>1, <1>2, LimitsAre

LEMMA BeginStep ==
  ASSUME StraightInv, Untouched, pc = "idle", NEW r \in Requests, Begin(r)
  PROVE  StraightInv'
<1>1. /\ peerRequest' = r /\ closed' = FALSE /\ calls' \in 0..MaxCalls
      /\ m_buffer' = Reset(m_buffer)
      /\ headerCount' = 0 /\ contentLength' = None /\ totalReceived' = 0
      /\ response' = "Ok" /\ splitEnd' = FALSE /\ pc' = "requestReceive"
      /\ stale' = FALSE
      /\ request' = request /\ status' = status
  BY LimitsAre DEF Begin, StraightInv, TypeInv
<1>2. status = "none" /\ Untouched'
  BY <1>1 DEF StraightInv, ResultInv, Untouched
<1>3. TypeInv'
  <2>1. "Ok" \in Responses /\ None \in Int
    BY DEF Responses, None
  <2>2. stale' \in BOOLEAN /\ splitEnd' \in BOOLEAN /\ closed' \in BOOLEAN
    BY <1>1, Zenon
  <2> HIDE DEF Symbols
  <2> QED BY <1>1, <2>1, <2>2 DEF StraightInv, TypeInv
<1>4. m_buffer' \in Buffers /\ m_buffer'.receive = 0 /\ m_buffer'.current = 0
      /\ m_buffer'.newline = None /\ m_buffer'.lastFind = None
  BY <1>1, ResetIs DEF StraightInv, BufferInv
<1>5. BufferInv'
  <2>1. Received(m_buffer', Stream')
    BY <1>1, <1>4, NothingReceived DEF Stream
  <2> QED BY <1>4, <2>1 DEF BufferInv, Searching
<1>6. SplitSeen' /\ RequestPhase' /\ HeaderPhase' /\ BodyPhase' /\ ResultInv'
  BY <1>1, <1>2, <1>4 DEF SplitSeen, RequestPhase, HeaderPhase, BodyPhase,
     ResultInv
<1>7. WithinLimits' /\ RefusedForSplitEndOnly'
  BY <1>1, <1>2 DEF StraightInv, WithinLimits, RefusedForSplitEndOnly, Untouched
<1>8. Counted'
  BY <1>2, NewRequestIs DEF Counted, Untouched
<1> QED BY <1>1, <1>3, <1>5, <1>6, <1>7, <1>8 DEF StraightInv

LEMMA ReleaseStep ==
  ASSUME ReceiverInv, Release PROVE StraightInv'
<1>1. /\ pc' = "idle" /\ closed' = FALSE /\ splitEnd' = FALSE
      /\ request' = NewRequest /\ headerCount' = 0 /\ contentLength' = None
      /\ totalReceived' = 0 /\ stale' = FALSE
      /\ status' = "none" /\ response' = "Ok"
      /\ m_buffer' = m_buffer /\ peerRequest' = peerRequest /\ calls' = calls
  BY DEF Release, FreshRequest
<1>2. TypeInv'
  <2>1. "Ok" \in Responses /\ None \in Int
    BY DEF Responses, None
  <2>2. /\ request' \in [line : Seq(Symbols), body : Seq(Symbols),
                         headers : {request'.headers}]
        /\ DOMAIN request'.headers \subseteq Symbols \cup {"content-length"}
    <3> HIDE DEF NewRequest, Symbols
    <3> QED BY <1>1, NewRequestIs
  <2>3. stale' \in BOOLEAN /\ splitEnd' \in BOOLEAN /\ closed' \in BOOLEAN
    BY <1>1, Zenon
  <2> HIDE DEF Symbols
  <2> QED BY <1>1, <2>1, <2>2, <2>3, ResultIs DEF TypeInv
<1>4. BufferInv'
  BY <1>1, ResultIs DEF BufferInv
<1>5. SplitSeen' /\ RequestPhase' /\ HeaderPhase' /\ BodyPhase' /\ ResultInv'
      /\ RefusedForSplitEndOnly'
  BY <1>1 DEF SplitSeen, RequestPhase, HeaderPhase, BodyPhase, ResultInv,
     RefusedForSplitEndOnly
<1>6. WithinLimits'
  BY <1>1, NewRequestIs, LimitsAre DEF WithinLimits
<1>7. Counted'
  BY <1>1, NewRequestIs DEF Counted
<1> QED BY <1>1, <1>2, <1>4, <1>5, <1>6, <1>7 DEF StraightInv

LEMMA NeverIdle ==
  ASSUME ReceiverStep \/ ReceiveError PROVE pc' # "idle"
<1>1. AfterReceive # "idle" \/ ~Receiving
  BY DEF AfterReceive, Receiving
<1>2. ASSUME NEW n, ReceiveSome(n) PROVE pc' # "idle"
  BY <1>1, <1>2 DEF ReceiveSome, GoesOn
<1>3. ReceiveNothing \/ ReceiveError => pc' # "idle"
  BY DEF ReceiveNothing, ReceiveError, Disconnected, Return
<1>4. RequestLineIncomplete \/ RequestLineRefused \/ RequestLineAccepted
        => pc' # "idle"
  BY DEF RequestLineIncomplete, RequestLineRefused, RequestLineAccepted,
         GoesOn, PeerError, Return, Advances
<1>5. TooManyHeaders \/ HeaderIncomplete \/ HeaderRefused \/ HeaderAccepted
        => pc' # "idle"
  BY DEF TooManyHeaders, HeaderIncomplete, HeaderRefused, HeaderAccepted,
         GoesOn, PeerError, Return, Advances
<1>6. NoBody \/ ReadBody \/ Undefined => pc' # "idle"
  BY DEF NoBody, ReadBody, Undefined, GoesOn, Return
<1> QED BY <1>2, <1>3, <1>4, <1>5, <1>6, Zenon DEF ReceiverStep

LEMMA ReceivePhase ==
  ASSUME IInv, phase = "receiving", UNCHANGED workerVars, pc' # "idle"
  PROVE  WorkerInv'
<1>1. /\ phase' = phase /\ responseBody' = responseBody /\ called' = called
      /\ delivered' = delivered /\ short' = short
  BY DEF workerVars, answerVars, linkVars
<1>2. called = <<>> /\ responseBody = <<>> /\ delivered = <<>> /\ ~short
  BY DEF IInv, WorkerInv
<1> QED BY <1>1, <1>2 DEF IInv, WorkerInv

(* A text that was sent as far as send() took it.                          *)
LEMMA SentIs ==
  ASSUME NEW S, NEW text \in Seq(S), NEW n \in 0..Len(text)
  PROVE  SubSeq(text, 1, n) \in Seq(S)
         /\ (n = Len(text) => SubSeq(text, 1, n) = text)
<1>1. Len(text) \in Nat /\ n \in Int /\ 1 \in Int
  OBVIOUS
<1>2. \A i \in 1..n : text[i] \in S
  BY <1>1, ElementOfSeq
<1>3. /\ SubSeq(text, 1, n) \in Seq(S)
      /\ Len(SubSeq(text, 1, n)) = IF 1 <= n THEN n - 1 + 1 ELSE 0
      /\ \A i \in 1..n - 1 + 1 : SubSeq(text, 1, n)[i] = text[1 + i - 1]
  BY <1>1, <1>2, SubSeqProperties
<1>4. PICK s : s = SubSeq(text, 1, n)
  OBVIOUS
<1>5. s \in Seq(S) /\ Len(s) = n /\ \A i \in 1..n : s[i] = text[i]
  BY <1>1, <1>3, <1>4
<1>6. n = Len(text) => s = text
  BY <1>5, SeqEqual
<1> QED BY <1>4, <1>5, <1>6

Delivered == Responses \cup Symbols \cup {a.status : a \in Answers}

LEMMA ResponseIs ==
  ASSUME IInv
  PROVE  <<response>> \in Seq(Delivered) /\ responseBody \in Seq(Delivered)
<1>1. response \in Delivered
  BY ResultIs DEF IInv, TypeInv, Delivered
<1>2. responseBody \in Seq(Symbols)
  <2>1. \A a \in Answers : a.body \in Seq(Symbols)
    BY AnswersAssumption
  <2>2. <<>> \in Seq(Symbols)
    OBVIOUS
  <2>3. responseBody \in {<<>>} \cup {a.body : a \in Answers}
    BY DEF IInv, WorkerInv
  <2> HIDE DEF Symbols
  <2> QED BY <2>1, <2>2, <2>3
<1>3. Symbols \subseteq Delivered
  BY DEF Delivered
<1> HIDE DEF Symbols, Delivered
<1> QED BY <1>1, <1>2, <1>3

LEMMA SendStep ==
  ASSUME IInv, NEW text \in Seq(Delivered), NEW next, Send(text, next)
  PROVE  /\ UNCHANGED <<receiverVars, answerVars>> /\ phase' = next
         /\ delivered' \in Seq(Delivered) /\ short' \in BOOLEAN
         /\ ~short' => ~short /\ delivered' = delivered \o text
<1>1. PICK n \in 0..Len(text) :
        /\ delivered' = delivered \o SubSeq(text, 1, n)
        /\ short' = (short \/ n < Len(text))
        /\ UNCHANGED <<receiverVars, answerVars>> /\ phase' = next
  BY DEF Send
<1>2. SubSeq(text, 1, n) \in Seq(Delivered)
      /\ (n = Len(text) => SubSeq(text, 1, n) = text)
  BY SentIs
<1>3. delivered \in Seq(Delivered) /\ short \in BOOLEAN
  BY DEF IInv, WorkerInv, Delivered
<1>4. delivered' \in Seq(Delivered)
  <2>1. PICK part : part = SubSeq(text, 1, n)
    OBVIOUS
  <2>2. part \in Seq(Delivered) /\ delivered' = delivered \o part
    BY <1>1, <1>2, <2>1
  <2> HIDE DEF Delivered
  <2> QED BY <1>3, <2>2, ConcatProperties
<1>5. ~short' => ~short /\ n = Len(text)
  <2>1. Len(text) \in Nat
    OBVIOUS
  <2>2. ~short' => ~short /\ ~(n < Len(text))
    BY <1>1, <1>3, Zenon
  <2> QED BY <2>1, <2>2
<1>6. short' \in BOOLEAN
  BY <1>1, Zenon
<1> QED BY <1>1, <1>2, <1>4, <1>5, <1>6

LEMMA ReceiverUnchanged ==
  ASSUME ReceiverInv, UNCHANGED receiverVars
  PROVE  /\ ReceiverInv' /\ pc' = pc /\ status' = status
         /\ request' = request /\ response' = response
<1>1. /\ m_buffer' = m_buffer /\ pc' = pc /\ peerRequest' = peerRequest
      /\ closed' = closed /\ calls' = calls /\ UNCHANGED requestVars
      /\ request' = request /\ status' = status /\ response' = response
      /\ splitEnd' = splitEnd
  BY DEF receiverVars, peerVars, requestVars, resultVars
<1>2. closed' \in BOOLEAN /\ response' \in Responses
  BY <1>1, ResultIs DEF TypeInv
<1> QED BY <1>1, <1>2, ReceiverKept

LEMMA SendStartStep ==
  ASSUME IInv, SendStart PROVE IInv'
<1>1. phase = "sendStart" /\ Send(<<response>>, "sendBody")
  BY DEF SendStart
<1>2. /\ UNCHANGED <<receiverVars, answerVars>> /\ phase' = "sendBody"
      /\ delivered' \in Seq(Delivered) /\ short' \in BOOLEAN
      /\ ~short' => ~short /\ delivered' = delivered \o <<response>>
  <2>1. <<response>> \in Seq(Delivered)
    BY ResponseIs
  <2> QED BY <1>1, <2>1, SendStep
<1>3. /\ ReceiverInv' /\ pc' = pc /\ status' = status
      /\ request' = request /\ response' = response
  BY <1>2, ReceiverUnchanged DEF IInv
<1>4. /\ called' = called /\ responseBody' = responseBody
      /\ delivered = <<>>
  BY <1>1, <1>2 DEF IInv, WorkerInv, answerVars
<1>5. ~short' => delivered' = <<response'>>
  <2>1. <<>> \o <<response>> = <<response>>
    OBVIOUS
  <2> QED BY <1>2, <1>3, <1>4, <2>1
<1>6. WorkerInv'
  BY <1>1, <1>2, <1>3, <1>4, <1>5 DEF IInv, WorkerInv, Delivered
<1> QED BY <1>3, <1>6 DEF IInv

LEMMA SendBodyStep ==
  ASSUME IInv, SendBody PROVE IInv'
<1>1. phase = "sendBody" /\ Send(responseBody, "release")
  BY DEF SendBody
<1>2. /\ UNCHANGED <<receiverVars, answerVars>> /\ phase' = "release"
      /\ delivered' \in Seq(Delivered) /\ short' \in BOOLEAN
      /\ ~short' => ~short /\ delivered' = delivered \o responseBody
  <2>1. responseBody \in Seq(Delivered)
    BY ResponseIs
  <2> QED BY <1>1, <2>1, SendStep
<1>3. /\ ReceiverInv' /\ pc' = pc /\ status' = status
      /\ request' = request /\ response' = response
  BY <1>2, ReceiverUnchanged DEF IInv
<1>4. /\ called' = called /\ responseBody' = responseBody
      /\ (~short => delivered = <<response>>)
      /\ status # "Disconnected"
  BY <1>1, <1>2 DEF IInv, WorkerInv, answerVars
<1>5. ~short' => delivered' = <<response'>> \o responseBody'
  BY <1>2, <1>3, <1>4
<1>6. WorkerInv'
  BY <1>1, <1>2, <1>3, <1>4, <1>5 DEF IInv, WorkerInv, Delivered
<1> QED BY <1>3, <1>6 DEF IInv


LEMMA ExecuteStep ==
  ASSUME IInv, NEW r \in Requests, Execute(r) PROVE IInv'
<1>1. Untouched /\ pc = "idle"
  BY DEF Execute, IInv, WorkerInv
<1>2. ReceiverInv'
  BY <1>1, ResultIs, BeginStep DEF Execute, IInv, ReceiverInv
<1>3. /\ phase = "waiting" /\ phase' = "receiving" /\ pc' = "requestReceive"
      /\ responseBody' = responseBody /\ called' = called
      /\ delivered' = delivered /\ short' = short
  BY DEF Execute, Begin, answerVars, linkVars
<1>4. called = <<>> /\ responseBody = <<>> /\ delivered = <<>> /\ ~short
  BY <1>3 DEF IInv, WorkerInv
<1>5. WorkerInv'
  BY <1>3, <1>4 DEF IInv, WorkerInv
<1> QED BY <1>2, <1>5 DEF IInv

LEMMA ReceiveStep ==
  ASSUME IInv, Receive \/ FailReceive PROVE IInv'
<1>1. ReceiverInv'
  BY ReceiverStepIs DEF Receive, FailReceive, IInv
<1>2. pc' # "idle"
  BY NeverIdle DEF Receive, FailReceive
<1>3. WorkerInv'
  BY <1>2, ReceivePhase DEF Receive, FailReceive
<1> QED BY <1>1, <1>3 DEF IInv

(* Steps that leave to WorkerInv everything as it is.                      *)
LEMMA WorkerKept ==
  ASSUME IInv, UNCHANGED <<workerVars, pc, status, response, requestVars>>
  PROVE  WorkerInv'
<1>1. /\ phase' = phase /\ responseBody' = responseBody /\ called' = called
      /\ delivered' = delivered /\ short' = short
      /\ pc' = pc /\ status' = status /\ response' = response
      /\ request' = request /\ headerCount' = headerCount
      /\ contentLength' = contentLength /\ totalReceived' = totalReceived
  BY DEF workerVars, answerVars, linkVars, requestVars
<1>2. Untouched' <=> Untouched
  BY <1>1 DEF Untouched
<1> QED BY <1>1, <1>2 DEF IInv, WorkerInv

LEMMA ClosePeerStep ==
  ASSUME IInv, ClosePeer PROVE IInv'
<1>1. /\ closed' = TRUE
      /\ UNCHANGED <<m_buffer, pc, peerRequest, calls, requestVars, splitEnd>>
      /\ UNCHANGED workerVars
      /\ status' = status /\ response' = response
  BY DEF ClosePeer, PeerCloses, resultVars
<1>2. response' \in Responses
  BY <1>1, ResultIs DEF IInv, TypeInv
<1>3. ReceiverInv'
  BY <1>1, <1>2, ReceiverKept DEF IInv
<1>4. WorkerInv'
  BY <1>1, WorkerKept
<1> QED BY <1>3, <1>4 DEF IInv

LEMMA CallBackStep ==
  ASSUME IInv, CallBack PROVE IInv'
<1>1. PICK a \in Answers : response' = a.status /\ responseBody' = a.body
  BY DEF CallBack
<1>2. /\ phase = "receiving" /\ pc = "returned" /\ phase' = "sendStart"
      /\ status = "Ok" /\ called' = Append(called, request)
      /\ m_buffer' = m_buffer /\ pc' = pc /\ peerRequest' = peerRequest
      /\ closed' = closed /\ calls' = calls /\ UNCHANGED requestVars
      /\ request' = request /\ status' = status /\ splitEnd' = splitEnd
      /\ delivered' = delivered /\ short' = short
  BY DEF CallBack, HandsOver, Returned, peerVars, requestVars, linkVars
<1>3. response' \in Responses /\ closed' \in BOOLEAN
  BY <1>1, <1>2, AnswersAssumption, ResultIs DEF IInv, TypeInv
<1>4. ReceiverInv'
  BY <1>2, <1>3, ReceiverKept DEF IInv
<1>5. called' = <<request'>> /\ delivered = <<>> /\ ~short
  <2>1. called = <<>> /\ delivered = <<>> /\ ~short
    BY <1>2 DEF IInv, WorkerInv
  <2>2. Append(<<>>, request) = <<request>>
    OBVIOUS
  <2> QED BY <1>2, <2>1, <2>2
<1>6. \A i \in DOMAIN called' : DOMAIN called'[i] = DOMAIN NewRequest
  <2>1. DOMAIN request = {"line", "body", "headers"}
    BY ResultIs DEF IInv, TypeInv
  <2>2. DOMAIN NewRequest = {"line", "body", "headers"}
    BY DEF NewRequest
  <2>3. \A i \in DOMAIN <<request>> : <<request>>[i] = request
    OBVIOUS
  <2> HIDE DEF NewRequest
  <2> QED BY <1>2, <1>5, <2>1, <2>2, <2>3
<1>7. WorkerInv'
  BY <1>1, <1>2, <1>5, <1>6 DEF IInv, WorkerInv
<1> QED BY <1>4, <1>7 DEF IInv

LEMMA NoCallbackStep ==
  ASSUME IInv, NoCallback PROVE IInv'
<1>1. /\ phase = "receiving" /\ pc = "returned" /\ status # "Ok"
      /\ phase' = IF status = "Disconnected" THEN "release" ELSE "sendStart"
      /\ m_buffer' = m_buffer /\ pc' = pc /\ peerRequest' = peerRequest
      /\ closed' = closed /\ calls' = calls /\ UNCHANGED requestVars
      /\ request' = request /\ status' = status /\ splitEnd' = splitEnd
      /\ response' = response /\ called' = called
      /\ responseBody' = responseBody
      /\ delivered' = delivered /\ short' = short
  BY DEF NoCallback, HandsOver, Returned, peerVars, requestVars, linkVars,
         answerVars
<1>2. response' \in Responses /\ closed' \in BOOLEAN
  BY <1>1, ResultIs DEF IInv, TypeInv
<1>3. ReceiverInv'
  BY <1>1, <1>2, ReceiverKept DEF IInv
<1>4. /\ called = <<>> /\ responseBody = <<>> /\ delivered = <<>> /\ ~short
  BY <1>1 DEF IInv, WorkerInv
<1>5. CASE status = "Disconnected"
  <2>1. WorkerInv'
    BY <1>1, <1>4, <1>5 DEF IInv, WorkerInv
  <2> QED BY <1>3, <2>1 DEF IInv
<1>6. CASE status # "Disconnected"
  <2>1. WorkerInv'
    BY <1>1, <1>4, <1>6 DEF IInv, WorkerInv
  <2> QED BY <1>3, <2>1 DEF IInv
<1> QED BY <1>5, <1>6

LEMMA TerminateStep ==
  ASSUME IInv, Terminate PROVE IInv'
<1>1. /\ phase \in {"sendStart", "sendBody"} /\ phase' = "terminated"
      /\ UNCHANGED receiverVars
      /\ responseBody' = responseBody /\ called' = called
      /\ delivered' = delivered /\ short' = short
  BY DEF Terminate, answerVars, linkVars
<1>2. ReceiverInv' /\ pc' = pc
  BY <1>1, ReceiverUnchanged DEF IInv
<1>3. WorkerInv'
  BY <1>1, <1>2 DEF IInv, WorkerInv
<1> QED BY <1>2, <1>3 DEF IInv

LEMMA ReleaseWorkerStep ==
  ASSUME IInv, Release PROVE IInv'
<1>1. ReceiverInv'
  BY ReleaseStep DEF IInv, ReceiverInv
<1>2. /\ phase' = "waiting" /\ pc' = "idle"
      /\ request' = NewRequest /\ headerCount' = 0 /\ contentLength' = None
      /\ totalReceived' = 0 /\ called' = <<>> /\ responseBody' = <<>>
      /\ delivered' = <<>> /\ short' = FALSE
  BY DEF Release, FreshRequest
<1>3. Untouched'
  BY <1>2 DEF Untouched
<1>4. /\ \A i \in DOMAIN called' : DOMAIN called'[i] = DOMAIN NewRequest
      /\ delivered' \in Seq(Delivered)
  <2>1. DOMAIN <<>> = {} /\ <<>> \in Seq(Delivered)
    OBVIOUS
  <2> QED BY <1>2, <2>1
<1>5. WorkerInv'
  BY <1>2, <1>3, <1>4 DEF WorkerInv, Delivered
<1> QED BY <1>1, <1>5 DEF IInv

LEMMA StutterStep ==
  ASSUME IInv, UNCHANGED vars PROVE IInv'
<1>1. UNCHANGED receiverVars /\ UNCHANGED workerVars
  BY DEF vars
<1>2. ReceiverInv'
  BY <1>1, ReceiverUnchanged DEF IInv
<1>3. UNCHANGED <<workerVars, pc, status, response, requestVars>>
  BY <1>1 DEF receiverVars, resultVars
<1>4. WorkerInv'
  BY <1>3, WorkerKept
<1> QED BY <1>2, <1>4 DEF IInv

LEMMA InitHolds ==
  ASSUME Init PROVE IInv
<1>1. PICK bytes \in Uninitialised :
        m_buffer = [bytes |-> bytes, receive |-> 0, current |-> 0,
                    newline |-> None, lastFind |-> None]
  BY DEF Init, ReceiverInit
<1>2. /\ pc = "idle" /\ peerRequest \in Requests /\ closed = FALSE
      /\ calls = 0 /\ request = NewRequest /\ headerCount = 0
      /\ contentLength = None /\ totalReceived = 0
      /\ status = "none" /\ response = "Ok"
      /\ stale = FALSE /\ splitEnd = FALSE /\ phase = "waiting" /\ called = <<>>
      /\ responseBody = <<>> /\ delivered = <<>> /\ short = FALSE
  BY DEF Init, ReceiverInit
<1>3. m_buffer \in Buffers /\ m_buffer.receive = 0
  <2>1. bytes \in [0..BufferSize -> Symbols]
    BY ReceiverAssumption
  <2>2. 0 \in -1..BufferSize /\ 0 \in 0..BufferSize + 1
    BY LimitsAre
  <2> HIDE DEF Symbols, None
  <2> QED BY <1>1, <2>1, <2>2 DEF Buffers
<1>4. TypeInv
  <2>1. "Ok" \in Responses /\ None \in Int /\ 0 \in 0..MaxCalls
    BY LimitsAre, ReceiverAssumption DEF Responses, None
  <2>2. stale \in BOOLEAN /\ splitEnd \in BOOLEAN /\ closed \in BOOLEAN
    BY <1>2, Zenon
  <2> HIDE DEF Symbols, NewRequest, None
  <2> QED BY <1>2, <2>1, <2>2, NewRequestIs DEF TypeInv
<1>5. BufferInv
  <2>1. Received(m_buffer, Stream)
    BY <1>2, <1>3, NothingReceived DEF Stream
  <2> QED BY <1>2, <1>3, <2>1 DEF BufferInv
<1>6. SplitSeen /\ RequestPhase /\ HeaderPhase /\ BodyPhase /\ ResultInv
      /\ RefusedForSplitEndOnly
  BY <1>2 DEF SplitSeen, RequestPhase, HeaderPhase, BodyPhase, ResultInv,
     RefusedForSplitEndOnly
<1>7. WithinLimits
  BY <1>2, NewRequestIs, LimitsAre DEF WithinLimits
<1>8. Untouched
  BY <1>2 DEF Untouched
<1>9. /\ \A i \in DOMAIN called : DOMAIN called[i] = DOMAIN NewRequest
      /\ delivered \in Seq(Delivered)
  <2>1. DOMAIN <<>> = {} /\ <<>> \in Seq(Delivered)
    OBVIOUS
  <2> QED BY <1>2, <2>1
<1>10. WorkerInv
  BY <1>2, <1>8, <1>9 DEF WorkerInv, Delivered
<1>11. Counted
  BY <1>2, NewRequestIs DEF Counted
<1> QED BY <1>2, <1>4, <1>5, <1>6, <1>7, <1>10, <1>11
        DEF IInv, ReceiverInv, StraightInv

(* The invariant holds in every state.                                     *)
THEOREM Invariance == Spec => []IInv
<1>1. IInv /\ [Next]_vars => IInv'
  <2> SUFFICES ASSUME IInv, [Next]_vars PROVE IInv'
    OBVIOUS
  <2>1. ASSUME NEW r \in Requests, Execute(r) PROVE IInv'
    BY <2>1, ExecuteStep
  <2>2. CASE Receive \/ FailReceive
    BY <2>2, ReceiveStep
  <2>3. CASE CallBack
    BY <2>3, CallBackStep
  <2>4. CASE NoCallback
    BY <2>4, NoCallbackStep
  <2>5. CASE SendStart
    BY <2>5, SendStartStep
  <2>6. CASE SendBody
    BY <2>6, SendBodyStep
  <2>7. CASE Release
    BY <2>7, ReleaseWorkerStep
  <2>8. CASE ClosePeer
    BY <2>8, ClosePeerStep
  <2>9. CASE Terminate
    BY <2>9, TerminateStep
  <2>10. CASE UNCHANGED vars
    BY <2>10, StutterStep
  <2> QED BY <2>1, <2>2, <2>3, <2>4, <2>5, <2>6, <2>7, <2>8, <2>9, <2>10
          DEF Next, WorkerStep
<1> QED BY InitHolds, <1>1, PTL DEF Spec

-----------------------------------------------------------------------------
(* What the invariant says of an accepted request.                         *)

LEMMA TypesFollow == IInv => TypeOK
<1> SUFFICES ASSUME IInv PROVE TypeOK
  OBVIOUS
<1>1. ReceiverTypeOK
  <2>1. /\ m_buffer \in Buffers /\ TypeInv
        /\ pc # "idle" /\ status # "InternalError" /\ ~stale =>
             m_buffer.current <= m_buffer.receive
    BY ResultIs, Zenon DEF IInv, StraightInv, BufferInv
  <2>2. /\ m_buffer.bytes \in [0..BufferSize -> Symbols]
        /\ m_buffer.receive \in -1..BufferSize
        /\ m_buffer.current \in 0..BufferSize + 1
        /\ {m_buffer.newline, m_buffer.lastFind}
             \subseteq {None} \cup 0..BufferSize
    <3> HIDE DEF Symbols, None
    <3> QED BY <2>1 DEF Buffers
  <2>3. request.line \in Seq(Symbols) /\ request.body \in Seq(Symbols)
    <3> HIDE DEF Symbols
    <3> QED BY <2>1 DEF TypeInv
  <2> QED BY <2>1, <2>2, <2>3 DEF TypeInv, ReceiverTypeOK
<1> QED BY <1>1 DEF IInv, WorkerInv, TypeOK

LEMMA LimitsFollow == IInv => OneBeyondAtMost
<1> SUFFICES ASSUME IInv PROVE OneBeyondAtMost
  OBVIOUS
<1>1. WithinLimits
  BY ResultIs DEF IInv
<1>2. \A len \in 0..LimitLine - 1 : len <= LimitLine - 2 + 1
  BY LimitsAre
<1> QED BY <1>1, <1>2 DEF WithinLimits, OneBeyondAtMost

LEMMA LastFieldIs ==
  ASSUME StraightInv, status = "Ok"
  PROVE  /\ DOMAIN request.headers
              = {FieldName(Fields[i]) : i \in DOMAIN Fields}
         /\ \A name \in DOMAIN request.headers :
              request.headers[name] = LastField(name)
<1>1. PICK n, lines, fields, headers :
        /\ n = Len(peerRequest.lines) /\ lines = peerRequest.lines
        /\ fields = Fields /\ headers = request.headers
  OBVIOUS
<1>2. /\ peerRequest \in Requests /\ HasEmptyLine(peerRequest)
      /\ headerCount + 2 = n /\ headerCount \in Nat /\ headerCount > 0
      /\ LinesTaken(headerCount + 1)
  BY <1>1 DEF StraightInv, BodyPhase, TypeInv
<1>3. n \in Nat /\ headerCount + 1 = n - 1 /\ n > 2
  BY <1>2
<1>4. HeadersAre(headers, lines, n - 1)
  BY <1>1, <1>2, <1>3 DEF LinesTaken
<1>5. DOMAIN fields = 1..n - 2 /\ \A i \in 1..n - 2 : fields[i] = lines[i + 1]
  BY <1>1, <1>2, FieldsAre
<1>6. /\ \A i \in 1..n - 2 : i + 1 \in 2..n - 1
      /\ \A i \in 2..n - 1 : i - 1 \in 1..n - 2 /\ fields[i - 1] = lines[i]
  <2>1. \A i \in 2..n - 1 : i - 1 \in 1..n - 2 /\ (i - 1) + 1 = i
    BY <1>3
  <2> QED BY <1>3, <1>5, <2>1
<1>7. DOMAIN headers = {FieldName(fields[i]) : i \in DOMAIN fields}
  <2>1. DOMAIN headers = {FieldName(lines[i]) : i \in 2..n - 1}
    BY <1>4 DEF HeadersAre
  <2> HIDE DEF FieldName
  <2> QED BY <1>5, <1>6, <2>1
<1>8. ASSUME NEW name \in DOMAIN headers
      PROVE  headers[name] = fields[Max({i \in DOMAIN fields :
                                           FieldName(fields[i]) = name})]
  <2> DEFINE S == {i \in DOMAIN fields : FieldName(fields[i]) = name}
  <2>1. S \subseteq 0..n /\ S # {}
    BY <1>3, <1>5, <1>7, <1>8
  <2>2. PICK m : m = Max(S) /\ m \in S /\ \A i \in S : i <= m
    <3> HIDE DEF S
    <3> QED BY <1>3, <2>1, GreatestExists
  <2>3. m \in 1..n - 2 /\ FieldName(fields[m]) = name
        /\ m + 1 \in 2..n - 1 /\ fields[m] = lines[m + 1]
    BY <1>5, <1>6, <2>2
  <2>4. ASSUME NEW j \in (m + 1) + 1..n - 1
        PROVE  FieldName(lines[j]) # FieldName(lines[m + 1])
    <3>1. j \in 2..n - 1 /\ ~(j - 1 <= m)
      BY <1>3, <2>3
    <3>2. j - 1 \notin S /\ j - 1 \in DOMAIN fields
      BY <1>5, <1>6, <2>2, <3>1
    <3> QED BY <1>6, <2>3, <3>1, <3>2
  <2>5. headers[FieldName(lines[m + 1])] = lines[m + 1]
    <3> HIDE DEF FieldName
    <3> QED BY <1>4, <2>3, <2>4 DEF HeadersAre
  <2> QED BY <2>2, <2>3, <2>5
<1>9. \A name \in DOMAIN headers : headers[name] = LastField(name)
  BY <1>1, <1>8, Zenon DEF LastField
<1> QED BY <1>1, <1>7, <1>9, Zenon

LEMMA AcceptedFollows == IInv => AcceptedAsSent
<1> SUFFICES ASSUME StraightInv, status = "Ok" PROVE SentByPeer
  BY ResultIs DEF AcceptedAsSent, IInv
<1>1. /\ HasEmptyLine(peerRequest)
      /\ request.line = peerRequest.lines[1]
      /\ IsPrefix(request.body, peerRequest.rest)
  BY DEF StraightInv, BodyPhase, LinesTaken
<1>2. /\ DOMAIN request.headers = {FieldName(Fields[i]) : i \in DOMAIN Fields}
      /\ \A n \in DOMAIN request.headers : request.headers[n] = LastField(n)
  BY LastFieldIs
<1>3. Len(request.body) = IF contentLength = None THEN 0 ELSE contentLength
  BY DEF StraightInv, ResultInv
<1> QED BY <1>1, <1>2, <1>3, Zenon DEF SentByPeer

(* The body of a well-formed request is all that follows its empty line.   *)
LEMMA AnnouncedIs ==
  ASSUME StraightInv, status = "Ok", WellFormed
  PROVE  Len(request.body) = Len(peerRequest.rest)
<1>1. PICK n, lines, fields :
        /\ n = Len(peerRequest.lines) /\ lines = peerRequest.lines
        /\ fields = Fields
  OBVIOUS
<1>2. /\ peerRequest \in Requests /\ HasEmptyLine(peerRequest)
      /\ headerCount + 2 = n /\ headerCount \in Nat
      /\ LinesTaken(headerCount + 1)
  BY <1>1 DEF StraightInv, BodyPhase, TypeInv
<1>3. n \in Nat /\ headerCount + 1 = n - 1
  BY <1>2
<1>4. LengthIs(contentLength, lines, n - 1)
  BY <1>1, <1>2, <1>3 DEF LinesTaken
<1>5. DOMAIN fields = 1..n - 2 /\ \A i \in 1..n - 2 : fields[i] = lines[i + 1]
  BY <1>1, <1>2, FieldsAre
<1>6. PICK names : names = {fields[i][1] : i \in DOMAIN fields}
  OBVIOUS
<1>7. \A k : k \in names <=> \E i \in 2..n - 1 : k = lines[i][1]
  <2>1. \A i \in 1..n - 2 : i + 1 \in 2..n - 1
    BY <1>3
  <2>2. \A i \in 2..n - 1 : i - 1 \in 1..n - 2 /\ (i - 1) + 1 = i
    BY <1>3
  <2>3. \A i \in 2..n - 1 : fields[i - 1] = lines[i]
    BY <1>5, <2>2
  <2> QED BY <1>5, <1>6, <2>1, <2>2, <2>3
<1>8. Announced = {LengthOf[k] : k \in DOMAIN LengthOf \cap names}
  BY <1>1, <1>6, Zenon DEF Announced
<1>9. Len(request.body) = IF contentLength = None THEN 0 ELSE contentLength
  BY DEF StraightInv, ResultInv
<1>10. \/ Announced = {} /\ peerRequest.rest = <<>>
       \/ Announced = {Len(peerRequest.rest)}
  BY DEF WellFormed
<1>11. CASE contentLength = None
  <2>1. Announced = {}
    <3> HIDE DEF LengthOf
    <3> QED BY <1>4, <1>7, <1>8, <1>11 DEF LengthIs
  <2>2. peerRequest.rest = <<>>
    BY <1>10, <2>1, Zenon
  <2>3. Len(<<>>) = 0
    OBVIOUS
  <2> QED BY <1>9, <1>11, <2>2, <2>3, Zenon
<1>12. CASE contentLength # None
  <2>1. contentLength \in Announced
    <3> HIDE DEF LengthOf, None
    <3> QED BY <1>4, <1>7, <1>8, <1>12 DEF LengthIs
  <2> QED BY <1>9, <1>10, <1>12, <2>1, Zenon
<1> QED BY <1>11, <1>12

LEMMA AllReceived ==
  ASSUME StraightInv, status = "Ok", WellFormed PROVE Remaining = 0
<1>1. PICK n, body, rest, text :
        /\ n = Len(peerRequest.lines) /\ body = Len(request.body)
        /\ rest = Len(peerRequest.rest) /\ text = Len(Stream)
  OBVIOUS
<1>2. /\ peerRequest \in Requests /\ headerCount + 2 = n
      /\ m_buffer.current = End(peerRequest, headerCount + 2) + body
  BY <1>1 DEF StraightInv, BodyPhase, TypeInv
<1>3. body = rest
  BY <1>1, AnnouncedIs
<1>4. m_buffer.current = End(peerRequest, n) + rest
  BY <1>2, <1>3, Zenon
<1>5. text = End(peerRequest, n) + rest
  BY <1>1, <1>2, BytesAre, Zenon DEF Stream
<1>6. m_buffer \in Buffers /\ m_buffer.receive <= text
      /\ m_buffer.current <= m_buffer.receive
  BY <1>1 DEF StraightInv, BufferInv, Received, ResultInv, TypeInv
<1>7. m_buffer.current \in Int /\ m_buffer.receive \in Int
  BY <1>6, LimitsAre DEF Buffers
<1>8. m_buffer.receive = text /\ text \in Int
  BY <1>4, <1>5, <1>6, <1>7
<1>9. Remaining = text - m_buffer.receive
  BY <1>1, Zenon DEF Remaining
<1> QED BY <1>7, <1>8, <1>9

LEMMA AnswersFollow == IInv => AnsweredAsHandled
<1> SUFFICES ASSUME IInv, phase = "release" PROVE AnsweredAsHandled
  BY DEF AnsweredAsHandled
<1>1. /\ called = IF status = "Ok" THEN <<request>> ELSE <<>>
      /\ status # "Ok" => responseBody = <<>>
      /\ status = "Disconnected" => delivered = <<>>
      /\ status # "Disconnected" /\ ~short =>
           delivered = <<response>> \o responseBody
  BY DEF IInv, WorkerInv
<1>2. status = "PeerError" => response # "Ok"
  BY ResultIs DEF IInv
<1>3. status = "Ok" /\ WellFormed /\ ~stale => Remaining = 0
  BY AllReceived, ResultIs DEF IInv
<1> QED BY <1>1, <1>2, <1>3, Zenon DEF AnsweredAsHandled

LEMMA RefusalsFollow == IInv => RefusedForSplitEndOnly
<1> SUFFICES ASSUME IInv PROVE RefusedForSplitEndOnly
  OBVIOUS
<1>1. CASE stale
  BY <1>1 DEF RefusedForSplitEndOnly
<1>2. CASE ~stale
  BY <1>2, ResultIs DEF IInv, StraightInv
<1> QED BY <1>1, <1>2

(* Where a line end is taken before it came completely.                    *)
LEMMA LineEndReceived ==
  ASSUME StraightInv, NEW k, LooksBehind(k), HasNewline, NEW receive \in Nat,
         receive = m_buffer.receive, receive <= Searched.newline + 3,
         \/ receive < Searched.newline + 2
         \/ NewlineFollows(AfterLine(Searched))
  PROVE  receive > 0 /\ Stream[receive] \in {"CR", "LF"}
<1>1. /\ m_buffer \in Buffers /\ Searching(m_buffer)
      /\ Received(m_buffer, Stream) /\ SearchFinds(m_buffer, Searched)
      /\ Searched.newline # None
  BY SearchedIs DEF HasNewline
<1>2. PICK pos \in Nat :
        /\ pos = Searched.newline /\ pos < receive
        /\ m_buffer.bytes[pos] = "CR" /\ m_buffer.bytes[pos + 1] = "LF"
  BY <1>1 DEF SearchFinds, Buffers
<1>3. /\ AfterLine(Searched).bytes = m_buffer.bytes
      /\ AfterLine(Searched).current = pos + 2
  BY <1>1, <1>2, AfterLineIs
<1>4. NewlineFollows(AfterLine(Searched)) => m_buffer.bytes[pos + 2] = "CR"
  BY <1>3 DEF NewlineFollows
<1>5. receive \in {pos + 1, pos + 2, pos + 3}
      /\ (receive = pos + 3 => NewlineFollows(AfterLine(Searched)))
  BY <1>2
<1>6. m_buffer.bytes[receive - 1] \in {"CR", "LF"}
  <2>1. CASE receive = pos + 1
    <3>1. receive - 1 = pos
      BY <2>1
    <3> QED BY <1>2, <3>1
  <2>2. CASE receive = pos + 2
    <3>1. receive - 1 = pos + 1
      BY <2>2
    <3> QED BY <1>2, <3>1
  <2>3. CASE receive = pos + 3
    <3>1. receive - 1 = pos + 2
      BY <2>3
    <3> QED BY <1>4, <1>5, <2>3, <3>1
  <2> QED BY <1>5, <2>1, <2>2, <2>3
<1>7. receive - 1 \in 0..receive - 1 /\ receive > 0 /\ (receive - 1) + 1 = receive
  BY <1>2
<1>8. Stream[receive] = m_buffer.bytes[receive - 1]
  BY <1>1, <1>7 DEF Received
<1> QED BY <1>6, <1>7, <1>8

LEMMA TurnsStaleAtLineEnd ==
  ASSUME StraightInv, stale', RequestLineAccepted \/ HeaderAccepted
  PROVE  m_buffer.receive > 0 /\ Stream[m_buffer.receive] \in {"CR", "LF"}
<1>1. PICK k : LooksBehind(k) /\ HasNewline
  BY Zenon DEF RequestLineAccepted, HeaderAccepted, HeaderParse, Parse,
               LooksBehind, HeaderIsAccepted, Found
<1>2. /\ m_buffer \in Buffers /\ Searching(m_buffer)
      /\ SearchFinds(m_buffer, Searched) /\ Searched.newline # None
  BY <1>1, SearchedIs DEF HasNewline
<1>3. PICK next : /\ next = AfterLine(Searched)
                  /\ next.receive = m_buffer.receive
                  /\ next.current = Searched.newline + 2
  BY <1>2, AfterLineIs
<1>4. m_buffer.receive \in Nat /\ Searched.newline \in Nat
      /\ Searched.newline < m_buffer.receive /\ next \in Buffers
  BY <1>2, <1>3, AfterLineIs DEF Searching, SearchFinds, Buffers
<1>5. \/ next.current > next.receive
      \/ NewlineFollows(next)
         /\ AfterNewline(next).current > AfterNewline(next).receive
  BY <1>3, Zenon DEF RequestLineAccepted, HeaderAccepted, Advances,
                     StraightInv
<1>6. /\ AfterNewline(next).current = Searched.newline + 4
      /\ AfterNewline(next).receive = m_buffer.receive
  BY <1>3, <1>4 DEF AfterNewline, Buffers
<1>7. /\ m_buffer.receive <= Searched.newline + 3
      /\ m_buffer.receive < Searched.newline + 2 \/ NewlineFollows(next)
  BY <1>3, <1>4, <1>5, <1>6
<1> QED BY <1>1, <1>3, <1>4, <1>7, LineEndReceived

LEMMA StaleFollows ==
  ASSUME IInv, [Next]_vars, ~stale, stale'
  PROVE  m_buffer.receive > 0 /\ Stream[m_buffer.receive] \in {"CR", "LF"}
<1>1. StraightInv
  BY ResultIs DEF IInv
<1>2. ASSUME UNCHANGED requestVars PROVE FALSE
  BY <1>2, Zenon DEF requestVars
<1>3. RequestLineAccepted \/ HeaderAccepted
  <2>1. CASE Receive
    <3>1. ReceiverStep
      BY <2>1 DEF Receive
    <3>2. ~NoBody /\ ~Undefined /\ ~ReceiveNothing
          /\ ~(\E n \in 1..BufferSize : ReceiveSome(n))
      BY <1>2, Zenon DEF NoBody, Undefined, ReceiveNothing, ReceiveSome
    <3>3. ~RequestLineIncomplete /\ ~RequestLineRefused /\ ~TooManyHeaders
          /\ ~HeaderIncomplete /\ ~HeaderRefused
      BY <1>2, Zenon DEF RequestLineIncomplete, RequestLineRefused,
                         TooManyHeaders, HeaderIncomplete, HeaderRefused
    <3>4. ~ReadBody
      BY Zenon DEF ReadBody
    <3> QED BY <3>1, <3>2, <3>3, <3>4, Zenon DEF ReceiverStep
  <2>2. ~FailReceive /\ ~ClosePeer /\ ~CallBack /\ ~NoCallback
    BY <1>2, Zenon DEF FailReceive, ReceiveError, ClosePeer, PeerCloses,
                       CallBack, NoCallback, Returned
  <2>3. ~SendStart /\ ~SendBody /\ ~Terminate /\ ~(UNCHANGED vars)
    BY <1>2, Zenon DEF SendStart, SendBody, Send, Terminate, vars,
                       receiverVars
  <2>4. ~Release /\ ~(\E r \in Requests : Execute(r))
    BY Zenon DEF Release, Execute, Begin
  <2> QED BY <2>1, <2>2, <2>3, <2>4, Zenon DEF Next, WorkerStep
<1> QED BY <1>1, <1>3, TurnsStaleAtLineEnd

-----------------------------------------------------------------------------
(* The theorems.                                                           *)

(* A receiver's pointers stay in its buffer, and its members in their      *)
(* types.                                                                  *)
THEOREM TypeCorrect == Spec => []TypeOK
<1> QED BY Invariance, TypesFollow, PTL

(* receive() takes at most one byte and one header field more than the     *)
(* documented limits, whatever bytes it takes for a line.                  *)
THEOREM LimitsAreKept == Spec => []OneBeyondAtMost
<1> QED BY Invariance, LimitsFollow, PTL

(* A request that receive() accepts is the one its peer has sent, whatever *)
(* the segments, when every line end had come before it was taken.         *)
THEOREM AcceptedIsSent == Spec => []AcceptedAsSent
<1> QED BY Invariance, AcceptedFollows, PTL

(* receive() refuses a well-formed request only where a segment has ended  *)
(* right behind the last header field or inside the empty line, or where   *)
(* bytes of an earlier request were taken for a line end.                  *)
THEOREM RefusalsExplained == Spec => []RefusedForSplitEndOnly
<1> QED BY Invariance, RefusalsFollow, PTL

(* findNewline() and readNewline() take bytes of an earlier request for a  *)
(* line end only when what was received ends with a carriage return or with*)
(* a line feed.                                                            *)
THEOREM StaleOnlyAtLineEnd == Spec => EarlierBytesOnlyAtLineEnd
<1> DEFINE AtLineEnd ==
      ~stale /\ stale' =>
        m_buffer.receive > 0 /\ Stream[m_buffer.receive] \in {"CR", "LF"}
<1>1. IInv /\ [Next]_vars => [AtLineEnd]_receiverVars
  BY StaleFollows, Zenon
<1> QED BY <1>1, Invariance, PTL DEF Spec, EarlierBytesOnlyAtLineEnd

(* execute() hands over what receive() has accepted and answers every      *)
(* other request as it was refused; and it closes the connection of an     *)
(* accepted well-formed request when everything was received, unless bytes *)
(* of an earlier request were taken for a line end.                        *)
THEOREM EveryAnswerFits == Spec => []AnsweredAsHandled
<1> QED BY Invariance, AnswersFollow, PTL

-----------------------------------------------------------------------------
(* The checked specification: a worker, or a program that calls a buffer.  *)

Buffer == INSTANCE BufferProofs WITH
            BufferSize <- CallsBufferSize, buffer <- callBuffer

LEMMA CallsFit == Buffer!BufferAssumption
BY CallsAssumption DEF Buffer!BufferAssumption, Buffer!Byte

(* Calls and Buffer are two instances of the same definitions.             *)
LEMMA SameInit == Calls!Init => Buffer!Init
BY Zenon DEF Calls!Init, Buffer!Init, Calls!Reset, Buffer!Reset, Calls!None,
         Buffer!None

LEMMA SameNext == Calls!Next => Buffer!Next
BY Zenon DEF Calls!Next, Buffer!Next, Calls!Call, Buffer!Call, Calls!Receive,
         Buffer!Receive, Calls!ReadLine, Buffer!ReadLine,
         Calls!RegexSearch, Buffer!RegexSearch, Calls!ReadNewline,
         Buffer!ReadNewline, Calls!ReadAll, Buffer!ReadAll,
         Calls!ResetBuffer, Buffer!ResetBuffer, Calls!ReceiveRefused,
         Buffer!ReceiveRefused, Calls!ReceiveText, Buffer!ReceiveText,
         Calls!ReceiveAstray, Buffer!ReceiveAstray, Calls!Search,
         Buffer!Search, Calls!TooLong, Buffer!TooLong, Calls!Sought,
         Buffer!Sought, Calls!NewlineFollows, Buffer!NewlineFollows,
         Calls!Returns, Buffer!Returns, Calls!GoesAstray,
         Buffer!GoesAstray, Calls!AfterNewline, Buffer!AfterNewline,
         Calls!Consumes, Buffer!Consumes, Calls!AfterAll,
         Buffer!AfterAll, Calls!Unread, Buffer!Unread, Calls!Reset,
         Buffer!Reset, Calls!None, Buffer!None, Calls!Fits,
         Buffer!Fits, Calls!MoveOverlaps, Buffer!MoveOverlaps,
         Calls!PointerLeaves, Buffer!PointerLeaves, Calls!Put,
         Buffer!Put, Calls!MakeSpace, Buffer!MakeSpace,
         Calls!SearchAstray, Buffer!SearchAstray, Calls!SearchStale,
         Buffer!SearchStale, Calls!LineMissing, Buffer!LineMissing,
         Calls!Leaves, Buffer!Leaves, Calls!ReachedMaxLength,
         Buffer!ReachedMaxLength, Calls!Takes, Buffer!Takes,
         Calls!FindNewline, Buffer!FindNewline, Calls!Text,
         Buffer!Text, Calls!FreeSpace, Buffer!FreeSpace, Calls!Moves,
         Buffer!Moves, Calls!Moved, Buffer!Moved,
         Calls!SearchIsUndefined, Buffer!SearchIsUndefined,
         Calls!Mixes, Buffer!Mixes, Calls!EndIsStale,
         Buffer!EndIsStale, Calls!Searches, Buffer!Searches,
         Calls!UseMaxLength, Buffer!UseMaxLength,
         Calls!CarriageReturns, Buffer!CarriageReturns,
         Calls!AfterLine, Buffer!AfterLine, Calls!Line, Buffer!Line,
         Calls!FoundPos, Buffer!FoundPos, Calls!MovesAlong,
         Buffer!MovesAlong, Calls!FindFrom, Buffer!FindFrom,
         Calls!FindTo, Buffer!FindTo, Calls!Min, Buffer!Min

LEMMA SameTypes == Buffer!TypeOK => Calls!TypeOK
BY Zenon DEF Buffer!TypeOK, Calls!TypeOK, Buffer!None, Calls!None

LEMMA SameQueue == Buffer!IsByteQueue => IsByteQueue
<1> USE DEF Calls!InUse, Buffer!InUse, Calls!Unread, Buffer!Unread,
            Calls!Text, Buffer!Text
<1>1. Buffer!ByteQueueOf!Init => Calls!ByteQueueOf!Init
  BY Zenon DEF Buffer!ByteQueueOf!Init, Calls!ByteQueueOf!Init
<1>2. UNCHANGED Buffer!ByteQueueOf!vars => UNCHANGED Calls!ByteQueueOf!vars
  BY Zenon DEF Buffer!ByteQueueOf!vars, Calls!ByteQueueOf!vars
<1>3. Buffer!ByteQueueOf!Next => Calls!ByteQueueOf!Next
  BY Zenon DEF Calls!ByteQueueOf!Next, Buffer!ByteQueueOf!Next,
           Calls!ByteQueueOf!Receive, Buffer!ByteQueueOf!Receive,
           Calls!ByteQueueOf!Returns, Buffer!ByteQueueOf!Returns,
           Calls!ByteQueueOf!Drop, Buffer!ByteQueueOf!Drop,
           Calls!ByteQueueOf!CarriageReturns,
           Buffer!ByteQueueOf!CarriageReturns,
           Calls!ByteQueueOf!LineLength,
           Buffer!ByteQueueOf!LineLength,
           Calls!ByteQueueOf!EndsLine,
           Buffer!ByteQueueOf!EndsLine, Calls!ByteQueueOf!Within,
           Buffer!ByteQueueOf!Within, Calls!ByteQueueOf!Beyond,
           Buffer!ByteQueueOf!Beyond, Calls!ByteQueueOf!TakeLine,
           Buffer!ByteQueueOf!TakeLine,
           Calls!ByteQueueOf!ReadLine,
           Buffer!ByteQueueOf!ReadLine,
           Calls!ByteQueueOf!ReadNewline,
           Buffer!ByteQueueOf!ReadNewline,
           Calls!ByteQueueOf!ReadAll, Buffer!ByteQueueOf!ReadAll,
           Calls!ByteQueueOf!Reset, Buffer!ByteQueueOf!Reset,
           Calls!ByteQueueOf!Min, Buffer!ByteQueueOf!Min
<1>4. [Buffer!ByteQueueOf!Next]_(Buffer!ByteQueueOf!vars)
        => [Calls!ByteQueueOf!Next]_(Calls!ByteQueueOf!vars)
  BY <1>2, <1>3
<1> QED BY <1>1, <1>4, PTL
        DEF Buffer!IsByteQueue, IsByteQueue, Calls!IsByteQueue,
            Buffer!ByteQueueOf!Spec, Calls!ByteQueueOf!Spec

LEMMA WorkerIsChecked == MCSpec => Spec
<1>1. MCInit => Init
  BY DEF MCInit
<1>2. [MCNext]_<<vars, user, callVars>> => [Next]_vars
  BY DEF MCNext, ByWorker, ByProgram
<1> QED BY <1>1, <1>2, PTL DEF MCSpec, Spec

LEMMA ProgramIsChecked == MCSpec => Buffer!Spec
<1>1. MCInit => Buffer!Init
  BY SameInit DEF MCInit
<1>2. UNCHANGED callVars => UNCHANGED Buffer!vars
  BY Zenon DEF callVars, Buffer!vars
<1>3. [MCNext]_<<vars, user, callVars>> => [Buffer!Next]_(Buffer!vars)
  BY SameNext, <1>2 DEF MCNext, ByWorker, ByProgram
<1> QED BY <1>1, <1>3, PTL DEF MCSpec, Buffer!Spec

(* The pointers of a worker's receiver and of a program's buffer stay in   *)
(* them, in every behaviour of the checked specification.                  *)
THEOREM TypesCorrect == MCSpec => []TypesOK
<1>1. Buffer!Spec => []Buffer!TypeOK
  BY CallsFit, Buffer!TypeCorrect
<1>2. Buffer!TypeOK /\ TypeOK => TypesOK
  BY SameTypes DEF TypesOK
<1> QED BY <1>1, <1>2, WorkerIsChecked, TypeCorrect, ProgramIsChecked, PTL

(* A search goes astray only where a program has mixed its calls.          *)
THEOREM OnlyMixedSearchesFail == MCSpec => []OnlyMixedSearchesGoAstray
<1>1. Buffer!Spec => []Buffer!OnlyMixedSearchesGoAstray
  BY CallsFit, Buffer!SearchesStayOnTrack
<1>2. Buffer!OnlyMixedSearchesGoAstray => OnlyMixedSearchesGoAstray
  BY DEF Buffer!OnlyMixedSearchesGoAstray, OnlyMixedSearchesGoAstray,
         Calls!OnlyMixedSearchesGoAstray
<1> QED BY <1>1, <1>2, ProgramIsChecked, PTL

(* What a program reads from its buffer is what it has put in, in order    *)
(* and once, until the buffer goes astray.                                 *)
THEOREM BufferIsAQueue == MCSpec => IsByteQueue
<1>1. Buffer!Spec => Buffer!IsByteQueue
  BY CallsFit, Buffer!Implements
<1> QED BY <1>1, ProgramIsChecked, SameQueue, PTL

=============================================================================
