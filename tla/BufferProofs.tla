---------------------------- MODULE BufferProofs ----------------------------
(* Theorems about BufferCalls: a buffer of any size, whatever may be       *)
(* received, whatever limits are searched with.                            *)
EXTENDS BufferCalls, FiniteSetTheorems, SequenceTheorems, TLAPS

Byte == {"CR", "LF", "x"}

BufferAssumption ==
  BufferSize \in Nat /\ Texts \subseteq Seq(Byte) /\ Limits \subseteq Nat

Buffers ==
  [bytes    : [0..BufferSize -> Byte],
   receive  : 0..BufferSize,
   current  : 0..BufferSize,
   newline  : {None} \cup 0..BufferSize,
   lastFind : {None} \cup 0..BufferSize]

NoReturnBefore(b, end) == \A i \in b.current..end - 1 : b.bytes[i] # "CR"

(* What the two remembered pointers say of the unread bytes.  Either may   *)
(* be behind the reading position by now.                                  *)
LastSearch(b) ==
  b.lastFind # None =>
    /\ b.newline = None /\ b.lastFind <= b.receive
    /\ NoReturnBefore(b, b.lastFind)

FoundEnd(b) ==
  b.newline # None =>
    /\ b.newline + 2 <= b.receive
    /\ b.bytes[b.newline] = "CR" /\ b.bytes[b.newline + 1] = "LF"
    /\ NoReturnBefore(b, b.newline)

BInv(b) ==
  b \in Buffers /\ b.current <= b.receive /\ LastSearch(b) /\ FoundEnd(b)

-----------------------------------------------------------------------------
(* Every set of naturals has a least element: of the intervals 0..x there  *)
(* is one that includes no other, since finite sets do not shrink forever. *)
LEMMA LeastExists ==
  ASSUME NEW S, S \subseteq Nat, S # {}
  PROVE  Min(S) \in S /\ \A y \in S : Min(S) <= y
<1> DEFINE Below == {0..x : x \in S}
<1>1. \A x \in S : IsFiniteSet(0..x) /\ 0..x \subseteq Nat
  BY FS_Interval
<1>2. Below \subseteq FiniteSubsetsOf(Nat) /\ Below # {}
  BY <1>1, Zenon DEF FiniteSubsetsOf
<1>3. PICK b \in Below : \A c \in Below :
        ~(<<c, b>> \in StrictSubsetOrdering(Nat))
  <2> HIDE DEF Below
  <2> QED BY <1>2, FS_StrictSubsetOrderingWellFounded, WFMin
<1>4. PICK x \in S : b = 0..x
  OBVIOUS
<1>5. ASSUME NEW y \in S PROVE x <= y
  <2>1. ~(<<0..y, 0..x>> \in StrictSubsetOrdering(Nat))
    BY <1>3, <1>4
  <2>2. ~(0..y \subseteq 0..x /\ 0..y # 0..x)
    BY <2>1, <1>1 DEF StrictSubsetOrdering
  <2>3. x \in Nat /\ y \in Nat
    OBVIOUS
  <2>4. y < x => 0..y \subseteq 0..x /\ x \in 0..x /\ x \notin 0..y
    BY <2>3
  <2> QED BY <2>2, <2>3, <2>4
<1> QED BY <1>5 DEF Min

LEMMA TextProperties ==
  ASSUME BufferSize \in Nat, NEW b \in Buffers,
         NEW from \in 0..BufferSize, NEW to \in from..BufferSize
  PROVE  /\ Text(b, from, to) \in Seq(Byte)
         /\ Len(Text(b, from, to)) = to - from
         /\ \A i \in 1..to - from :
              Text(b, from, to)[i] = b.bytes[from + i - 1]
<1>1. \A i \in 1..to - from : b.bytes[from + i - 1] \in Byte
  BY DEF Buffers
<1> QED BY <1>1 DEF Text

LEMMA UnreadProperties ==
  ASSUME BufferSize \in Nat, NEW b \in Buffers, b.current <= b.receive
  PROVE  /\ Unread(b) \in Seq(Byte)
         /\ Len(Unread(b)) = b.receive - b.current
         /\ \A i \in 1..b.receive - b.current :
              Unread(b)[i] = b.bytes[b.current + i - 1]
<1>1. b.current \in 0..BufferSize /\ b.receive \in b.current..BufferSize
  BY DEF Buffers
<1> QED BY <1>1, TextProperties DEF Unread

-----------------------------------------------------------------------------
(* Receiving: making space keeps what is unread, and a text is put behind  *)
(* it.                                                                     *)

LEMMA MakeSpaceKeeps ==
  ASSUME BufferSize \in Nat, NEW b, BInv(b), NEW n \in Nat, Fits(b, n),
         ~PointerLeaves(b, n)
  PROVE  /\ BInv(MakeSpace(b, n))
         /\ Unread(MakeSpace(b, n)) = Unread(b)
         /\ n <= FreeSpace(MakeSpace(b, n))
<1>1. CASE n <= FreeSpace(b)
  BY <1>1 DEF MakeSpace
<1>2. CASE n > FreeSpace(b)
  <2> DEFINE m == Moved(b)
  <2>1. MakeSpace(b, n) = m /\ Moves(b, n)
    BY <1>2 DEF MakeSpace, Moves, BInv, Buffers, FreeSpace
  <2>2. b \in Buffers /\ b.current <= b.receive
    BY DEF BInv
  <2>3. /\ m.current = 0 /\ m.receive = b.receive - b.current
        /\ m.bytes = [i \in 0..BufferSize |->
                        IF i < b.receive - b.current
                          THEN b.bytes[i + b.current] ELSE b.bytes[i]]
        /\ m.newline = IF b.newline = None THEN None ELSE b.newline - b.current
        /\ m.lastFind =
             IF b.lastFind = None THEN None ELSE b.lastFind - b.current
    BY DEF Moved, MovesAlong
  <2>4. /\ b.newline # None => b.newline >= b.current
        /\ b.lastFind # None => b.lastFind >= b.current
    BY <2>1, <2>2 DEF PointerLeaves, Buffers, None
  <2>5. m \in Buffers
    <3>1. m.bytes \in [0..BufferSize -> Byte]
      BY <2>2, <2>3 DEF Buffers
    <3>2. m.receive \in 0..BufferSize /\ m.current \in 0..BufferSize
      BY <2>2, <2>3 DEF Buffers
    <3>3. /\ m.newline \in {None} \cup 0..BufferSize
          /\ m.lastFind \in {None} \cup 0..BufferSize
      BY <2>2, <2>3, <2>4 DEF Buffers, None
    <3> QED BY <3>1, <3>2, <3>3 DEF Buffers, Moved
  <2>6. \A i \in 0..b.receive - b.current - 1 :
          m.bytes[i] = b.bytes[i + b.current]
    BY <2>2, <2>3 DEF Buffers
  <2> HIDE DEF m
  <2>7. ASSUME NEW end \in b.current..b.receive, NoReturnBefore(b, end)
        PROVE  NoReturnBefore(m, end - b.current)
    <3>1. ASSUME NEW i \in 0..end - b.current - 1
          PROVE  m.bytes[i] # "CR"
      <4>1. /\ i \in 0..b.receive - b.current - 1
            /\ i + b.current \in b.current..end - 1
        BY <2>2 DEF Buffers
      <4> QED BY <4>1, <2>6, <2>7 DEF NoReturnBefore
    <3> QED BY <3>1, <2>3 DEF NoReturnBefore
  <2>8. LastSearch(m)
    BY <2>2, <2>3, <2>4, <2>7 DEF BInv, LastSearch, Buffers, None
  <2>9. FoundEnd(m)
    <3> SUFFICES ASSUME b.newline # None
                 PROVE  /\ m.newline + 2 <= m.receive
                        /\ m.bytes[m.newline] = "CR"
                        /\ m.bytes[m.newline + 1] = "LF"
                        /\ NoReturnBefore(m, m.newline)
      BY <2>3 DEF FoundEnd
    <3>1. /\ b.newline \in b.current..b.receive
          /\ b.newline + 2 <= b.receive
          /\ m.newline = b.newline - b.current
      BY <2>2, <2>3, <2>4 DEF BInv, FoundEnd, Buffers, None
    <3>2. /\ m.bytes[m.newline] = b.bytes[b.newline]
          /\ m.bytes[m.newline + 1] = b.bytes[b.newline + 1]
      <4>1. /\ m.newline \in 0..b.receive - b.current - 1
            /\ m.newline + 1 \in 0..b.receive - b.current - 1
            /\ m.newline + b.current = b.newline
            /\ m.newline + 1 + b.current = b.newline + 1
        BY <2>2, <3>1 DEF Buffers
      <4> QED BY <4>1, <2>6
    <3>3. m.newline + 2 <= m.receive
      BY <2>2, <2>3, <3>1 DEF Buffers
    <3>4. /\ b.bytes[b.newline] = "CR" /\ b.bytes[b.newline + 1] = "LF"
          /\ NoReturnBefore(b, b.newline)
      BY DEF BInv, FoundEnd
    <3> QED BY <2>7, <3>1, <3>2, <3>3, <3>4
  <2>10. Unread(m) = Unread(b)
    <3>1. /\ Unread(b) \in Seq(Byte)
          /\ Len(Unread(b)) = b.receive - b.current
          /\ \A i \in 1..b.receive - b.current :
               Unread(b)[i] = b.bytes[b.current + i - 1]
      BY <2>2, UnreadProperties
    <3>2. m.current <= m.receive /\ m.receive - m.current = Len(Unread(b))
      BY <2>2, <2>3, <3>1 DEF Buffers
    <3>3. /\ Unread(m) \in Seq(Byte) /\ Len(Unread(m)) = Len(Unread(b))
          /\ \A i \in 1..Len(Unread(b)) : Unread(m)[i] = m.bytes[i - 1]
      <4>1. /\ Unread(m) \in Seq(Byte) /\ Len(Unread(m)) = Len(Unread(b))
            /\ \A i \in 1..Len(Unread(b)) :
                 Unread(m)[i] = m.bytes[m.current + i - 1]
        BY <2>5, <3>2, UnreadProperties
      <4>2. Len(Unread(b)) \in Nat /\ \A i \in Nat : m.current + i - 1 = i - 1
        BY <2>3, <3>1
      <4> QED BY <4>1, <4>2
    <3>4. ASSUME NEW i \in 1..Len(Unread(b))
          PROVE  Unread(m)[i] = Unread(b)[i]
      <4>1. i - 1 \in 0..b.receive - b.current - 1
              /\ i - 1 + b.current = b.current + i - 1
        BY <2>2, <3>1 DEF Buffers
      <4> QED BY <4>1, <3>1, <3>3, <2>6
    <3> QED BY <3>1, <3>3, <3>4, SeqEqual
  <2> QED
    BY <2>1, <2>2, <2>3, <2>5, <2>8, <2>9, <2>10
       DEF BInv, Fits, FreeSpace, Buffers
<1> QED BY <1>1, <1>2 DEF FreeSpace, BInv, Buffers

LEMMA PutAppends ==
  ASSUME BufferSize \in Nat, NEW b, BInv(b), NEW text \in Seq(Byte),
         Len(text) <= FreeSpace(b)
  PROVE  BInv(Put(b, text)) /\ Unread(Put(b, text)) = Unread(b) \o text
<1> DEFINE p == Put(b, text)
<1>1. b \in Buffers /\ b.current <= b.receive /\ Len(text) \in Nat
  BY DEF BInv
<1>2. /\ p.current = b.current /\ p.receive = b.receive + Len(text)
      /\ p.newline = b.newline /\ p.lastFind = b.lastFind
      /\ p.bytes = [i \in 0..BufferSize |->
                      IF b.receive <= i /\ i < b.receive + Len(text)
                        THEN text[i - b.receive + 1] ELSE b.bytes[i]]
  BY <1>1 DEF Put, Buffers
<1>3. p \in Buffers
  <2>1. ASSUME NEW i \in 0..BufferSize,
               b.receive <= i, i < b.receive + Len(text)
        PROVE  text[i - b.receive + 1] \in Byte
    BY <1>1, <2>1, ElementOfSeq DEF Buffers
  <2>2. p.bytes \in [0..BufferSize -> Byte]
    BY <1>1, <1>2, <2>1 DEF Buffers
  <2>3. p.receive \in 0..BufferSize
    BY <1>1, <1>2 DEF Buffers, FreeSpace
  <2> QED BY <1>1, <1>2, <2>2, <2>3 DEF Put, Buffers
<1>4. /\ \A i \in 0..b.receive - 1 : p.bytes[i] = b.bytes[i]
      /\ \A i \in 1..Len(text) : p.bytes[b.receive + i - 1] = text[i]
  BY <1>1, <1>2, <1>3 DEF Buffers
<1> HIDE DEF p
<1>5. LastSearch(p) /\ FoundEnd(p)
  <2>1. ASSUME NEW end \in 0..b.receive, NoReturnBefore(b, end)
        PROVE  NoReturnBefore(p, end)
    BY <1>1, <1>2, <1>4, <2>1 DEF NoReturnBefore, Buffers
  <2>2. LastSearch(p)
    BY <1>1, <1>2, <2>1 DEF BInv, LastSearch, Buffers, None
  <2>3. FoundEnd(p)
    <3>1. ASSUME b.newline # None
          PROVE  /\ b.newline \in 0..b.receive - 1
                 /\ b.newline + 1 \in 0..b.receive - 1
                 /\ b.newline \in 0..b.receive
                 /\ b.newline + 2 <= p.receive
      BY <1>1, <1>2, <3>1 DEF BInv, FoundEnd, Buffers, None
    <3> QED BY <1>2, <1>4, <2>1, <3>1 DEF BInv, FoundEnd
  <2> QED BY <2>2, <2>3
<1>6. Unread(p) = Unread(b) \o text
  <2> DEFINE n == Len(Unread(b))
  <2>1. /\ Unread(b) \in Seq(Byte) /\ n = b.receive - b.current /\ n \in Nat
        /\ \A i \in 1..n : Unread(b)[i] = b.bytes[b.current + i - 1]
    BY <1>1, UnreadProperties DEF Buffers
  <2>2. /\ p.current <= p.receive
        /\ p.receive - p.current = n + Len(text)
    BY <1>1, <1>2, <2>1 DEF Buffers
  <2>3. /\ Unread(p) \in Seq(Byte) /\ Len(Unread(p)) = n + Len(text)
        /\ \A i \in 1..n + Len(text) :
             Unread(p)[i] = p.bytes[b.current + i - 1]
    BY <1>2, <1>3, <2>2, UnreadProperties
  <2>4. /\ Unread(b) \o text \in Seq(Byte)
        /\ Len(Unread(b) \o text) = n + Len(text)
        /\ \A i \in 1..n + Len(text) : (Unread(b) \o text)[i] =
             IF i <= n THEN Unread(b)[i] ELSE text[i - n]
    BY <2>1, ConcatProperties
  <2>5. ASSUME NEW i \in 1..n + Len(text)
        PROVE  Unread(p)[i] = (Unread(b) \o text)[i]
    <3> HIDE DEF n
    <3>1. CASE i <= n
      <4>1. b.current + i - 1 \in 0..b.receive - 1 /\ i \in 1..n
        BY <1>1, <2>1, <3>1 DEF Buffers
      <4> QED BY <4>1, <3>1, <2>1, <2>3, <2>4, <1>4
    <3>2. CASE ~(i <= n)
      <4>1. /\ i - n \in 1..Len(text)
            /\ b.current + i - 1 = b.receive + (i - n) - 1
        BY <1>1, <2>1, <3>2 DEF Buffers
      <4> QED BY <4>1, <3>2, <2>3, <2>4, <1>4
    <3> QED BY <3>1, <3>2
  <2> QED BY <2>3, <2>4, <2>5, SeqEqual
<1> QED BY <1>1, <1>2, <1>3, <1>5, <1>6 DEF BInv, Buffers, p

-----------------------------------------------------------------------------
(* Searching.                                                              *)

LEMMA SearchStops ==
  ASSUME BufferSize \in Nat, NEW b, BInv(b), NEW max \in Nat,
         b.newline = None, ~SearchIsUndefined(b, max)
  PROVE  /\ FindTo(b, max) \in b.current..b.receive
         /\ FoundPos(b, max) \in b.current..FindTo(b, max)
         /\ NoReturnBefore(b, FoundPos(b, max))
         /\ CarriageReturns(b, max) = {} =>
              FoundPos(b, max) = FindTo(b, max)
         /\ CarriageReturns(b, max) # {} =>
              /\ FoundPos(b, max) < FindTo(b, max)
              /\ b.bytes[FoundPos(b, max)] = "CR"
<1> DEFINE S == CarriageReturns(b, max)
           from == FindFrom(b)
           to == FindTo(b, max)
           pos == FoundPos(b, max)
<1>1. b \in Buffers /\ b.current <= b.receive
  BY DEF BInv
<1>2. to \in b.current..b.receive
  BY <1>1 DEF FindTo, UseMaxLength, Buffers
<1>3. from \in Nat /\ from <= to /\ b.current <= pos
  <2>1. from \in Nat
    BY <1>1 DEF FindFrom, Buffers, None
  <2>2. ~(from > to) /\ ~(pos < b.current)
    BY DEF SearchIsUndefined
  <2>3. pos \in Int
    <3>1. CASE S = {}
      BY <1>1, <1>2, <3>1 DEF FoundPos, Buffers
    <3>2. CASE S # {}
      <4>1. S \subseteq Nat
        BY <1>1, <1>2, <2>1 DEF CarriageReturns, Buffers
      <4> QED BY <3>2, <4>1, LeastExists DEF FoundPos
    <3> QED BY <3>1, <3>2
  <2> HIDE DEF from, to, pos
  <2> QED BY <1>1, <1>2, <2>1, <2>2, <2>3 DEF Buffers
<1>4. S = {i \in from..to - 1 : b.bytes[i] = "CR"}
  <2>1. S = {i \in from..to - 1 : i < BufferSize /\ b.bytes[i] = "CR"}
    BY DEF CarriageReturns
  <2>2. \A i \in from..to - 1 : i < BufferSize
    <3> HIDE DEF from, to
    <3> QED BY <1>1, <1>2, <1>3 DEF Buffers
  <2> QED BY <2>1, <2>2
<1>5. \A i \in b.current..from - 1 : b.bytes[i] # "CR"
  BY <1>1 DEF BInv, LastSearch, NoReturnBefore, FindFrom, Buffers, None
<1>6. CASE S = {}
  <2>1. pos = to
    BY <1>6 DEF FoundPos
  <2>2. \A i \in b.current..to - 1 : b.bytes[i] # "CR"
    <3> HIDE DEF S, from, to, pos
    <3> QED BY <1>1, <1>2, <1>3, <1>4, <1>5, <1>6 DEF Buffers
  <2> QED BY <1>2, <1>3, <1>6, <2>1, <2>2 DEF NoReturnBefore
<1>7. CASE S # {}
  <2>1. S \subseteq Nat
    <3> HIDE DEF S, from, to, pos
    <3> QED BY <1>1, <1>2, <1>3, <1>4 DEF Buffers
  <2>2. pos \in S /\ \A i \in S : pos <= i
    BY <1>7, <2>1, LeastExists DEF FoundPos
  <2> HIDE DEF S, from, to, pos
  <2>3. pos \in from..to - 1 /\ b.bytes[pos] = "CR"
    BY <1>4, <2>2
  <2>4. pos \in b.current..to /\ pos < to
    BY <1>1, <1>2, <1>3, <2>3 DEF Buffers
  <2>5. ASSUME NEW i \in b.current..pos - 1 PROVE b.bytes[i] # "CR"
    <3>1. i \notin S
      BY <1>1, <2>1, <2>2, <2>4 DEF Buffers
    <3>2. i \in b.current..from - 1 \/ i \in from..to - 1
      BY <1>1, <1>2, <1>3, <2>3 DEF Buffers
    <3> QED BY <1>4, <1>5, <3>1, <3>2
  <2> QED
    BY <1>2, <1>7, <2>3, <2>4, <2>5 DEF NoReturnBefore, S, to, pos
<1> QED BY <1>6, <1>7

(* A search changes nothing but the two pointers, and unless it has taken  *)
(* a byte that was never received for a line feed they tell the truth.     *)
LEMMA SearchKeeps ==
  ASSUME BufferSize \in Nat, NEW b, BInv(b), NEW max \in Nat,
         ~SearchIsUndefined(b, max)
  PROVE  /\ FindNewline(b, max) \in Buffers
         /\ FindNewline(b, max).bytes = b.bytes
         /\ FindNewline(b, max).receive = b.receive
         /\ FindNewline(b, max).current = b.current
         /\ ~EndIsStale(FindNewline(b, max)) => BInv(FindNewline(b, max))
         /\ FindNewline(b, max).newline # None =>
              b.current <= FindNewline(b, max).newline
<1> DEFINE c == FindNewline(b, max)
           pos == FoundPos(b, max)
<1>1. b \in Buffers /\ b.current <= b.receive
  BY DEF BInv
<1>2. CASE b.newline # None
  <2>1. c = b /\ ~(b.newline < b.current)
    BY <1>2 DEF FindNewline, SearchIsUndefined
  <2> QED BY <1>1, <1>2, <2>1 DEF Buffers, None
<1>3. CASE b.newline = None
  <2>1. /\ pos \in b.current..b.receive
        /\ NoReturnBefore(b, pos)
        /\ CarriageReturns(b, max) # {} =>
              pos < b.receive /\ b.bytes[pos] = "CR"
    <3> HIDE DEF pos
    <3>1. /\ FindTo(b, max) \in b.current..b.receive
          /\ pos \in b.current..FindTo(b, max)
          /\ NoReturnBefore(b, pos)
          /\ CarriageReturns(b, max) # {} =>
                pos < FindTo(b, max) /\ b.bytes[pos] = "CR"
      BY <1>3, SearchStops DEF pos
    <3> QED BY <1>1, <3>1 DEF Buffers
  <2>2. CASE CarriageReturns(b, max) # {} /\ b.bytes[pos + 1] = "LF"
    <3>1. c = [b EXCEPT !.newline = pos, !.lastFind = None]
      BY <1>3, <2>2 DEF FindNewline
    <3> HIDE DEF c, pos
    <3>2. /\ c.bytes = b.bytes /\ c.receive = b.receive
          /\ c.current = b.current /\ c.newline = pos /\ c.lastFind = None
      BY <1>1, <3>1 DEF Buffers
    <3>3. c \in Buffers
      <4>1. pos \in 0..BufferSize
        BY <1>1, <2>1 DEF Buffers
      <4> QED BY <1>1, <3>1, <4>1 DEF Buffers
    <3>4. ~EndIsStale(c) => BInv(c)
      <4> SUFFICES ASSUME ~EndIsStale(c) PROVE BInv(c)
        OBVIOUS
      <4>1. c.newline # None /\ pos + 2 <= b.receive
        BY <1>1, <2>1, <3>2 DEF EndIsStale, Buffers, None
      <4>2. LastSearch(c) /\ FoundEnd(c)
        BY <2>1, <2>2, <3>2, <4>1 DEF LastSearch, FoundEnd, NoReturnBefore
      <4> QED BY <1>1, <3>2, <3>3, <4>2 DEF BInv
    <3> QED BY <1>1, <2>1, <3>2, <3>3, <3>4 DEF c, Buffers
  <2>3. CASE ~(CarriageReturns(b, max) # {} /\ b.bytes[pos + 1] = "LF")
    <3>1. c = [b EXCEPT !.lastFind = pos]
      BY <1>3, <2>3 DEF FindNewline
    <3> HIDE DEF c, pos
    <3>2. /\ c.bytes = b.bytes /\ c.receive = b.receive
          /\ c.current = b.current /\ c.newline = None /\ c.lastFind = pos
      BY <1>1, <1>3, <3>1 DEF Buffers
    <3>3. c \in Buffers
      <4>1. pos \in 0..BufferSize
        BY <1>1, <2>1 DEF Buffers
      <4> QED BY <1>1, <3>1, <4>1 DEF Buffers
    <3>4. BInv(c)
      <4>1. LastSearch(c) /\ FoundEnd(c)
        BY <1>1, <2>1, <3>2 DEF LastSearch, FoundEnd, NoReturnBefore, Buffers
      <4> QED BY <1>1, <3>2, <3>3, <4>1 DEF BInv
    <3> QED BY <3>2, <3>3, <3>4 DEF c
  <2> QED BY <2>2, <2>3
<1> QED BY <1>2, <1>3

-----------------------------------------------------------------------------
(* The first line of the queue.                                            *)

LEMMA QueueProperties ==
  ASSUME BufferSize \in Nat, InUse, BInv(buffer)
  PROVE  /\ Unread(buffer) \in Seq(Byte)
         /\ Len(Unread(buffer)) = buffer.receive - buffer.current
         /\ Len(Unread(buffer)) \in Nat
         /\ \A i \in 1..Len(Unread(buffer)) :
              Unread(buffer)[i] = buffer.bytes[buffer.current + i - 1]
         /\ ByteQueueOf!CarriageReturns =
              {i \in 1..Len(Unread(buffer)) : Unread(buffer)[i] = "CR"}
<1>1. buffer \in Buffers /\ buffer.current <= buffer.receive
  BY DEF BInv
<1>2. /\ Unread(buffer) \in Seq(Byte)
      /\ Len(Unread(buffer)) = buffer.receive - buffer.current
      /\ \A i \in 1..buffer.receive - buffer.current :
           Unread(buffer)[i] = buffer.bytes[buffer.current + i - 1]
  BY <1>1, UnreadProperties
<1>3. DOMAIN Unread(buffer) = 1..Len(Unread(buffer))
  BY <1>2
<1> QED BY <1>1, <1>2, <1>3 DEF Buffers, ByteQueueOf!CarriageReturns

LEMMA LineLengthAtLeast ==
  ASSUME BufferSize \in Nat, InUse, BInv(buffer),
         NEW end \in buffer.current..buffer.receive,
         NoReturnBefore(buffer, end)
  PROVE  /\ ByteQueueOf!LineLength \in Nat
         /\ end - buffer.current <= ByteQueueOf!LineLength
<1> DEFINE S == ByteQueueOf!CarriageReturns
           Q == Unread(buffer)
<1>1. buffer \in Buffers /\ buffer.current <= buffer.receive
  BY DEF BInv
<1>2. CASE S = {}
  <2>1. ByteQueueOf!LineLength = Len(Q)
    BY <1>2 DEF ByteQueueOf!LineLength
  <2> QED BY <1>1, <2>1, QueueProperties DEF Buffers
<1>3. CASE S # {}
  <2>1. S = {i \in 1..Len(Q) : Q[i] = "CR"} /\ Len(Q) \in Nat
    BY QueueProperties
  <2>2. S \subseteq Nat
    BY <2>1
  <2>3. Min(S) \in S
    BY <1>3, <2>2, LeastExists
  <2>4. ByteQueueOf!LineLength = Min(S) - 1
    BY <1>3 DEF ByteQueueOf!LineLength, ByteQueueOf!Min, Min
  <2>5. /\ Min(S) \in 1..Len(Q)
        /\ buffer.bytes[buffer.current + Min(S) - 1] = "CR"
    BY <2>1, <2>3, QueueProperties
  <2>6. ~(buffer.current + Min(S) - 1 \in buffer.current..end - 1)
    BY <2>5 DEF NoReturnBefore
  <2> HIDE DEF S
  <2> QED BY <1>1, <2>1, <2>4, <2>5, <2>6 DEF Buffers
<1> QED BY <1>2, <1>3

LEMMA LineLengthIs ==
  ASSUME BufferSize \in Nat, InUse, BInv(buffer),
         NEW end \in buffer.current..buffer.receive,
         NoReturnBefore(buffer, end),
         end = buffer.receive \/ buffer.bytes[end] = "CR"
  PROVE  ByteQueueOf!LineLength = end - buffer.current
<1> DEFINE S == ByteQueueOf!CarriageReturns
           Q == Unread(buffer)
<1>1. /\ buffer \in Buffers /\ buffer.current <= buffer.receive
      /\ ByteQueueOf!LineLength \in Nat
      /\ end - buffer.current <= ByteQueueOf!LineLength
  BY LineLengthAtLeast DEF BInv
<1>2. /\ S = {i \in 1..Len(Q) : Q[i] = "CR"} /\ Len(Q) \in Nat
      /\ Len(Q) = buffer.receive - buffer.current
      /\ \A i \in 1..Len(Q) : Q[i] = buffer.bytes[buffer.current + i - 1]
  BY QueueProperties
<1>3. S = {} => ByteQueueOf!LineLength = Len(Q)
  BY DEF ByteQueueOf!LineLength
<1>4. S # {} => /\ ByteQueueOf!LineLength = Min(S) - 1
                /\ Min(S) \in S /\ \A i \in S : Min(S) <= i
  <2> SUFFICES ASSUME S # {}
               PROVE  /\ ByteQueueOf!LineLength = Min(S) - 1
                      /\ Min(S) \in S /\ \A i \in S : Min(S) <= i
    OBVIOUS
  <2>1. ByteQueueOf!LineLength = Min(S) - 1
    BY DEF ByteQueueOf!LineLength, ByteQueueOf!Min, Min
  <2>2. S \subseteq Nat
    BY <1>2
  <2> HIDE DEF S
  <2> QED BY <2>1, <2>2, LeastExists
<1> HIDE DEF S, Q
<1>5. CASE end = buffer.receive
  BY <1>1, <1>2, <1>3, <1>4, <1>5 DEF Buffers
<1>6. CASE end < buffer.receive /\ buffer.bytes[end] = "CR"
  <2> DEFINE k == end - buffer.current + 1
  <2>1. k \in 1..Len(Q) /\ buffer.current + k - 1 = end
    BY <1>1, <1>2, <1>6 DEF Buffers
  <2>2. k \in S
    BY <1>2, <1>6, <2>1
  <2>3. Min(S) <= k /\ Min(S) \in 1..Len(Q)
    BY <1>2, <1>4, <2>2
  <2> QED BY <1>1, <1>2, <1>4, <2>1, <2>2, <2>3 DEF Buffers
<1> QED BY <1>1, <1>5, <1>6 DEF Buffers

(* The abstract queue sees the end of a line where there is one.           *)
LEMMA EndsLineIs ==
  ASSUME BufferSize \in Nat, InUse, BInv(buffer),
         NEW pos \in buffer.current..buffer.receive
  PROVE  ByteQueueOf!EndsLine(pos - buffer.current) <=>
           /\ pos + 2 <= buffer.receive
           /\ buffer.bytes[pos] = "CR" /\ buffer.bytes[pos + 1] = "LF"
<1> DEFINE Q == Unread(buffer)
           n == pos - buffer.current
<1>1. buffer \in Buffers /\ buffer.current <= buffer.receive
  BY DEF BInv
<1>2. /\ Len(Q) \in Nat /\ Len(Q) = buffer.receive - buffer.current
      /\ \A i \in 1..Len(Q) : Q[i] = buffer.bytes[buffer.current + i - 1]
  BY QueueProperties
<1>3. ByteQueueOf!EndsLine(n) <=>
        n + 2 <= Len(Q) /\ Q[n + 1] = "CR" /\ Q[n + 2] = "LF"
  BY DEF ByteQueueOf!EndsLine
<1> HIDE DEF Q
<1>4. n + 2 <= Len(Q) <=> pos + 2 <= buffer.receive
  BY <1>1, <1>2 DEF Buffers
<1>5. ASSUME n + 2 <= Len(Q)
      PROVE  Q[n + 1] = buffer.bytes[pos] /\ Q[n + 2] = buffer.bytes[pos + 1]
  <2>1. /\ n + 1 \in 1..Len(Q) /\ n + 2 \in 1..Len(Q)
        /\ buffer.current + (n + 1) - 1 = pos
        /\ buffer.current + (n + 2) - 1 = pos + 1
    BY <1>1, <1>2, <1>5 DEF Buffers
  <2> HIDE DEF n
  <2> QED BY <1>2, <2>1
<1> QED BY <1>3, <1>4, <1>5

(* What a part of the unread bytes is in the queue.                        *)
LEMMA TextIsSubSeq ==
  ASSUME BufferSize \in Nat, InUse, BInv(buffer),
         NEW from \in buffer.current..buffer.receive,
         NEW to \in from..buffer.receive
  PROVE  Text(buffer, from, to) =
           SubSeq(Unread(buffer), from - buffer.current + 1,
                  to - buffer.current)
<1> DEFINE Q == Unread(buffer)
           m == from - buffer.current + 1
           n == to - buffer.current
<1>1. buffer \in Buffers /\ buffer.current <= buffer.receive
  BY DEF BInv
<1>2. /\ Q \in Seq(Byte) /\ Len(Q) = buffer.receive - buffer.current
      /\ \A i \in 1..Len(Q) : Q[i] = buffer.bytes[buffer.current + i - 1]
  BY QueueProperties
<1>3. /\ Text(buffer, from, to) \in Seq(Byte)
      /\ Len(Text(buffer, from, to)) = to - from
      /\ \A i \in 1..to - from :
           Text(buffer, from, to)[i] = buffer.bytes[from + i - 1]
  <2>1. from \in 0..BufferSize /\ to \in from..BufferSize
    BY <1>1 DEF Buffers
  <2> QED BY <1>1, <2>1, TextProperties
<1> HIDE DEF Q
<1>4. /\ m \in 1..Len(Q) + 1 /\ n \in Int
      /\ n - m + 1 = to - from /\ to - from \in Nat
  BY <1>1, <1>2 DEF Buffers
<1>5. ASSUME NEW i \in 1..to - from
      PROVE  /\ m + i - 1 \in 1..Len(Q)
             /\ buffer.current + (m + i - 1) - 1 = from + i - 1
  BY <1>1, <1>2 DEF Buffers
<1> HIDE DEF m, n
<1>6. /\ SubSeq(Q, m, n) \in Seq(Byte) /\ Len(SubSeq(Q, m, n)) = to - from
      /\ \A i \in 1..to - from : SubSeq(Q, m, n)[i] = Q[m + i - 1]
  <2>1. \A i \in m..n : Q[i] \in Byte
    <3>1. n <= Len(Q) /\ Len(Q) \in Nat
      BY <1>1, <1>2 DEF n, Buffers
    <3>2. \A i \in m..n : i \in 1..Len(Q)
      BY <1>4, <3>1
    <3> QED BY <1>2, <3>2, ElementOfSeq
  <2>2. /\ SubSeq(Q, m, n) \in Seq(Byte)
        /\ Len(SubSeq(Q, m, n)) = IF m <= n THEN n - m + 1 ELSE 0
        /\ \A i \in 1..n - m + 1 : SubSeq(Q, m, n)[i] = Q[m + i - 1]
    BY <1>4, <2>1, SubSeqProperties
  <2> QED BY <1>4, <2>2
<1>7. \A i \in 1..to - from : Text(buffer, from, to)[i] = SubSeq(Q, m, n)[i]
  BY <1>2, <1>3, <1>5, <1>6
<1>8. Text(buffer, from, to) = SubSeq(Q, m, n)
  BY <1>3, <1>6, <1>7, SeqEqual
<1> QED BY <1>8 DEF Q, m, n

(* What is left when the bytes before an offset were read.                 *)
LEMMA RestIsDrop ==
  ASSUME BufferSize \in Nat, InUse, BInv(buffer), NEW n \in Nat,
         NEW from \in buffer.current..buffer.receive,
         from = buffer.current + n
  PROVE  Text(buffer, from, buffer.receive) = ByteQueueOf!Drop(n)
<1>1. /\ buffer \in Buffers /\ buffer.current <= buffer.receive
      /\ Len(Unread(buffer)) = buffer.receive - buffer.current
  BY QueueProperties DEF BInv
<1>2. buffer.receive \in from..buffer.receive /\ from - buffer.current = n
  BY <1>1 DEF Buffers
<1> QED BY <1>1, <1>2, TextIsSubSeq DEF ByteQueueOf!Drop, InUse

-----------------------------------------------------------------------------
(* Each call is a step of the queue, and keeps the invariant.              *)

LEMMA AstrayIsReset ==
  ASSUME NEW why, why # "no", astray' = why, result' = "none", output' = <<>>
  PROVE  ByteQueueOf!Next
BY DEF ByteQueueOf!Next, ByteQueueOf!Reset, InUse

LEMMA ReceiveStep ==
  ASSUME BufferAssumption, BInv(buffer), InUse,
         NEW text \in Texts, Receive(text)
  PROVE  BInv(buffer') /\ ByteQueueOf!Next
<1>1. /\ buffer \in Buffers /\ buffer.current <= buffer.receive
      /\ text \in Seq(Byte) /\ Len(text) \in Nat /\ BufferSize \in Nat
  BY DEF BInv, BufferAssumption
<1>2. /\ Len(Unread(buffer)) = buffer.receive - buffer.current
      /\ Fits(buffer, Len(text)) <=>
           Len(Unread(buffer)) + Len(text) <= BufferSize
  <2>1. Len(Unread(buffer)) = buffer.receive - buffer.current
    BY <1>1, QueueProperties
  <2> QED BY <1>1, <2>1 DEF Fits, FreeSpace, Buffers
<1>3. CASE ReceiveRefused(text)
  <2>1. ByteQueueOf!Receive(text)
    BY <1>2, <1>3 DEF ReceiveRefused, Returns, InUse, ByteQueueOf!Receive,
         ByteQueueOf!Returns
  <2> QED BY <1>3, <2>1 DEF ReceiveRefused, ByteQueueOf!Next
<1>4. CASE ReceiveText(text)
  <2> DEFINE m == MakeSpace(buffer, Len(text))
  <2>1. /\ Fits(buffer, Len(text)) /\ ~PointerLeaves(buffer, Len(text))
        /\ buffer' = Put(m, text)
        /\ result' = "true" /\ output' = <<>> /\ astray' = astray
    BY <1>4 DEF ReceiveText, Returns
  <2>2. BInv(m) /\ Unread(m) = Unread(buffer) /\ Len(text) <= FreeSpace(m)
    BY <1>1, <2>1, MakeSpaceKeeps
  <2> HIDE DEF m
  <2>3. BInv(buffer') /\ Unread(buffer') = Unread(buffer) \o text
    BY <1>1, <2>1, <2>2, PutAppends
  <2>4. ByteQueueOf!Receive(text)
    BY <1>2, <2>1, <2>3 DEF InUse, ByteQueueOf!Receive
  <2> QED BY <2>3, <2>4 DEF ByteQueueOf!Next
<1>5. CASE ReceiveAstray(text)
  BY <1>5, AstrayIsReset DEF ReceiveAstray, GoesAstray
<1> QED BY <1>3, <1>4, <1>5 DEF Receive

(* A search that does not take its line.                                   *)
LEMMA LeaveStep ==
  ASSUME BufferAssumption, BInv(buffer), InUse,
         NEW max \in Limits, NEW r, Leaves(max, r)
  PROVE  BInv(buffer') /\ ByteQueueOf!Returns(r)
<1>1. /\ BufferSize \in Nat /\ max \in Nat
      /\ ~SearchIsUndefined(buffer, max) /\ ~EndIsStale(Sought(max))
      /\ buffer' = FindNewline(buffer, max)
      /\ result' = r /\ output' = <<>> /\ astray' = astray
  BY DEF Leaves, Searches, Sought, Returns, BufferAssumption
<1>2. /\ BInv(buffer')
      /\ buffer'.bytes = buffer.bytes /\ buffer'.receive = buffer.receive
      /\ buffer'.current = buffer.current
  BY <1>1, SearchKeeps DEF Sought
<1>3. Unread(buffer') = Unread(buffer)
  BY <1>2 DEF Unread, Text
<1> QED BY <1>1, <1>2, <1>3 DEF InUse, ByteQueueOf!Returns

(* The end of a line that was found ends the first line of the queue.      *)
LEMMA FoundIsFirst ==
  ASSUME BufferAssumption, BInv(buffer), InUse,
         NEW max \in Limits, Searches(max), Sought(max).newline # None
  PROVE  /\ Sought(max).newline \in buffer.current..buffer.receive
         /\ Sought(max).newline + 2 <= buffer.receive
         /\ ByteQueueOf!LineLength = Sought(max).newline - buffer.current
         /\ ByteQueueOf!EndsLine(ByteQueueOf!LineLength)
<1> DEFINE c == Sought(max)
           end == Sought(max).newline
<1>1. /\ BufferSize \in Nat /\ max \in Nat
      /\ ~SearchIsUndefined(buffer, max) /\ ~EndIsStale(c)
      /\ buffer \in Buffers
  BY DEF Searches, BufferAssumption, BInv
<1>2. /\ BInv(c) /\ c.bytes = buffer.bytes /\ c.receive = buffer.receive
      /\ c.current = buffer.current /\ buffer.current <= end
  BY <1>1, SearchKeeps DEF Sought
<1> HIDE DEF c
<1>3. c.newline = end /\ end # None
  BY DEF c
<1> HIDE DEF end
<1>4. /\ end + 2 <= buffer.receive
      /\ buffer.bytes[end] = "CR" /\ buffer.bytes[end + 1] = "LF"
      /\ NoReturnBefore(buffer, end)
      /\ end \in 0..BufferSize
  BY <1>2, <1>3 DEF BInv, FoundEnd, NoReturnBefore, Buffers
<1>5. end \in buffer.current..buffer.receive
  BY <1>1, <1>2, <1>4 DEF Buffers
<1>6. ByteQueueOf!LineLength = end - buffer.current
  BY <1>1, <1>4, <1>5, LineLengthIs
<1>7. ByteQueueOf!EndsLine(end - buffer.current)
  BY <1>1, <1>4, <1>5, EndsLineIs
<1> QED BY <1>4, <1>5, <1>6, <1>7 DEF end

LEMMA TakeStep ==
  ASSUME BufferAssumption, BInv(buffer), InUse,
         NEW max \in Limits, Takes(max), Sought(max).newline # None,
         max = 0 \/ ~TooLong(Sought(max), max)
  PROVE  BInv(buffer') /\ ByteQueueOf!TakeLine(max)
<1> DEFINE c == Sought(max)
           end == Sought(max).newline
<1>1. /\ BufferSize \in Nat /\ max \in Nat
      /\ ~SearchIsUndefined(buffer, max) /\ ~EndIsStale(c)
      /\ Searches(max)
      /\ buffer \in Buffers /\ buffer.current <= buffer.receive
      /\ buffer' = [c EXCEPT !.current = end + 2, !.newline = None]
      /\ result' = "Found" /\ output' = Text(c, c.current, end)
      /\ astray' = astray
  BY DEF Takes, Searches, BufferAssumption, BInv, Returns, AfterLine, Line
<1>2. /\ BInv(c) /\ c \in Buffers
      /\ c.bytes = buffer.bytes /\ c.receive = buffer.receive
      /\ c.current = buffer.current
  BY <1>1, SearchKeeps DEF Sought
<1>3. c.newline = end /\ end # None /\ c.lastFind = None
  BY <1>2 DEF BInv, LastSearch
<1>4. /\ end \in buffer.current..buffer.receive
      /\ end + 2 \in buffer.current..buffer.receive
      /\ ByteQueueOf!LineLength = end - buffer.current
      /\ ByteQueueOf!EndsLine(ByteQueueOf!LineLength)
  BY <1>1, <1>3, FoundIsFirst DEF Buffers
<1>5. ByteQueueOf!Within(max)
  BY <1>1, <1>2, <1>4 DEF TooLong, ByteQueueOf!Within, Buffers
<1> HIDE DEF c, end
<1>6. /\ buffer'.bytes = buffer.bytes /\ buffer'.receive = buffer.receive
      /\ buffer'.current = end + 2 /\ buffer'.newline = None
      /\ buffer'.lastFind = None
  BY <1>1, <1>2, <1>3 DEF Buffers
<1>7. buffer' \in Buffers
  <2>1. end + 2 \in 0..BufferSize
    BY <1>1, <1>4 DEF Buffers
  <2> QED BY <1>1, <1>2, <2>1 DEF Buffers
<1>8. BInv(buffer')
  BY <1>1, <1>4, <1>6, <1>7 DEF BInv, LastSearch, FoundEnd, Buffers
<1>9. output' = SubSeq(Unread(buffer), 1, end - buffer.current)
  <2>1. Text(c, c.current, end) = Text(buffer, buffer.current, end)
    BY <1>2 DEF Text
  <2>2. /\ buffer.current \in buffer.current..buffer.receive
        /\ buffer.current - buffer.current + 1 = 1
    BY <1>1 DEF Buffers
  <2> QED BY <1>1, <1>4, <2>1, <2>2, TextIsSubSeq
<1>10. Unread(buffer') = ByteQueueOf!Drop(end - buffer.current + 2)
  <2>1. Unread(buffer') = Text(buffer, end + 2, buffer.receive)
    BY <1>6 DEF Unread, Text
  <2>2. PICK from \in buffer.current..buffer.receive : from = end + 2
    BY <1>4
  <2>3. PICK n \in Nat : n = end - buffer.current + 2
    BY <1>1, <1>4 DEF Buffers
  <2>4. from = buffer.current + n
    BY <1>1, <1>4, <2>2, <2>3 DEF Buffers
  <2>5. Text(buffer, from, buffer.receive) = ByteQueueOf!Drop(n)
    BY <1>1, <2>4, RestIsDrop
  <2> QED BY <2>1, <2>2, <2>3, <2>5
<1> QED
  BY <1>1, <1>4, <1>5, <1>8, <1>9, <1>10
     DEF InUse, ByteQueueOf!TakeLine

(* A line that is not there yet, or that is longer than the limit already. *)
LEMMA MissingStep ==
  ASSUME BufferAssumption, BInv(buffer), InUse,
         NEW max \in Limits, LineMissing(max)
  PROVE  BInv(buffer') /\ ByteQueueOf!ReadLine(max)
<1> DEFINE pos == FoundPos(buffer, max)
           to == FindTo(buffer, max)
           found == CarriageReturns(buffer, max)
<1>1. /\ BufferSize \in Nat /\ max \in Nat
      /\ buffer \in Buffers /\ buffer.current <= buffer.receive
      /\ FindNewline(buffer, max).newline = None
      /\ ~SearchIsUndefined(buffer, max)
      /\ Leaves(max, IF ReachedMaxLength(buffer, max)
                       THEN "ReachedMaxLength" ELSE "NewlineNotFound")
  BY DEF BufferAssumption, BInv, LineMissing, Leaves, Searches, Sought
<1>2. BInv(buffer')
        /\ ByteQueueOf!Returns(IF ReachedMaxLength(buffer, max)
                                 THEN "ReachedMaxLength"
                                 ELSE "NewlineNotFound")
  BY <1>1, LeaveStep
<1>3. buffer.newline = None
  BY <1>1 DEF FindNewline
<1>4. /\ to \in buffer.current..buffer.receive
      /\ pos \in buffer.current..to /\ NoReturnBefore(buffer, pos)
      /\ found = {} => pos = to
      /\ found # {} => pos < to /\ buffer.bytes[pos] = "CR"
  BY <1>1, <1>3, SearchStops
<1>5. found # {} => buffer.bytes[pos + 1] # "LF"
  <2> SUFFICES ASSUME found # {}, buffer.bytes[pos + 1] = "LF" PROVE FALSE
    OBVIOUS
  <2>1. FindNewline(buffer, max) =
          [buffer EXCEPT !.newline = pos, !.lastFind = None]
    BY <1>3 DEF FindNewline
  <2> HIDE DEF pos, found, to
  <2>2. pos # None
    BY <1>1, <1>4 DEF Buffers, None
  <2> QED BY <1>1, <2>1, <2>2 DEF Buffers
<1>6. to = IF UseMaxLength(buffer, max) THEN buffer.current + max
                                        ELSE buffer.receive
  BY DEF FindTo
<1>7. UseMaxLength(buffer, max) <=>
        max > 0 /\ buffer.receive - buffer.current > max
  BY <1>1 DEF UseMaxLength, BInv, Buffers, BufferAssumption
<1>8. ReachedMaxLength(buffer, max) <=>
        UseMaxLength(buffer, max) /\ found = {}
  BY DEF ReachedMaxLength
<1> HIDE DEF pos, to, found
<1>9. /\ pos \in buffer.current..buffer.receive
      /\ Len(Unread(buffer)) = buffer.receive - buffer.current
  BY <1>1, <1>4, QueueProperties DEF Buffers
<1>10. CASE ReachedMaxLength(buffer, max)
  <2>1. pos - buffer.current = max
    BY <1>1, <1>4, <1>6, <1>8, <1>10 DEF Buffers
  <2>2. /\ ByteQueueOf!LineLength \in Nat
        /\ pos - buffer.current <= ByteQueueOf!LineLength
    BY <1>1, <1>4, <1>9, LineLengthAtLeast
  <2>3. ByteQueueOf!Beyond(max)
    BY <1>7, <1>8, <1>9, <1>10, <2>1, <2>2 DEF ByteQueueOf!Beyond, InUse
  <2> QED BY <1>2, <1>10, <2>3 DEF ByteQueueOf!ReadLine
<1>11. CASE ~ReachedMaxLength(buffer, max)
  <2>1. pos = buffer.receive \/ buffer.bytes[pos] = "CR"
    BY <1>4, <1>6, <1>8, <1>11
  <2>2. ByteQueueOf!LineLength = pos - buffer.current
    BY <1>1, <1>4, <1>9, <2>1, LineLengthIs
  <2>3. ~ByteQueueOf!EndsLine(pos - buffer.current)
    <3>1. ~(/\ pos + 2 <= buffer.receive
            /\ buffer.bytes[pos] = "CR" /\ buffer.bytes[pos + 1] = "LF")
      BY <1>1, <1>4, <1>5, <1>6, <1>8, <1>11 DEF Buffers
    <3> QED BY <1>1, <1>9, <3>1, EndsLineIs
  <2>4. ByteQueueOf!Within(max)
    <3>1. max = 0 \/ pos - buffer.current <= max
      BY <1>1, <1>4, <1>6, <1>7, <1>9 DEF Buffers
    <3> QED BY <2>2, <3>1 DEF ByteQueueOf!Within
  <2> QED BY <1>2, <1>11, <2>2, <2>3, <2>4 DEF ByteQueueOf!ReadLine
<1> QED BY <1>10, <1>11

(* A line that was found and is refused for its length or for its text.    *)
LEMMA RefusedStep ==
  ASSUME BufferAssumption, BInv(buffer), InUse, NEW max \in Limits,
         Sought(max).newline # None,
         \/ TooLong(Sought(max), max) /\ Leaves(max, "ReachedMaxLength")
         \/ ~TooLong(Sought(max), max) /\ Leaves(max, "RegexNotFound")
  PROVE  BInv(buffer') /\ ByteQueueOf!ReadLine(max)
<1> DEFINE end == Sought(max).newline
<1>1. /\ BufferSize \in Nat /\ max \in Nat
      /\ Searches(max) /\ ~SearchIsUndefined(buffer, max)
      /\ buffer \in Buffers /\ buffer.current <= buffer.receive
  BY DEF BufferAssumption, BInv, Leaves, Searches
<1>2. /\ end \in buffer.current..buffer.receive /\ end + 2 <= buffer.receive
      /\ ByteQueueOf!LineLength = end - buffer.current
      /\ ByteQueueOf!EndsLine(ByteQueueOf!LineLength)
  BY <1>1, FoundIsFirst
<1>3. Sought(max).current = buffer.current
  BY <1>1, SearchKeeps DEF Sought
<1>4. TooLong(Sought(max), max) <=> end - buffer.current > max
  BY <1>3 DEF TooLong
<1>5. Len(Unread(buffer)) = buffer.receive - buffer.current
  BY <1>1, QueueProperties
<1> HIDE DEF end
<1>6. CASE TooLong(Sought(max), max)
  <2>1. BInv(buffer') /\ ByteQueueOf!Returns("ReachedMaxLength")
    BY <1>6, LeaveStep
  <2>2. ByteQueueOf!Beyond(max)
    BY <1>1, <1>2, <1>4, <1>5, <1>6 DEF ByteQueueOf!Beyond, InUse, Buffers
  <2> QED BY <2>1, <2>2 DEF ByteQueueOf!ReadLine
<1>7. CASE ~TooLong(Sought(max), max)
  <2>1. BInv(buffer') /\ ByteQueueOf!Returns("RegexNotFound")
    BY <1>7, LeaveStep
  <2>2. ByteQueueOf!Within(max)
    BY <1>1, <1>2, <1>4, <1>7 DEF ByteQueueOf!Within, Buffers
  <2> QED BY <1>2, <2>1, <2>2 DEF ByteQueueOf!ReadLine
<1> QED BY <1>6, <1>7

LEMMA SearchStep ==
  ASSUME BufferAssumption, BInv(buffer), InUse,
         NEW max \in Limits, ReadLine(max) \/ RegexSearch(max)
  PROVE  BInv(buffer') /\ ByteQueueOf!Next
<1>1. CASE SearchAstray(max) \/ SearchStale(max)
  BY <1>1, AstrayIsReset DEF SearchAstray, SearchStale, GoesAstray
<1>2. CASE LineMissing(max)
  BY <1>2, MissingStep DEF ByteQueueOf!Next
<1>3. CASE Sought(max).newline # None /\ Takes(max)
             /\ (max = 0 \/ ~TooLong(Sought(max), max))
  BY <1>3, TakeStep DEF ByteQueueOf!ReadLine, ByteQueueOf!Next
<1>4. CASE Sought(max).newline # None /\
             (\/ TooLong(Sought(max), max) /\ Leaves(max, "ReachedMaxLength")
              \/ ~TooLong(Sought(max), max) /\ Leaves(max, "RegexNotFound"))
  BY <1>4, RefusedStep DEF ByteQueueOf!Next
<1>5. CASE ReadLine(max)
  <2>1. max \in Nat /\ (max > 0 <=> max # 0)
    BY DEF BufferAssumption
  <2> QED BY <1>1, <1>2, <1>3, <1>4, <1>5, <2>1, Zenon DEF ReadLine, Search
<1>6. CASE RegexSearch(max)
  BY <1>1, <1>2, <1>3, <1>4, <1>6, Zenon DEF RegexSearch, Search
<1> QED BY <1>5, <1>6

LEMMA ReadNewlineStep ==
  ASSUME BufferAssumption, BInv(buffer), InUse, ReadNewline
  PROVE  BInv(buffer') /\ ByteQueueOf!Next
<1>1. /\ BufferSize \in Nat
      /\ buffer \in Buffers /\ buffer.current <= buffer.receive
  BY DEF BufferAssumption, BInv
<1>2. NewlineFollows(buffer) /\ buffer.current + 2 <= buffer.receive
        <=> ByteQueueOf!EndsLine(0)
  <2>1. /\ buffer.current \in buffer.current..buffer.receive
        /\ buffer.current - buffer.current = 0
    BY <1>1 DEF Buffers
  <2>2. ByteQueueOf!EndsLine(0) <=>
          /\ buffer.current + 2 <= buffer.receive
          /\ buffer.bytes[buffer.current] = "CR"
          /\ buffer.bytes[buffer.current + 1] = "LF"
    <3>1. ByteQueueOf!EndsLine(buffer.current - buffer.current) <=>
            /\ buffer.current + 2 <= buffer.receive
            /\ buffer.bytes[buffer.current] = "CR"
            /\ buffer.bytes[buffer.current + 1] = "LF"
      BY <1>1, <2>1, EndsLineIs
    <3> QED BY <2>1, <3>1
  <2> QED BY <1>1, <2>2 DEF NewlineFollows, Buffers
<1>3. CASE /\ ~NewlineFollows(buffer)
           /\ Returns("NewlineNotFound", <<>>)
           /\ UNCHANGED <<buffer, search, mixed>>
  <2>1. ByteQueueOf!ReadNewline
    BY <1>2, <1>3 DEF Returns, InUse, ByteQueueOf!ReadNewline,
         ByteQueueOf!Returns
  <2> QED BY <1>3, <2>1 DEF ByteQueueOf!Next
<1>4. CASE GoesAstray("stale")
  BY <1>4, AstrayIsReset DEF GoesAstray
<1>5. CASE /\ NewlineFollows(buffer) /\ buffer.current + 2 <= buffer.receive
           /\ buffer' = AfterNewline(buffer)
           /\ Returns("Found", <<>>)
  <2>1. /\ buffer'.bytes = buffer.bytes /\ buffer'.receive = buffer.receive
        /\ buffer'.current = buffer.current + 2 /\ buffer'.newline = None
        /\ buffer'.lastFind = buffer.lastFind
        /\ buffer' \in Buffers
    <3>1. buffer.current + 2 \in 0..BufferSize
      BY <1>1, <1>5 DEF Buffers
    <3>2. buffer' = [buffer EXCEPT !.current = buffer.current + 2,
                                   !.newline = None]
      BY <1>5 DEF AfterNewline
    <3> QED BY <1>1, <3>1, <3>2 DEF Buffers
  <2>2. BInv(buffer')
    BY <1>1, <1>5, <2>1
       DEF BInv, LastSearch, FoundEnd, NoReturnBefore, Buffers
  <2>3. Unread(buffer') = ByteQueueOf!Drop(2)
    <3>1. Unread(buffer') = Text(buffer, buffer.current + 2, buffer.receive)
      BY <2>1 DEF Unread, Text
    <3>2. PICK from \in buffer.current..buffer.receive :
            from = buffer.current + 2
      BY <1>1, <1>5 DEF Buffers
    <3>3. Text(buffer, from, buffer.receive) = ByteQueueOf!Drop(2)
      BY <1>1, <3>2, RestIsDrop
    <3> QED BY <3>1, <3>2, <3>3
  <2>4. ByteQueueOf!ReadNewline
    BY <1>2, <1>5, <2>3 DEF Returns, InUse, ByteQueueOf!ReadNewline
  <2> QED BY <2>2, <2>4 DEF ByteQueueOf!Next
<1> QED BY <1>3, <1>4, <1>5 DEF ReadNewline

LEMMA EmptyText ==
  ASSUME NEW b, NEW p \in Int PROVE Text(b, p, p) = <<>>
<1>1. 1..(p - p) = {}
  OBVIOUS
<1> QED BY <1>1 DEF Text

LEMMA ReadAllStep ==
  ASSUME BufferAssumption, BInv(buffer), InUse, ReadAll
  PROVE  BInv(buffer') /\ ByteQueueOf!Next
<1>1. /\ BufferSize \in Nat
      /\ buffer \in Buffers /\ buffer.current <= buffer.receive
      /\ buffer' = [buffer EXCEPT !.current = buffer.receive]
      /\ result' = "all" /\ output' = Unread(buffer) /\ astray' = astray
  BY DEF BufferAssumption, BInv, ReadAll, AfterAll, Returns
<1>2. /\ buffer'.bytes = buffer.bytes /\ buffer'.receive = buffer.receive
      /\ buffer'.current = buffer.receive
      /\ buffer'.newline = buffer.newline
      /\ buffer'.lastFind = buffer.lastFind
      /\ buffer' \in Buffers
  BY <1>1 DEF Buffers
<1>3. BInv(buffer')
  BY <1>1, <1>2 DEF BInv, LastSearch, FoundEnd, NoReturnBefore, Buffers
<1>4. Unread(buffer') = <<>>
  BY <1>1, <1>2, EmptyText DEF Unread, Buffers
<1>5. ByteQueueOf!ReadAll
  BY <1>1, <1>4 DEF InUse, ByteQueueOf!ReadAll
<1> QED BY <1>3, <1>5 DEF ByteQueueOf!Next

LEMMA ResetIsABuffer ==
  ASSUME BufferSize \in Nat, NEW b \in Buffers
  PROVE  /\ Reset(b).receive = 0 /\ Reset(b).current = 0
         /\ Reset(b).newline = None /\ Reset(b).lastFind = None
         /\ Reset(b) \in Buffers
<1> DEFINE b1 == [b EXCEPT !.receive = 0]
           b2 == [b1 EXCEPT !.current = 0]
           b3 == [b2 EXCEPT !.newline = None]
           b4 == [b3 EXCEPT !.lastFind = None]
<1>1. Reset(b) = b4 /\ 0 \in 0..BufferSize
  BY DEF Reset
<1>2. b1 \in Buffers /\ b1.receive = 0
  BY <1>1 DEF Buffers
<1> HIDE DEF b1
<1>3. b2 \in Buffers /\ b2.receive = 0 /\ b2.current = 0
  BY <1>1, <1>2 DEF Buffers
<1> HIDE DEF b2
<1>4. /\ b3 \in Buffers /\ b3.receive = 0 /\ b3.current = 0
      /\ b3.newline = None
  BY <1>3 DEF Buffers
<1> HIDE DEF b3
<1>5. /\ b4 \in Buffers /\ b4.receive = 0 /\ b4.current = 0
      /\ b4.newline = None /\ b4.lastFind = None
  BY <1>4 DEF Buffers
<1> QED BY <1>1, <1>5

LEMMA ResetStep ==
  ASSUME BufferAssumption, BInv(buffer), InUse, ResetBuffer
  PROVE  BInv(buffer') /\ ByteQueueOf!Next
<1>1. /\ BufferSize \in Nat /\ buffer \in Buffers
      /\ buffer' = Reset(buffer)
      /\ result' = "none" /\ output' = <<>> /\ astray' = astray
  BY DEF BufferAssumption, BInv, ResetBuffer, Returns
<1>2. /\ buffer'.receive = 0 /\ buffer'.current = 0
      /\ buffer'.newline = None /\ buffer'.lastFind = None
      /\ buffer' \in Buffers
  BY <1>1, ResetIsABuffer
<1>3. BInv(buffer')
  BY <1>2 DEF BInv, LastSearch, FoundEnd
<1>4. Unread(buffer') = <<>>
  BY <1>2, EmptyText DEF Unread
<1>5. ByteQueueOf!Reset
  BY <1>1, <1>4 DEF InUse, ByteQueueOf!Reset
<1> QED BY <1>3, <1>5 DEF ByteQueueOf!Next

LEMMA InitHolds ==
  ASSUME BufferAssumption, Init
  PROVE  BInv(buffer) /\ ByteQueueOf!Init
<1>1. PICK behind \in {"x", "LF"} :
        buffer = Reset([bytes    |-> [i \in 0..BufferSize |->
                          IF i = BufferSize THEN behind ELSE "x"],
                        receive  |-> 0, current |-> 0,
                        newline  |-> None, lastFind |-> None])
  BY DEF Init
<1>2. /\ buffer.receive = 0 /\ buffer.current = 0
      /\ buffer.newline = None /\ buffer.lastFind = None
      /\ buffer \in Buffers
  <2> DEFINE b == [bytes    |-> [i \in 0..BufferSize |->
                          IF i = BufferSize THEN behind ELSE "x"],
                   receive  |-> 0, current |-> 0,
                   newline  |-> None, lastFind |-> None]
  <2>1. BufferSize \in Nat
    BY DEF BufferAssumption
  <2>2. b.bytes \in [0..BufferSize -> Byte]
    BY <2>1 DEF Byte
  <2>3. b \in Buffers
    BY <2>1, <2>2 DEF Buffers
  <2> QED BY <1>1, <2>1, <2>3, ResetIsABuffer
<1>3. BInv(buffer)
  BY <1>2 DEF BInv, LastSearch, FoundEnd
<1>4. Unread(buffer) = <<>>
  BY <1>2, EmptyText DEF Unread
<1> QED BY <1>3, <1>4 DEF Init, InUse, ByteQueueOf!Init

LEMMA NextStep ==
  ASSUME BufferAssumption, BInv(buffer), [Next]_vars
  PROVE  BInv(buffer') /\ [ByteQueueOf!Next]_(ByteQueueOf!vars)
<1>1. CASE UNCHANGED vars
  BY <1>1 DEF vars, ByteQueueOf!vars, InUse
<1>2. CASE Next
  BY <1>2, ReceiveStep, SearchStep, ReadNewlineStep, ReadAllStep, ResetStep
     DEF Next, Call, InUse
<1> QED BY <1>1, <1>2

-----------------------------------------------------------------------------

(* Whatever its size, the buffer is a queue of bytes: what is read is what *)
(* was received, in order and once, however it was moved and searched.     *)
THEOREM Implements == ASSUME BufferAssumption PROVE Spec => IsByteQueue
<1>1. Init => BInv(buffer) /\ ByteQueueOf!Init
  BY InitHolds
<1>2. BInv(buffer) /\ [Next]_vars
        => BInv(buffer)' /\ [ByteQueueOf!Next]_(ByteQueueOf!vars)
  BY NextStep
<1> QED BY <1>1, <1>2, PTL DEF Spec, IsByteQueue, ByteQueueOf!Spec

-----------------------------------------------------------------------------
(* Why a search goes astray.                                               *)

(* As long as the calls are not mixed, the last search began where the     *)
(* unread bytes begin and stopped within its limit.                        *)
SearchGoesOn ==
  ~mixed =>
    /\ search = None => buffer.newline = None /\ buffer.lastFind = None
    /\ buffer.newline # None => buffer.current <= buffer.newline
    /\ buffer.lastFind # None =>
         /\ buffer.current <= buffer.lastFind
         /\ buffer.lastFind <= FindTo(buffer, search)

MInv ==
  /\ BInv(buffer)
  /\ search \in {None} \cup Limits /\ mixed \in BOOLEAN
  /\ SearchGoesOn
  /\ OnlyMixedSearchesGoAstray

LEMMA SearchIsDefined ==
  ASSUME BufferAssumption, MInv, NEW max \in Limits,
         ~mixed, search \in {None, max}
  PROVE  ~SearchIsUndefined(buffer, max)
<1>1. /\ BufferSize \in Nat /\ max \in Nat
      /\ buffer \in Buffers /\ buffer.current <= buffer.receive
  BY DEF MInv, BInv, BufferAssumption
<1>2. CASE buffer.newline # None
  BY <1>1, <1>2 DEF MInv, SearchGoesOn, SearchIsUndefined, Buffers, None
<1>3. CASE buffer.newline = None
  <2> DEFINE from == FindFrom(buffer)
             to == FindTo(buffer, max)
             S == CarriageReturns(buffer, max)
  <2>1. to \in buffer.current..buffer.receive
    BY <1>1 DEF FindTo, UseMaxLength, Buffers
  <2>2. from \in buffer.current..to
    <3>1. CASE buffer.lastFind = None
      BY <1>1, <2>1, <3>1 DEF FindFrom, Buffers
    <3>2. CASE buffer.lastFind # None
      <4>1. search = max
        BY <3>2 DEF MInv, SearchGoesOn
      <4> HIDE DEF to
      <4>2. buffer.current <= buffer.lastFind /\ buffer.lastFind <= to
        BY <3>2, <4>1 DEF MInv, SearchGoesOn, to
      <4> QED BY <1>1, <2>1, <3>2, <4>2 DEF FindFrom, Buffers, None
    <3> QED BY <3>1, <3>2
  <2>3. S # {} => Min(S) \in S
    <3>1. S \subseteq Nat
      <4>1. S \subseteq from..to - 1
        BY DEF CarriageReturns
      <4> HIDE DEF S, from, to
      <4> QED BY <1>1, <2>1, <2>2, <4>1 DEF Buffers
    <3> QED BY <3>1, LeastExists
  <2>4. FoundPos(buffer, max) \in from..to
    <3>1. S \subseteq from..to - 1
      BY DEF CarriageReturns
    <3>2. FoundPos(buffer, max) = IF S = {} THEN to ELSE Min(S)
      BY DEF FoundPos
    <3>3. from \in Int /\ to \in Int /\ from <= to
      BY <1>1, <2>1, <2>2 DEF Buffers
    <3> HIDE DEF S, from, to
    <3>4. CASE S = {}
      BY <3>2, <3>3, <3>4
    <3>5. CASE S # {}
      <4>1. Min(S) \in from..to - 1
        BY <2>3, <3>1, <3>5
      <4> QED BY <3>2, <3>3, <3>5, <4>1
    <3> QED BY <3>4, <3>5
  <2>5. SearchIsUndefined(buffer, max) <=>
          \/ from > to \/ FoundPos(buffer, max) < buffer.current
          \/ S = {} /\ to > BufferSize
    BY <1>3 DEF SearchIsUndefined
  <2> HIDE DEF S, from, to
  <2> QED BY <1>1, <2>1, <2>2, <2>4, <2>5 DEF Buffers
<1> QED BY <1>2, <1>3

(* More bytes and a move leave the pointers where they are in the line.    *)
LEMMA ReceiveGoesOn ==
  ASSUME BufferAssumption, MInv, NEW text \in Texts, ReceiveText(text)
  PROVE  SearchGoesOn'
<1> SUFFICES ASSUME ~mixed'
             PROVE  /\ search' = None => /\ buffer'.newline = None
                                         /\ buffer'.lastFind = None
                    /\ buffer'.newline # None =>
                         buffer'.current <= buffer'.newline
                    /\ buffer'.lastFind # None =>
                         /\ buffer'.current <= buffer'.lastFind
                         /\ buffer'.lastFind <= FindTo(buffer', search')
  BY DEF SearchGoesOn
<1> DEFINE n == Len(text)
           m == MakeSpace(buffer, n)
           d == IF n <= FreeSpace(buffer) THEN 0 ELSE buffer.current
<1>1. /\ BufferSize \in Nat /\ n \in Nat /\ text \in Seq(Byte)
      /\ BInv(buffer) /\ buffer \in Buffers /\ buffer.current <= buffer.receive
      /\ Fits(buffer, n) /\ ~PointerLeaves(buffer, n)
      /\ ~mixed /\ search' = search /\ buffer' = Put(m, text)
      /\ search \in {None} \cup Nat
  <2>1. /\ BufferSize \in Nat /\ text \in Seq(Byte)
        /\ search \in {None} \cup Nat
    BY DEF MInv, BufferAssumption
  <2>2. /\ BInv(buffer) /\ buffer \in Buffers
        /\ buffer.current <= buffer.receive
    BY DEF MInv, BInv
  <2>3. /\ Fits(buffer, n) /\ ~PointerLeaves(buffer, n)
        /\ ~mixed /\ search' = search /\ buffer' = Put(m, text)
    BY DEF ReceiveText
  <2> QED BY <2>1, <2>2, <2>3
<1>2. m \in Buffers
  BY <1>1, MakeSpaceKeeps DEF BInv
<1>3. /\ m.current = buffer.current - d /\ m.receive = buffer.receive - d
      /\ m.newline = IF buffer.newline = None THEN None
                                              ELSE buffer.newline - d
      /\ m.lastFind = IF buffer.lastFind = None THEN None
                                                ELSE buffer.lastFind - d
  BY <1>1 DEF MakeSpace, Moved, MovesAlong, Buffers, None
<1> HIDE DEF m
<1>4. /\ buffer'.current = m.current /\ buffer'.receive = m.receive + n
      /\ buffer'.newline = m.newline /\ buffer'.lastFind = m.lastFind
  BY <1>1, <1>2 DEF Put, Buffers
<1>5. d \in 0..buffer.current
  BY <1>1 DEF Buffers
<1> HIDE DEF d, n
<1>6. FindTo(buffer, search) - d <= FindTo(buffer', search')
  BY <1>1, <1>3, <1>4, <1>5 DEF FindTo, UseMaxLength, Buffers, None
<1>7. /\ FindTo(buffer, search) \in Int /\ FindTo(buffer', search') \in Int
  BY <1>1, <1>3, <1>4, <1>5 DEF FindTo, UseMaxLength, Buffers, None
<1>8. /\ search = None => buffer.newline = None /\ buffer.lastFind = None
      /\ buffer.newline # None => buffer.current <= buffer.newline
      /\ buffer.lastFind # None => /\ buffer.current <= buffer.lastFind
                                   /\ buffer.lastFind <= FindTo(buffer, search)
  BY <1>1 DEF MInv, SearchGoesOn
<1>9. CASE buffer.newline # None
  BY <1>1, <1>3, <1>4, <1>5, <1>6, <1>7, <1>8, <1>9 DEF Buffers, None
<1>10. CASE buffer.newline = None
  BY <1>1, <1>3, <1>4, <1>5, <1>6, <1>7, <1>8, <1>10 DEF Buffers, None
<1> QED BY <1>9, <1>10

LEMMA LeavesGoesOn ==
  ASSUME BufferAssumption, MInv, NEW max \in Limits, NEW r, Leaves(max, r)
  PROVE  SearchGoesOn'
<1>1. /\ BufferSize \in Nat /\ max \in Nat
      /\ BInv(buffer) /\ buffer \in Buffers /\ buffer.current <= buffer.receive
      /\ ~SearchIsUndefined(buffer, max)
      /\ buffer' = FindNewline(buffer, max) /\ search' = max
  BY DEF MInv, BInv, BufferAssumption, Leaves, Searches, Sought
<1>2. /\ buffer' \in Buffers /\ buffer'.receive = buffer.receive
      /\ buffer'.current = buffer.current
      /\ buffer'.newline # None => buffer.current <= buffer'.newline
  BY <1>1, SearchKeeps
<1>3. FindTo(buffer', max) = FindTo(buffer, max) /\ max # None
  BY <1>1, <1>2 DEF FindTo, UseMaxLength, None
<1>4. CASE buffer'.lastFind # None
  <2>1. buffer.newline = None
    BY <1>1, <1>4 DEF FindNewline, BInv, LastSearch
  <2>2. buffer'.lastFind = FoundPos(buffer, max)
    BY <1>1, <1>4, <2>1 DEF FindNewline, Buffers
  <2>3. /\ FindTo(buffer, max) \in buffer.current..buffer.receive
        /\ FoundPos(buffer, max) \in buffer.current..FindTo(buffer, max)
    BY <1>1, <2>1, SearchStops
  <2>4. /\ buffer.current <= buffer'.lastFind
        /\ buffer'.lastFind <= FindTo(buffer, max)
    BY <1>1, <2>2, <2>3 DEF Buffers
  <2> QED BY <1>1, <1>2, <1>3, <2>4 DEF SearchGoesOn
<1>5. CASE buffer'.lastFind = None
  BY <1>1, <1>2, <1>3, <1>5 DEF SearchGoesOn
<1> QED BY <1>4, <1>5

LEMMA TakesGoesOn ==
  ASSUME BufferAssumption, MInv, NEW max \in Limits, Takes(max),
         Sought(max).newline # None
  PROVE  SearchGoesOn'
<1>1. /\ BufferSize \in Nat /\ max \in Nat
      /\ BInv(buffer) /\ ~SearchIsUndefined(buffer, max)
      /\ ~EndIsStale(Sought(max))
      /\ buffer' = [Sought(max) EXCEPT !.current = Sought(max).newline + 2,
                                       !.newline = None]
  BY DEF MInv, BufferAssumption, Takes, Searches, AfterLine
<1>2. BInv(Sought(max)) /\ Sought(max) \in Buffers
  BY <1>1, SearchKeeps DEF Sought
<1>3. buffer'.newline = None /\ buffer'.lastFind = None
  BY <1>1, <1>2 DEF BInv, LastSearch, Buffers
<1> QED BY <1>3 DEF SearchGoesOn

LEMMA MInvStep ==
  ASSUME BufferAssumption, MInv, [Next]_vars
  PROVE  MInv'
<1>1. /\ BInv(buffer') /\ BInv(buffer)
      /\ buffer \in Buffers /\ buffer.current <= buffer.receive
  BY NextStep DEF MInv, BInv
<1>2. CASE UNCHANGED vars
  BY <1>2 DEF vars, MInv, SearchGoesOn, OnlyMixedSearchesGoAstray
<1>3. CASE Next /\ UNCHANGED <<buffer, search, mixed>> /\ astray' # "search"
  BY <1>1, <1>3 DEF MInv, SearchGoesOn, OnlyMixedSearchesGoAstray
<1>4. ASSUME NEW text \in Texts, Receive(text), astray = "no"
      PROVE  MInv'
  <2>1. CASE ReceiveText(text)
    <3>1. SearchGoesOn'
      BY <2>1, ReceiveGoesOn
    <3> QED
      BY <1>1, <1>4, <2>1, <3>1
         DEF ReceiveText, Returns, MInv, OnlyMixedSearchesGoAstray
  <2>2. CASE PointerLeaves(buffer, Len(text)) /\ GoesAstray("search")
    <3>1. mixed
      BY <1>1, <2>2
         DEF PointerLeaves, MInv, SearchGoesOn, Buffers, None
    <3> QED
      BY <1>1, <2>2, <3>1
         DEF GoesAstray, MInv, SearchGoesOn, OnlyMixedSearchesGoAstray
  <2>3. CASE ReceiveRefused(text) \/ GoesAstray("overlap")
    BY <1>1, <1>4, <2>3 DEF ReceiveRefused, GoesAstray, Returns, MInv,
         SearchGoesOn, OnlyMixedSearchesGoAstray
  <2> QED BY <1>4, <2>1, <2>2, <2>3 DEF Receive, ReceiveAstray
<1>5. ASSUME NEW max \in Limits, ReadLine(max) \/ RegexSearch(max),
             astray = "no"
      PROVE  MInv'
  <2>1. CASE SearchAstray(max)
    <3>1. mixed' /\ mixed' \in BOOLEAN
      BY <2>1, SearchIsDefined, Zenon DEF SearchAstray, Mixes, MInv
    <3> QED
      BY <1>1, <2>1, <3>1
         DEF SearchAstray, MInv, SearchGoesOn, OnlyMixedSearchesGoAstray
  <2>2. CASE SearchStale(max)
    BY <1>1, <2>2 DEF SearchStale, GoesAstray, MInv, SearchGoesOn,
         OnlyMixedSearchesGoAstray
  <2>3. ASSUME NEW r, Leaves(max, r) PROVE MInv'
    <3>1. SearchGoesOn'
      BY <2>3, LeavesGoesOn
    <3> QED
      BY <1>1, <1>5, <2>3, <3>1 DEF Leaves, Searches, Mixes, Returns, MInv,
           OnlyMixedSearchesGoAstray
  <2>4. CASE Takes(max) /\ Sought(max).newline # None
    <3>1. SearchGoesOn'
      BY <2>4, TakesGoesOn
    <3> QED
      BY <1>1, <1>5, <2>4, <3>1 DEF Takes, Searches, Mixes, Returns, MInv,
           OnlyMixedSearchesGoAstray
  <2> QED
    BY <1>5, <2>1, <2>2, <2>3, <2>4, Zenon
       DEF ReadLine, RegexSearch, Search, LineMissing
<1>6. ASSUME Consumes, astray' # "search",
             buffer'.lastFind = buffer.lastFind,
             buffer'.newline \in {None, buffer.newline}
      PROVE  MInv'
  BY <1>1, <1>6 DEF Consumes, MInv, SearchGoesOn, OnlyMixedSearchesGoAstray
<1>7. CASE ReadNewline /\ astray = "no"
  <2>1. CASE GoesAstray("stale") \/ UNCHANGED <<buffer, search, mixed, astray>>
    BY <1>1, <1>7, <2>1
       DEF GoesAstray, MInv, SearchGoesOn, OnlyMixedSearchesGoAstray
  <2>2. CASE Consumes /\ Returns("Found", <<>>)
               /\ buffer' = AfterNewline(buffer)
    BY <1>1, <1>6, <1>7, <2>2 DEF Returns, AfterNewline, Buffers
  <2> QED BY <1>7, <2>1, <2>2 DEF ReadNewline, Returns
<1>8. CASE ReadAll /\ astray = "no"
  BY <1>1, <1>6, <1>8 DEF ReadAll, Returns, AfterAll, Buffers
<1>9. CASE ResetBuffer /\ astray = "no"
  <2>1. buffer'.newline = None /\ buffer'.lastFind = None
    BY <1>1, <1>9, ResetIsABuffer DEF ResetBuffer, BufferAssumption
  <2> QED
    BY <1>1, <1>9, <2>1 DEF ResetBuffer, Returns, MInv, SearchGoesOn,
         OnlyMixedSearchesGoAstray
<1> QED
  BY <1>2, <1>4, <1>5, <1>7, <1>8, <1>9 DEF Next, Call

(* A search loses its way only in a program that has mixed its calls.      *)
THEOREM SearchesStayOnTrack ==
  ASSUME BufferAssumption PROVE Spec => []OnlyMixedSearchesGoAstray
<1>1. Init => MInv
  BY InitHolds DEF Init, Reset, MInv, SearchGoesOn, OnlyMixedSearchesGoAstray
<1>2. MInv /\ [Next]_vars => MInv'
  BY MInvStep
<1>3. MInv => OnlyMixedSearchesGoAstray
  BY DEF MInv
<1> QED BY <1>1, <1>2, <1>3, PTL DEF Spec


-----------------------------------------------------------------------------
(* What the calls return.                                                  *)

ReturnInv ==
  /\ result \in {"none", "true", "false", "Found", "NewlineNotFound",
                 "RegexNotFound", "ReachedMaxLength", "all"}
  /\ output \in Seq(Byte)
  /\ astray \in {"no", "overlap", "stale", "search"}

LEMMA LineIsText ==
  ASSUME BufferAssumption, BInv(buffer), InUse,
         NEW max \in Limits, Searches(max), Sought(max).newline # None
  PROVE  Line(Sought(max)) \in Seq(Byte)
<1>1. /\ BufferSize \in Nat /\ max \in Nat
      /\ ~SearchIsUndefined(buffer, max)
      /\ buffer \in Buffers /\ buffer.current <= buffer.receive
  BY DEF Searches, BufferAssumption, BInv
<1>2. Sought(max) \in Buffers /\ Sought(max).current = buffer.current
  BY <1>1, SearchKeeps DEF Sought
<1>3. Sought(max).newline \in buffer.current..buffer.receive
  BY FoundIsFirst
<1>4. PICK b, from, to : /\ b = Sought(max) /\ from = b.current
                         /\ to = b.newline
  OBVIOUS
<1>5. from \in 0..BufferSize /\ to \in from..BufferSize
  BY <1>1, <1>2, <1>3, <1>4 DEF Buffers
<1>6. Text(b, from, to) \in Seq(Byte)
  BY <1>1, <1>2, <1>4, <1>5, TextProperties
<1> QED BY <1>4, <1>6 DEF Line

LEMMA ReturnInvStep ==
  ASSUME BufferAssumption, BInv(buffer), ReturnInv, [Next]_vars
  PROVE  ReturnInv'
<1>1. <<>> \in Seq(Byte)
  OBVIOUS
<1>2. ASSUME NEW why \in {"overlap", "stale", "search"}, astray' = why,
             result' = "none", output' = <<>>
      PROVE  ReturnInv'
  BY <1>1, <1>2 DEF ReturnInv
<1>3. CASE UNCHANGED vars
  BY <1>3 DEF vars, ReturnInv
<1>4. ASSUME NEW text \in Texts, Receive(text) PROVE ReturnInv'
  BY <1>1, <1>2, <1>4
     DEF Receive, ReceiveRefused, ReceiveText, ReceiveAstray, Returns,
         GoesAstray, ReturnInv
<1>5. ASSUME NEW max \in Limits, ReadLine(max) \/ RegexSearch(max), InUse
      PROVE  ReturnInv'
  <2>1. CASE SearchAstray(max) \/ SearchStale(max)
    BY <1>2, <2>1 DEF SearchAstray, SearchStale, GoesAstray
  <2>2. ASSUME NEW r \in {"ReachedMaxLength", "NewlineNotFound",
                          "RegexNotFound"},
               Leaves(max, r)
        PROVE  ReturnInv'
    BY <1>1, <2>2 DEF Leaves, Returns, ReturnInv
  <2>3. CASE LineMissing(max)
    BY <2>2, <2>3 DEF LineMissing
  <2>4. CASE Takes(max) /\ Sought(max).newline # None
    <3>1. Line(Sought(max)) \in Seq(Byte)
      BY <1>5, <2>4, LineIsText DEF Takes
    <3> QED BY <2>4, <3>1 DEF Takes, Returns, ReturnInv
  <2> QED
    BY <1>5, <2>1, <2>2, <2>3, <2>4, Zenon DEF ReadLine, RegexSearch, Search
<1>6. CASE ReadNewline
  BY <1>1, <1>2, <1>6 DEF ReadNewline, GoesAstray, Returns, ReturnInv
<1>7. CASE ReadAll
  <2>1. Unread(buffer) \in Seq(Byte)
    BY UnreadProperties DEF BInv, BufferAssumption
  <2> QED BY <1>7, <2>1 DEF ReadAll, Returns, ReturnInv
<1>8. CASE ResetBuffer
  BY <1>1, <1>8 DEF ResetBuffer, Returns, ReturnInv
<1> QED BY <1>3, <1>4, <1>5, <1>6, <1>7, <1>8 DEF Next, Call, InUse

(* A buffer's pointers stay in it, and what it returns is text.            *)
THEOREM TypeCorrect == ASSUME BufferAssumption PROVE Spec => []TypeOK
<1> DEFINE TInv == MInv /\ ReturnInv
<1>1. Init => TInv
  <2>1. Init => MInv
    BY InitHolds DEF Init, Reset, MInv, SearchGoesOn,
       OnlyMixedSearchesGoAstray
  <2>2. Init => ReturnInv
    BY DEF Init, ReturnInv
  <2> QED BY <2>1, <2>2
<1>2. TInv /\ [Next]_vars => TInv'
  BY MInvStep, ReturnInvStep DEF MInv
<1>3. TInv => TypeOK
  <2> SUFFICES ASSUME TInv PROVE TypeOK
    OBVIOUS
  <2>1. buffer \in Buffers /\ buffer.current <= buffer.receive
    BY DEF MInv, BInv
  <2>2. buffer.current \in 0..buffer.receive
    BY <2>1 DEF Buffers
  <2> QED BY <2>1, <2>2 DEF MInv, ReturnInv, TypeOK, Buffers, Byte
<1> QED BY <1>1, <1>2, <1>3, PTL DEF Spec

=============================================================================
