---------------------------- MODULE RouterProofs ----------------------------
(* Theorems about Router: for any set of routes and paths, any expressions *)
(* in the tags and whatever they find, routes and requests in any order.   *)
EXTENDS Router, FiniteSetTheorems, SequenceTheorems, TLAPS

-----------------------------------------------------------------------------
(* Induction, stated with sets: a set holds a whole interval when it holds *)
(* its end and with each number the next one.                              *)

LEMMA LeastExists ==
  ASSUME NEW S, S \subseteq Nat, S # {}
  PROVE  Min(S) \in S /\ \A y \in S : Min(S) <= y
<1> DEFINE Below == {0..x : x \in S}
<1>1. \A x \in S : IsFiniteSet(0..x) /\ 0..x \subseteq Nat
  BY FS_Interval
<1>2. Below \subseteq FiniteSubsetsOf(Nat) /\ Below # {}
  BY <1>1, Zenon DEF FiniteSubsetsOf
<1>3. PICK b \in Below : \A c \in Below :
        ~(<<c, b>> \in StrictSubsetOrdering(Nat))
  <2> HIDE DEF Below
  <2> QED BY <1>2, FS_StrictSubsetOrderingWellFounded, WFMin
<1>4. PICK x \in S : b = 0..x
  OBVIOUS
<1>5. ASSUME NEW y \in S PROVE x <= y
  <2>1. ~(<<0..y, 0..x>> \in StrictSubsetOrdering(Nat))
    BY <1>3, <1>4
  <2>2. ~(0..y \subseteq 0..x /\ 0..y # 0..x)
    BY <2>1, <1>1 DEF StrictSubsetOrdering
  <2>3. x \in Nat /\ y \in Nat
    OBVIOUS
  <2>4. y < x => 0..y \subseteq 0..x /\ x \in 0..x /\ x \notin 0..y
    BY <2>3
  <2> QED BY <2>2, <2>3, <2>4
<1> QED BY <1>5 DEF Min

LEMMA Upward ==
  ASSUME NEW n \in Nat, NEW S, 0 \in S,
         \A i \in 1..n : i - 1 \in S => i \in S
  PROVE  \A i \in 0..n : i \in S
<1> DEFINE Missing == {i \in 0..n : i \notin S}
<1> SUFFICES ASSUME Missing # {} PROVE FALSE
  OBVIOUS
<1>1. Min(Missing) \in Missing /\ \A i \in Missing : Min(Missing) <= i
  <2> Missing \subseteq Nat
    OBVIOUS
  <2> QED BY LeastExists
<1>2. PICK m \in Missing : \A i \in Missing : m <= i
  BY <1>1
<1>3. m \in 1..n /\ m - 1 \in 0..n /\ m - 1 \notin Missing
  BY <1>2
<1> QED BY <1>3

LEMMA Downward ==
  ASSUME NEW n \in Nat, NEW S,
         \A i \in 1..n : (\A j \in i + 1..n : j \in S) => i \in S
  PROVE  \A i \in 1..n : i \in S
<1> DEFINE Done == {k \in 0..n : \A j \in n - k + 1..n : j \in S}
<1>1. 0 \in Done
  OBVIOUS
<1>2. ASSUME NEW k \in 1..n, k - 1 \in Done PROVE k \in Done
  <2>1. n - k + 1 \in 1..n /\ n - (k - 1) + 1 = (n - k + 1) + 1
    OBVIOUS
  <2>2. n - k + 1 \in S
    BY <1>2, <2>1
  <2>3. \A j \in n - k + 1..n : j = n - k + 1 \/ j \in n - (k - 1) + 1..n
    OBVIOUS
  <2> QED BY <1>2, <2>2, <2>3
<1>3. \A k \in 0..n : k \in Done
  <2> HIDE DEF Done
  <2> QED BY <1>1, <1>2, Upward
<1>4. n \in Done
  BY <1>3
<1> QED BY <1>4

(* A function whose value at i is made from its value at i - 1 exists, and *)
(* so does one whose value at i is made from one at a later place.         *)
Forward(f, n, first, step) ==
  f[0] = first /\ \A i \in 1..n : f[i] = step[i][f[i - 1]]

Backward(f, n, last, step, next) ==
  f[n + 1] = last /\ \A i \in 1..n : f[i] = step[i][f[next[i]]]

LEMMA UpwardFunction ==
  ASSUME NEW n \in Nat, NEW V, NEW first \in V, NEW step,
         step \in [1..n -> [V -> V]]
  PROVE  \E f \in [0..n -> V] : Forward(f, n, first, step)
<1> DEFINE Upto(k, f) == /\ f \in [0..k -> V] /\ f[0] = first
                         /\ \A i \in 1..k : f[i] = step[i][f[i - 1]]
           Done == {k \in 0..n : \E f : Upto(k, f)}
<1>1. 0 \in Done
  <2> DEFINE g == [i \in 0..0 |-> first]
  <2>1. Upto(0, g)
    OBVIOUS
  <2> HIDE DEF Upto, g
  <2> QED BY <2>1
<1>2. ASSUME NEW k \in 1..n, k - 1 \in Done PROVE k \in Done
  <2>1. PICK f : Upto(k - 1, f)
    BY <1>2
  <2> DEFINE g == [i \in 0..k |-> IF i = k THEN step[k][f[k - 1]] ELSE f[i]]
  <2>2. f[k - 1] \in V /\ step[k] \in [V -> V]
    BY <2>1
  <2>3. step[k][f[k - 1]] \in V
    BY <2>2
  <2>4. g \in [0..k -> V] /\ g[0] = first
    BY <2>1, <2>3
  <2>5. ASSUME NEW i \in 1..k PROVE g[i] = step[i][g[i - 1]]
    <3>1. i - 1 \in 0..k /\ i - 1 # k /\ (i # k => i \in 1..k - 1)
      OBVIOUS
    <3> QED BY <2>1, <3>1
  <2> HIDE DEF g
  <2>6. Upto(k, g)
    BY <2>4, <2>5
  <2> HIDE DEF Upto
  <2> QED BY <2>6
<1>3. \A k \in 0..n : k \in Done
  <2> HIDE DEF Done
  <2> QED BY <1>1, <1>2, Upward
<1>4. n \in Done
  BY <1>3
<1> QED BY <1>4 DEF Forward

LEMMA DownwardFunction ==
  ASSUME NEW n \in Nat, NEW V, NEW last \in V, NEW step, NEW next,
         step \in [1..n -> [V -> V]],
         \A i \in 1..n : next[i] \in i + 1..n + 1
  PROVE  \E f \in [1..n + 1 -> V] : Backward(f, n, last, step, next)
<1> DEFINE From(k, f) ==
             /\ f \in [n + 1 - k..n + 1 -> V] /\ f[n + 1] = last
             /\ \A i \in n + 1 - k..n : f[i] = step[i][f[next[i]]]
           Done == {k \in 0..n : \E f : From(k, f)}
<1>1. 0 \in Done
  <2> DEFINE g == [i \in n + 1..n + 1 |-> last]
  <2>1. From(0, g)
    OBVIOUS
  <2> HIDE DEF From, g
  <2> QED BY <2>1
<1>2. ASSUME NEW k \in 1..n, k - 1 \in Done PROVE k \in Done
  <2>1. PICK f : From(k - 1, f)
    BY <1>2
  <2>2. PICK m \in 1..n : m = n + 1 - k /\ n + 1 - (k - 1) = m + 1
    OBVIOUS
  <2>3. /\ f \in [m + 1..n + 1 -> V] /\ f[n + 1] = last
        /\ \A i \in m + 1..n : f[i] = step[i][f[next[i]]]
    BY <2>1, <2>2
  <2> DEFINE g == [i \in m..n + 1 |->
                     IF i = m THEN step[m][f[next[m]]] ELSE f[i]]
  <2>4. f[next[m]] \in V /\ step[m] \in [V -> V]
    BY <2>3
  <2>5. step[m][f[next[m]]] \in V
    BY <2>4
  <2>6. g \in [m..n + 1 -> V] /\ g[n + 1] = last
    BY <2>3, <2>5
  <2>7. ASSUME NEW i \in m..n PROVE g[i] = step[i][g[next[i]]]
    <3>1. next[i] \in m..n + 1 /\ next[i] # m /\ (i # m => i \in m + 1..n)
      OBVIOUS
    <3> QED BY <2>3, <3>1
  <2> HIDE DEF g
  <2>8. From(k, g)
    BY <2>2, <2>6, <2>7
  <2> HIDE DEF From
  <2> QED BY <2>8
<1>3. \A k \in 0..n : k \in Done
  <2> HIDE DEF Done
  <2> QED BY <1>1, <1>2, Upward
<1>4. n \in Done
  BY <1>3
<1> QED BY <1>4 DEF Backward

-----------------------------------------------------------------------------
(* A path that is cut gives a sequence of texts, whatever it looks like.   *)

LEMMA GreatestExists ==
  ASSUME NEW n \in Nat, NEW S, S \subseteq 0..n, S # {}
  PROVE  Max(S) \in S
<1> DEFINE T == {n - x : x \in S}
<1>1. T \subseteq Nat /\ T # {}
  <2>1. \A x \in S : x \in 0..n /\ n - x \in Nat
    OBVIOUS
  <2> QED BY <2>1
<1>2. PICK t \in T : \A y \in T : t <= y
  <2> HIDE DEF T
  <2> QED BY <1>1, LeastExists
<1>3. PICK x \in S : t = n - x
  OBVIOUS
<1>4. \A y \in S : x >= y
  BY <1>2, <1>3
<1> QED BY <1>4 DEF Max

LEMMA RunEndIs ==
  ASSUME NEW S, NEW s \in Seq(S), NEW i \in 1..Len(s) + 1
  PROVE  /\ RunEnd(s, i) \in i..Len(s) + 1
         /\ i <= Len(s) /\ s[i] # "/" => RunEnd(s, i) > i
<1> DEFINE X == {Len(s) + 1} \cup {j \in i..Len(s) : s[j] = "/"}
<1>1. X \subseteq i..Len(s) + 1 /\ X # {}
  OBVIOUS
<1>2. Min(X) \in X
  <2>1. X \subseteq Nat
    BY <1>1
  <2> HIDE DEF X
  <2> QED BY <1>1, <2>1, LeastExists
<1>3. RunEnd(s, i) = Min(X)
  BY DEF RunEnd
<1> QED BY <1>2, <1>3

(* What closes a tag that opens at j; the tags a run that begins at i      *)
(* reaches for; where it goes on behind the last of them.                  *)
Closes(s, j) == {k \in j + 1..Len(s) : s[k] = ">"}

Opens(s, i) == {j \in i..RunEnd(s, i) - 1 : s[j] = "<" /\ Closes(s, j) # {}}

Behind(s, i) == Min(Closes(s, Max(Opens(s, i)))) + 1

LEMMA DirEndStep ==
  ASSUME NEW S, NEW s \in Seq(S)
  PROVE  \A i \in 1..Len(s) + 1 :
           /\ Opens(s, i) # {} =>
                /\ i \in 1..Len(s) /\ Behind(s, i) \in i + 1..Len(s) + 1
                /\ Max(Opens(s, i)) \in Opens(s, i)
           /\ DirEnd(s, i) = IF Opens(s, i) = {} THEN RunEnd(s, i)
                             ELSE DirEnd(s, Behind(s, i))
<1> DEFINE n == Len(s)
           Closed(j) == {k \in j + 1..n : s[k] = ">"}
           open(i) == {j \in i..RunEnd(s, i) - 1 :
                         s[j] = "<" /\ Closed(j) # {}}
           after(i) == Min(Closed(Max(open(i)))) + 1
           Ends(end) ==
             end = [i \in 1..n + 1 |->
                      IF open(i) = {} THEN RunEnd(s, i) ELSE end[after(i)]]
           E == CHOOSE end : Ends(end)
<1>1. \A i : DirEnd(s, i) = E[i]
  BY DEF DirEnd
<1>0. n \in Nat
  OBVIOUS
<1>2. n \in Nat /\ \A i \in 1..n + 1 : RunEnd(s, i) \in i..n + 1
  BY RunEndIs
<1>3. ASSUME NEW i \in 1..n + 1, open(i) # {}
      PROVE  /\ i \in 1..n /\ after(i) \in i + 1..n + 1
             /\ Max(open(i)) \in open(i)
  <2>1. open(i) \subseteq 0..n
    BY <1>2
  <2>2. Max(open(i)) \in open(i)
    <3> HIDE DEF open, n
    <3> QED BY <1>2, <1>3, <2>1, GreatestExists
  <2>3. PICK j : /\ j = Max(open(i)) /\ j \in i..RunEnd(s, i) - 1
                 /\ Closed(j) # {}
    BY <2>2
  <2>4. j \in i..n
    <3> HIDE DEF n, open, Closed
    <3> QED BY <1>2, <2>3
  <2>8. Min(Closed(j)) \in Closed(j)
    <3>1. Closed(j) \subseteq Nat
      BY <1>2, <2>4
    <3> HIDE DEF Closed
    <3> QED BY <2>3, <3>1, LeastExists
  <2>5. Min(Closed(j)) \in j + 1..n
    BY <2>8
  <2>6. after(i) = Min(Closed(j)) + 1
    BY <2>3
  <2>7. PICK k \in j + 1..n : after(i) = k + 1
    <3> HIDE DEF after, Closed, n
    <3> QED BY <2>5, <2>6
  <2> HIDE DEF after, Closed, open, n
  <2> QED BY <1>2, <2>2, <2>4, <2>7
<1>4. open(n + 1) = {}
  BY <1>2
<1> HIDE DEF n, open, after
<1>5. \E end : Ends(end)
  <2> DEFINE next == [i \in 1..n |-> IF open(i) = {} THEN i + 1 ELSE after(i)]
             step == [i \in 1..n |-> [v \in Nat |->
                        IF open(i) = {} THEN RunEnd(s, i) ELSE v]]
  <2>1. step \in [1..n -> [Nat -> Nat]]
    BY <1>2
  <2>2. \A i \in 1..n : next[i] \in i + 1..n + 1
    BY <1>2, <1>3
  <2>3. n \in Nat /\ n + 1 \in Nat
    BY <1>2
  <2> HIDE DEF next, step
  <2>4. PICK f \in [1..n + 1 -> Nat] : Backward(f, n, n + 1, step, next)
    BY <2>1, <2>2, <2>3, DownwardFunction
  <2>5. ASSUME NEW i \in 1..n
        PROVE  f[i] = IF open(i) = {} THEN RunEnd(s, i) ELSE f[after(i)]
    <3>1. next[i] \in 1..n + 1
      BY <1>0, <2>2
    <3>5. f[next[i]] \in Nat
      BY <2>4, <3>1
    <3>2. f[i] = step[i][f[next[i]]]
      BY <2>4 DEF Backward
    <3>3. step[i][f[next[i]]] =
            IF open(i) = {} THEN RunEnd(s, i) ELSE f[next[i]]
      BY <3>5 DEF step
    <3>4. open(i) # {} => next[i] = after(i)
      BY DEF next
    <3> QED BY <3>2, <3>3, <3>4
  <2>6. f[n + 1] = RunEnd(s, n + 1)
    BY <1>2, <2>4 DEF Backward
  <2>7. \A i \in 1..n + 1 :
          f[i] = IF open(i) = {} THEN RunEnd(s, i) ELSE f[after(i)]
    <3>1. \A i \in 1..n + 1 : i \in 1..n \/ i = n + 1
      BY <1>0
    <3>2. f[n + 1] =
            IF open(n + 1) = {} THEN RunEnd(s, n + 1) ELSE f[after(n + 1)]
      BY <1>4, <2>6
    <3> QED BY <2>5, <3>1, <3>2
  <2>8. Ends(f)
    BY <2>7
  <2> HIDE DEF Ends
  <2> QED BY <2>8
<1>6. Ends(E)
  <2> HIDE DEF Ends
  <2> QED BY <1>5
<1>7. \A i \in 1..n + 1 :
        E[i] = IF open(i) = {} THEN RunEnd(s, i) ELSE E[after(i)]
  <2> HIDE DEF E
  <2> QED BY <1>6
<1> HIDE DEF E, Ends
<1>8. \A i : open(i) = Opens(s, i)
  BY DEF open, Opens, Closes, n
<1>9. \A i : after(i) = Behind(s, i)
  BY <1>8 DEF after, Behind, Closes, n
<1> QED BY <1>1, <1>3, <1>7, <1>8, <1>9 DEF n

LEMMA DirEndIs ==
  ASSUME NEW S, NEW s \in Seq(S), NEW first \in 1..Len(s) + 1
  PROVE  /\ DirEnd(s, first) \in first..Len(s) + 1
         /\ first <= Len(s) /\ s[first] # "/" => DirEnd(s, first) > first
<1> DEFINE n == Len(s)
<1>0. n \in Nat
  OBVIOUS
<1>2. n \in Nat /\ \A i \in 1..n + 1 : RunEnd(s, i) \in i..n + 1
  BY RunEndIs
<1>3. \A i \in 1..n + 1 : Opens(s, i) # {} =>
        i \in 1..n /\ Behind(s, i) \in i + 1..n + 1
  BY DirEndStep
<1>7. \A i \in 1..n + 1 :
        DirEnd(s, i) = IF Opens(s, i) = {} THEN RunEnd(s, i)
                       ELSE DirEnd(s, Behind(s, i))
  BY DirEndStep
<1> HIDE DEF n
<1>4. Opens(s, n + 1) = {}
  BY <1>2, <1>3
<1> DEFINE Fine == {i \in 1..n : /\ DirEnd(s, i) \in i..n + 1
                                 /\ s[i] # "/" => DirEnd(s, i) > i}
<1>8. DirEnd(s, n + 1) = n + 1
  BY <1>2, <1>4, <1>7
<1>9. ASSUME NEW i \in 1..n, \A j \in i + 1..n : j \in Fine
      PROVE  i \in Fine
  <2>1. CASE Opens(s, i) = {}
    <3>1. DirEnd(s, i) = RunEnd(s, i)
      BY <1>2, <1>7, <2>1
    <3>2. RunEnd(s, i) \in i..n + 1 /\ (s[i] # "/" => RunEnd(s, i) > i)
      BY <1>2, RunEndIs DEF n
    <3> QED BY <3>1, <3>2
  <2>2. CASE Opens(s, i) # {}
    <3>0. i \in 1..n + 1
      BY <1>2
    <3>5. Behind(s, i) \in i + 1..n + 1
      BY <1>3, <2>2, <3>0
    <3>6. DirEnd(s, i) = DirEnd(s, Behind(s, i))
      BY <1>7, <2>2, <3>0
    <3>1. PICK a \in i + 1..n + 1 :
            a = Behind(s, i) /\ DirEnd(s, i) = DirEnd(s, a)
      BY <3>5, <3>6
    <3>2. DirEnd(s, a) \in a..n + 1
      <4>1. CASE a = n + 1
        BY <1>2, <1>8, <4>1
      <4>2. CASE a # n + 1
        <5>1. a \in Fine
          BY <1>2, <1>9, <4>2
        <5> QED BY <5>1
      <4> QED BY <4>1, <4>2
    <3>3. DirEnd(s, i) \in i..n + 1 /\ DirEnd(s, i) > i
      BY <1>0, <3>1, <3>2
    <3> QED BY <3>3
  <2> QED BY <2>1, <2>2
<1>10. \A i \in 1..n : i \in Fine
  <2> HIDE DEF Fine
  <2> QED BY <1>2, <1>9, Downward
<1> QED BY <1>2, <1>8, <1>10 DEF n

IsCut(dirs, s, ends) ==
  dirs = [i \in 1..Len(s) + 1 |->
            IF i > Len(s) THEN <<>>
            ELSE <<SubSeq(s, SkipSlash(s, i), ends[SkipSlash(s, i)] - 1)>>
                   \o dirs[ends[SkipSlash(s, i)]]]

LEMMA CutAtEnds ==
  ASSUME NEW S, NEW s \in Seq(S), NEW ends,
         \A i \in 1..Len(s) + 1 :
           /\ ends[i] \in i..Len(s) + 1
           /\ i <= Len(s) /\ s[i] # "/" => ends[i] > i
  PROVE  /\ \E dirs : IsCut(dirs, s, ends)
         /\ \A dirs : IsCut(dirs, s, ends) => dirs[1] \in Seq(Seq(S))
<1> DEFINE n == Len(s)
           after(i) == ends[SkipSlash(s, i)]
           dir(i) == SubSeq(s, SkipSlash(s, i), after(i) - 1)
<1>1. n \in Nat
  OBVIOUS
<1>2. ASSUME NEW i \in 1..n
      PROVE  after(i) \in i + 1..n + 1 /\ dir(i) \in Seq(S)
  <2>1. PICK first \in {i, i + 1} :
          /\ first = SkipSlash(s, i) /\ (s[first] = "/" => first = i + 1)
    BY DEF SkipSlash
  <2>2. PICK e : e = ends[first] /\ e = after(i)
    BY <2>1
  <2>3. first \in 1..n + 1 /\ first >= i
    BY <2>1
  <2>4. e \in first..n + 1 /\ (first = i => e > i)
    BY <2>1, <2>2, <2>3
  <2> HIDE DEF n, after
  <2>5. e \in i + 1..n + 1
    BY <1>1, <2>1, <2>3, <2>4
  <2>6. \A k \in first..e - 1 : s[k] \in S
    BY <1>1, <2>3, <2>4 DEF n
  <2>7. SubSeq(s, first, e - 1) \in Seq(S)
    <3>1. first \in Int /\ e - 1 \in Int
      BY <1>1, <2>3, <2>4
    <3> QED BY <2>6, <3>1, SubSeqProperties
  <2> QED BY <2>1, <2>2, <2>5, <2>7
<1> DEFINE V == Seq(Seq(S))
           next == [i \in 1..n |-> after(i)]
           step == [i \in 1..n |-> [v \in V |-> <<dir(i)>> \o v]]
<1>3. ASSUME NEW i \in 1..n, NEW v \in V PROVE <<dir(i)>> \o v \in V
  <2>1. dir(i) \in Seq(S)
    BY <1>2
  <2>2. <<dir(i)>> \in Seq(Seq(S))
    BY <2>1
  <2> QED BY <2>2, ConcatProperties
<1>4. <<>> \in V
  OBVIOUS
<1>5. \A d : IsCut(d, s, ends) <=>
        d = [i \in 1..n + 1 |-> IF i > n THEN <<>>
                                ELSE <<dir(i)>> \o d[after(i)]]
  BY DEF IsCut
<1> HIDE DEF n, after, dir, V
<1>6. \E dirs : IsCut(dirs, s, ends)
  <2>1. step \in [1..n -> [V -> V]]
    BY <1>3
  <2>2. \A i \in 1..n : next[i] \in i + 1..n + 1
    BY <1>2
  <2> HIDE DEF next, step
  <2>3. PICK f \in [1..n + 1 -> V] : Backward(f, n, <<>>, step, next)
    BY <1>1, <1>4, <2>1, <2>2, DownwardFunction
  <2>4. ASSUME NEW i \in 1..n PROVE f[i] = <<dir(i)>> \o f[after(i)]
    <3>1. next[i] \in 1..n + 1 /\ next[i] = after(i)
      <4>1. next[i] \in 1..n + 1
        BY <1>1, <2>2
      <4> QED BY <4>1 DEF next
    <3>2. f[next[i]] \in V /\ f[i] = step[i][f[next[i]]]
      BY <2>3, <3>1 DEF Backward
    <3> QED BY <3>1, <3>2 DEF step
  <2>5. f[n + 1] = <<>>
    BY <2>3 DEF Backward
  <2>6. f = [i \in 1..n + 1 |-> IF i > n THEN <<>>
                                ELSE <<dir(i)>> \o f[after(i)]]
    <3>1. \A i \in 1..n + 1 : IF i > n THEN i = n + 1 ELSE i \in 1..n
      BY <1>1
    <3> QED BY <2>4, <2>5, <3>1
  <2> QED BY <1>5, <2>6
<1>7. ASSUME NEW d, IsCut(d, s, ends) PROVE d[1] \in V
  <2>1. \A i \in 1..n + 1 :
          d[i] = IF i > n THEN <<>> ELSE <<dir(i)>> \o d[after(i)]
    BY <1>5, <1>7
  <2> DEFINE Fine == {i \in 1..n : d[i] \in V}
  <2>2. d[n + 1] \in V
    <3>1. n + 1 \in 1..n + 1 /\ n + 1 > n
      BY <1>1
    <3> QED BY <1>4, <2>1, <3>1
  <2>3. ASSUME NEW i \in 1..n, \A j \in i + 1..n : j \in Fine
        PROVE  i \in Fine
    <3>1. PICK a \in i + 1..n + 1 : a = after(i)
      BY <1>2
    <3>2. d[a] \in V
      <4>1. a = n + 1 \/ a \in i + 1..n
        BY <1>1
      <4> QED BY <2>2, <2>3, <4>1
    <3>3. i \in 1..n + 1 /\ ~(i > n)
      BY <1>1
    <3>4. d[i] = <<dir(i)>> \o d[a]
      BY <2>1, <3>1, <3>3
    <3> QED BY <1>3, <3>2, <3>4
  <2>4. \A i \in 1..n : i \in Fine
    <3> HIDE DEF Fine
    <3> QED BY <1>1, <2>3, Downward
  <2>5. 1 \in 1..n \/ 1 = n + 1
    BY <1>1
  <2> QED BY <2>2, <2>4, <2>5
<1> QED BY <1>6, <1>7 DEF V

LEMMA CutRouteAt ==
  ASSUME NEW S, NEW s \in Seq(S)
  PROVE  \E dirs : /\ IsCut(dirs, s, [i \in 1..Len(s) + 1 |-> DirEnd(s, i)])
                   /\ CutRoute(s) = dirs[1]
<1> DEFINE ends == [i \in 1..Len(s) + 1 |-> DirEnd(s, i)]
           Cuts(dirs) ==
             dirs = [i \in 1..Len(s) + 1 |->
               IF i > Len(s) THEN <<>>
               ELSE <<SubSeq(s, SkipSlash(s, i),
                             DirEnd(s, SkipSlash(s, i)) - 1)>>
                      \o dirs[DirEnd(s, SkipSlash(s, i))]]
           C == CHOOSE dirs : Cuts(dirs)
<1>1. CutRoute(s) = C[1]
  BY DEF CutRoute, Cut
<1>2. \A i \in 1..Len(s) + 1 :
        /\ ends[i] \in i..Len(s) + 1
        /\ i <= Len(s) /\ s[i] # "/" => ends[i] > i
  BY DirEndIs
<1>3. \A i \in 1..Len(s) + 1 : i > Len(s) \/ SkipSlash(s, i) \in 1..Len(s) + 1
  BY DEF SkipSlash
<1>4. \A dirs : Cuts(dirs) <=> IsCut(dirs, s, ends)
  BY <1>3 DEF IsCut
<1> HIDE DEF ends, Cuts
<1>5. \E dirs : IsCut(dirs, s, ends)
  BY <1>2, CutAtEnds
<1>6. Cuts(C)
  BY <1>4, <1>5
<1> HIDE DEF C
<1> QED BY <1>1, <1>4, <1>6 DEF ends

LEMMA CutRouteIs ==
  ASSUME NEW S, NEW s \in Seq(S)
  PROVE  CutRoute(s) \in Seq(Seq(S))
<1> DEFINE ends == [i \in 1..Len(s) + 1 |-> DirEnd(s, i)]
<1>1. \A i \in 1..Len(s) + 1 :
        /\ ends[i] \in i..Len(s) + 1
        /\ i <= Len(s) /\ s[i] # "/" => ends[i] > i
  BY DirEndIs
<1>2. PICK dirs : IsCut(dirs, s, ends) /\ CutRoute(s) = dirs[1]
  BY CutRouteAt
<1> HIDE DEF ends
<1>3. dirs[1] \in Seq(Seq(S))
  BY <1>1, <1>2, CutAtEnds
<1> QED BY <1>2, <1>3

LEMMA CutRequestAt ==
  ASSUME NEW S, NEW s \in Seq(S)
  PROVE  \E dirs : /\ IsCut(dirs, s, [i \in 1..Len(s) + 1 |-> RunEnd(s, i)])
                   /\ CutRequest(s) = dirs[1]
<1> DEFINE ends == [i \in 1..Len(s) + 1 |-> RunEnd(s, i)]
           Cuts(dirs) ==
             dirs = [i \in 1..Len(s) + 1 |->
               IF i > Len(s) THEN <<>>
               ELSE <<SubSeq(s, SkipSlash(s, i),
                             RunEnd(s, SkipSlash(s, i)) - 1)>>
                      \o dirs[RunEnd(s, SkipSlash(s, i))]]
           C == CHOOSE dirs : Cuts(dirs)
<1>1. CutRequest(s) = C[1]
  BY DEF CutRequest, Cut
<1>2. \A i \in 1..Len(s) + 1 :
        /\ ends[i] \in i..Len(s) + 1
        /\ i <= Len(s) /\ s[i] # "/" => ends[i] > i
  BY RunEndIs
<1>3. \A i \in 1..Len(s) + 1 : i > Len(s) \/ SkipSlash(s, i) \in 1..Len(s) + 1
  BY DEF SkipSlash
<1>4. \A dirs : Cuts(dirs) <=> IsCut(dirs, s, ends)
  BY <1>3 DEF IsCut
<1> HIDE DEF ends, Cuts
<1>5. \E dirs : IsCut(dirs, s, ends)
  BY <1>2, CutAtEnds
<1>6. Cuts(C)
  BY <1>4, <1>5
<1> HIDE DEF C
<1> QED BY <1>1, <1>4, <1>6 DEF ends

LEMMA CutRequestIs ==
  ASSUME NEW S, NEW s \in Seq(S)
  PROVE  CutRequest(s) \in Seq(Seq(S))
<1> DEFINE ends == [i \in 1..Len(s) + 1 |-> RunEnd(s, i)]
<1>1. \A i \in 1..Len(s) + 1 :
        /\ ends[i] \in i..Len(s) + 1
        /\ i <= Len(s) /\ s[i] # "/" => ends[i] > i
  BY RunEndIs
<1>2. PICK dirs : IsCut(dirs, s, ends) /\ CutRequest(s) = dirs[1]
  BY CutRequestAt
<1> HIDE DEF ends
<1>3. dirs[1] \in Seq(Seq(S))
  BY <1>1, <1>2, CutAtEnds
<1> QED BY <1>2, <1>3

-----------------------------------------------------------------------------
(* Parts of a text.                                                        *)

(* Names for operators of Sequences: the proofs below use what is known of *)
(* them, not how they are defined.                                         *)
Part(s, i, j) == SubSeq(s, i, j)

Rest(s, p) == SubSeq(s, p, Len(s))

Joined(a, b) == a \o b

LEMMA PartIs ==
  ASSUME NEW S, NEW s \in Seq(S), NEW i \in 1..Len(s) + 1,
         NEW j \in i - 1..Len(s)
  PROVE  /\ Part(s, i, j) \in Seq(S) /\ Len(Part(s, i, j)) = j - i + 1
         /\ \A k \in 1..j - i + 1 : Part(s, i, j)[k] = s[i - 1 + k]
<1>1. \A k \in i..j : s[k] \in S
  OBVIOUS
<1>2. /\ i \in Int /\ j \in Int /\ (~(i <= j) => j - i + 1 = 0)
  OBVIOUS
<1>3. \A k \in 1..j - i + 1 : i - 1 + k = i + k - 1
  BY <1>2
<1>4. /\ SubSeq(s, i, j) \in Seq(S)
      /\ Len(SubSeq(s, i, j)) = IF i <= j THEN j - i + 1 ELSE 0
      /\ \A k \in 1..j - i + 1 : SubSeq(s, i, j)[k] = s[i + k - 1]
  BY <1>1, <1>2, SubSeqProperties
<1> QED BY <1>2, <1>3, <1>4 DEF Part

LEMMA RestIs ==
  ASSUME NEW S, NEW s \in Seq(S), NEW p \in 1..Len(s) + 1
  PROVE  /\ Rest(s, p) \in Seq(S) /\ Len(Rest(s, p)) = Len(s) - p + 1
         /\ \A i \in 1..Len(s) - p + 1 : Rest(s, p)[i] = s[p - 1 + i]
<1>1. Len(s) \in p - 1..Len(s)
  OBVIOUS
<1>2. /\ Part(s, p, Len(s)) \in Seq(S)
      /\ Len(Part(s, p, Len(s))) = Len(s) - p + 1
      /\ \A k \in 1..Len(s) - p + 1 : Part(s, p, Len(s))[k] = s[p - 1 + k]
  BY <1>1, PartIs
<1>3. Part(s, p, Len(s)) = Rest(s, p)
  BY Zenon DEF Part, Rest
<1> QED BY <1>2, <1>3

LEMMA JoinedIs ==
  ASSUME NEW S, NEW a \in Seq(S), NEW b \in Seq(S)
  PROVE  /\ Joined(a, b) \in Seq(S) /\ Len(Joined(a, b)) = Len(a) + Len(b)
         /\ \A i \in 1..Len(a) + Len(b) :
              Joined(a, b)[i] = IF i <= Len(a) THEN a[i] ELSE b[i - Len(a)]
BY ConcatProperties DEF Joined

LEMMA Regrouped ==
  ASSUME NEW S, NEW a \in Seq(S), NEW b \in Seq(S), NEW c \in Seq(S)
  PROVE  Joined(a, Joined(b, c)) = Joined(Joined(a, b), c)
<1>1. (a \o b) \o c = a \o (b \o c)
  BY ConcatAssociative
<1> QED BY <1>1, Zenon DEF Joined

-----------------------------------------------------------------------------
(* Where a tag closes.                                                     *)

LEMMA TagEndIs ==
  ASSUME NEW S, NEW s \in Seq(S)
  PROVE  /\ \A i \in 1..Len(s) + 2 :
              TagEnd(s, i) = IF i > Len(s) THEN 0
                             ELSE IF s[i] = ">" THEN i
                             ELSE IF s[i] = "\\" /\ TagEnd(s, i + 2) # 0
                               THEN TagEnd(s, i + 2)
                             ELSE TagEnd(s, i + 1)
         /\ \A i \in 1..Len(s) + 2 : TagEnd(s, i) \in {0} \cup i..Len(s)
<1> DEFINE n == Len(s)
           At(i, one, two) == IF s[i] = ">" THEN i
                              ELSE IF s[i] = "\\" /\ two # 0 THEN two
                              ELSE one
           Ends(end) ==
             end = [i \in 1..n + 2 |->
                      IF i > n THEN 0
                      ELSE IF s[i] = ">" THEN i
                      ELSE IF s[i] = "\\" /\ end[i + 2] # 0 THEN end[i + 2]
                      ELSE end[i + 1]]
           E == CHOOSE end : Ends(end)
<1>1. n \in Nat
  OBVIOUS
<1>2. \A i : TagEnd(s, i) = E[i]
  BY DEF TagEnd
<1> HIDE DEF n
<1>3. \E end : Ends(end)
  <2> DEFINE V == Nat \X Nat
             step == [i \in 1..n |-> [v \in V |-> <<At(i, v[1], v[2]), v[1]>>]]
             next == [i \in 1..n |-> i + 1]
  <2>1. step \in [1..n -> [V -> V]]
    BY <1>1
  <2>2. \A i \in 1..n : next[i] \in i + 1..n + 1
    BY <1>1
  <2>3. <<0, 0>> \in V
    OBVIOUS
  <2> HIDE DEF V, step, next
  <2>4. PICK f \in [1..n + 1 -> V] : Backward(f, n, <<0, 0>>, step, next)
    BY <1>1, <2>1, <2>2, <2>3, DownwardFunction
  <2>5. f[n + 1] = <<0, 0>>
    BY <2>4 DEF Backward
  <2>6. ASSUME NEW i \in 1..n
        PROVE  f[i] = <<At(i, f[i + 1][1], f[i + 1][2]), f[i + 1][1]>>
    <3>1. i + 1 \in 1..n + 1 /\ next[i] = i + 1
      BY <1>1 DEF next
    <3>2. f[i + 1] \in V /\ f[i] = step[i][f[i + 1]]
      BY <2>4, <3>1 DEF Backward
    <3> HIDE DEF At
    <3> QED BY <3>2 DEF step
  <2> DEFINE end == [i \in 1..n + 2 |-> IF i = n + 2 THEN 0 ELSE f[i][1]]
  <2>7. ASSUME NEW i \in 1..n
        PROVE  /\ end[i] = At(i, f[i + 1][1], f[i + 1][2])
               /\ f[i + 1][1] = end[i + 1] /\ f[i + 1][2] = end[i + 2]
    <3>1. /\ i \in 1..n + 2 /\ i # n + 2
          /\ i + 1 \in 1..n + 2 /\ i + 1 # n + 2 /\ i + 2 \in 1..n + 2
      BY <1>1
    <3>2. end[i] = f[i][1] /\ end[i + 1] = f[i + 1][1]
      BY <3>1
    <3>3. f[i][1] = At(i, f[i + 1][1], f[i + 1][2])
      <4> HIDE DEF At
      <4> QED BY <2>6
    <3>4. CASE i = n
      <4>1. f[i + 1] = <<0, 0>> /\ end[i + 2] = 0
        BY <2>5, <3>1, <3>4
      <4> QED BY <3>2, <3>3, <4>1
    <3>5. CASE i # n
      <4>1. i + 1 \in 1..n /\ i + 2 # n + 2 /\ (i + 1) + 1 = i + 2
        BY <1>1, <3>5
      <4>2. f[i + 1] = <<At(i + 1, f[i + 2][1], f[i + 2][2]), f[i + 2][1]>>
        <5> HIDE DEF At
        <5> QED BY <2>6, <4>1
      <4>3. f[i + 1][2] = f[i + 2][1] /\ end[i + 2] = f[i + 2][1]
        <5> HIDE DEF At
        <5> QED BY <3>1, <4>1, <4>2
      <4> QED BY <3>2, <3>3, <4>3
    <3> QED BY <3>4, <3>5
  <2>8. ASSUME NEW i \in 1..n + 2, i > n PROVE end[i] = 0
    BY <1>1, <2>5, <2>8
  <2>9. ASSUME NEW i \in 1..n + 2
        PROVE  end[i] = IF i > n THEN 0 ELSE At(i, end[i + 1], end[i + 2])
    <3>1. CASE i > n
      BY <2>8, <3>1
    <3>2. CASE ~(i > n)
      <4>1. i \in 1..n
        BY <1>1, <3>2
      <4> HIDE DEF end, At
      <4> QED BY <2>7, <3>2, <4>1
    <3> QED BY <3>1, <3>2
  <2>10. end \in [1..n + 2 -> {end[i] : i \in 1..n + 2}]
    OBVIOUS
  <2> HIDE DEF end
  <2>11. Ends(end)
    BY <2>9, <2>10
  <2> HIDE DEF Ends
  <2> QED BY <2>11
<1>4. Ends(E)
  <2> HIDE DEF Ends
  <2> QED BY <1>3
<1>5. \A i \in 1..n + 2 :
        E[i] = IF i > n THEN 0
               ELSE IF s[i] = ">" THEN i
               ELSE IF s[i] = "\\" /\ E[i + 2] # 0 THEN E[i + 2]
               ELSE E[i + 1]
  <2> HIDE DEF E
  <2> QED BY <1>4
<1> HIDE DEF E, Ends
<1> DEFINE Fine == {i \in 1..n : E[i] \in {0} \cup i..n}
<1>6. E[n + 1] = 0 /\ E[n + 2] = 0
  BY <1>1, <1>5
<1>7. ASSUME NEW i \in 1..n, \A j \in i + 1..n : j \in Fine
      PROVE  i \in Fine
  <2>1. \A j \in i + 1..n + 2 : E[j] \in {0} \cup i..n
    <3> SUFFICES ASSUME NEW j \in i + 1..n + 2 PROVE E[j] \in {0} \cup i..n
      OBVIOUS
    <3>1. j \in i + 1..n \/ j = n + 1 \/ j = n + 2
      BY <1>1
    <3>2. j \in i + 1..n => E[j] \in {0} \cup j..n
      BY <1>7
    <3> QED BY <1>1, <1>6, <3>1, <3>2
  <2>2. i \in 1..n + 2 /\ i + 1 \in i + 1..n + 2 /\ i + 2 \in i + 1..n + 2
    BY <1>1
  <2>3. E[i + 1] \in {0} \cup i..n /\ E[i + 2] \in {0} \cup i..n
    BY <2>1, <2>2
  <2>4. E[i] = IF s[i] = ">" THEN i
               ELSE IF s[i] = "\\" /\ E[i + 2] # 0 THEN E[i + 2]
               ELSE E[i + 1]
    BY <1>1, <1>5, <2>2
  <2>5. E[i] \in {i, E[i + 1], E[i + 2]}
    BY <2>4
  <2> QED BY <1>1, <2>3, <2>5
<1>8. \A i \in 1..n : i \in Fine
  <2> HIDE DEF Fine
  <2> QED BY <1>1, <1>7, Downward
<1>9. \A i \in 1..n + 2 : i \in 1..n \/ i = n + 1 \/ i = n + 2
  BY <1>1
<1>10. \A i \in 1..n + 2 : E[i] \in {0} \cup i..n
  BY <1>6, <1>8, <1>9
<1> QED BY <1>2, <1>5, <1>10 DEF n

(* In the rest of a text tags close where they do in the text.             *)
Shifted(end, by) == IF end = 0 THEN 0 ELSE end - by

LEMMA TagEndOfRest ==
  ASSUME NEW S, NEW s \in Seq(S), NEW p \in 1..Len(s) + 1, NEW t,
         t = Rest(s, p)
  PROVE  \A i \in 1..Len(t) + 2 :
           TagEnd(t, i) = Shifted(TagEnd(s, p - 1 + i), p - 1)
<1> DEFINE m == Len(t)
           n == Len(s)
           T(i) == TagEnd(t, i)
           E(i) == TagEnd(s, i)
           Fine == {i \in 1..m : T(i) = Shifted(E(p - 1 + i), p - 1)}
<1>1. n \in Nat /\ m \in Nat /\ m = n - p + 1 /\ t \in Seq(S)
      /\ \A i \in 1..m : t[i] = s[p - 1 + i]
  <2>1. /\ t \in Seq(S) /\ Len(t) = Len(s) - p + 1
        /\ \A i \in 1..Len(s) - p + 1 : t[i] = s[p - 1 + i]
    BY RestIs
  <2> QED BY <2>1
<1>2. \A i \in 1..m + 2 :
        T(i) = IF i > m THEN 0
               ELSE IF t[i] = ">" THEN i
               ELSE IF t[i] = "\\" /\ T(i + 2) # 0 THEN T(i + 2)
               ELSE T(i + 1)
  BY <1>1, TagEndIs
<1>3. \A i \in 1..n + 2 :
        E(i) = IF i > n THEN 0
               ELSE IF s[i] = ">" THEN i
               ELSE IF s[i] = "\\" /\ E(i + 2) # 0 THEN E(i + 2)
               ELSE E(i + 1)
  BY TagEndIs
<1>4. \A i \in 1..n + 2 : E(i) \in {0} \cup i..n
  BY TagEndIs
<1> HIDE DEF T, E, m, n
<1>5. ASSUME NEW i \in {m + 1, m + 2} PROVE T(i) = Shifted(E(p - 1 + i), p - 1)
  <2>1. i \in 1..m + 2 /\ i > m /\ p - 1 + i \in 1..n + 2 /\ p - 1 + i > n
    BY <1>1 DEF n
  <2> QED BY <1>2, <1>3, <2>1 DEF Shifted
<1>6. ASSUME NEW i \in 1..m, \A j \in i + 1..m : j \in Fine
      PROVE  i \in Fine
  <2>1. PICK k \in p..n : k = p - 1 + i
    BY <1>1 DEF n
  <2>2. p \in Nat \ {0}
    BY <1>1 DEF n
  <2>3. t[i] = s[k]
    BY <1>1, <2>1
  <2>4. \A j \in i + 1..m + 2 : T(j) = Shifted(E(p - 1 + j), p - 1)
    <3> SUFFICES ASSUME NEW j \in i + 1..m + 2
                 PROVE  T(j) = Shifted(E(p - 1 + j), p - 1)
      OBVIOUS
    <3>1. m \in Nat /\ i \in Nat /\ j \in Int /\ i + 1 <= j /\ j <= m + 2
      BY <1>1
    <3>2. j \in i + 1..m \/ j \in {m + 1, m + 2}
      <4> HIDE DEF Fine
      <4> QED BY <3>1
    <3> QED BY <1>5, <1>6, <3>2
  <2>5. /\ T(i + 1) = Shifted(E(k + 1), p - 1)
        /\ T(i + 2) = Shifted(E(k + 2), p - 1)
    <3>1. /\ i + 1 \in i + 1..m + 2 /\ i + 2 \in i + 1..m + 2
          /\ p - 1 + (i + 1) = k + 1 /\ p - 1 + (i + 2) = k + 2
      BY <1>1, <2>1, <2>2
    <3>2. /\ T(i + 1) = Shifted(E(p - 1 + (i + 1)), p - 1)
          /\ T(i + 2) = Shifted(E(p - 1 + (i + 2)), p - 1)
      BY <2>4, <3>1
    <3> QED BY <3>1, <3>2
  <2>6. k \in 1..n + 2 /\ ~(k > n) /\ k + 1 \in 1..n + 2 /\ k + 2 \in 1..n + 2
    BY <1>1, <2>1, <2>2
  <2>7. E(k) = IF s[k] = ">" THEN k
               ELSE IF s[k] = "\\" /\ E(k + 2) # 0 THEN E(k + 2)
               ELSE E(k + 1)
    BY <1>3, <2>6
  <2>8. T(i) = IF t[i] = ">" THEN i
               ELSE IF t[i] = "\\" /\ T(i + 2) # 0 THEN T(i + 2)
               ELSE T(i + 1)
    <3>1. i \in 1..m + 2 /\ ~(i > m)
      BY <1>1
    <3> QED BY <1>2, <3>1
  <2>9. E(k + 2) \in {0} \cup k + 2..n
    BY <1>4, <2>6
  <2>10. T(i + 2) # 0 <=> E(k + 2) # 0
    BY <1>1, <2>1, <2>2, <2>5, <2>9 DEF Shifted
  <2>11. i = Shifted(k, p - 1)
    BY <1>1, <2>1, <2>2 DEF Shifted
  <2>12. T(i) = Shifted(E(k), p - 1)
    <3>1. CASE s[k] = ">"
      BY <2>3, <2>7, <2>8, <2>11, <3>1
    <3>2. CASE s[k] # ">" /\ s[k] = "\\" /\ E(k + 2) # 0
      BY <2>3, <2>5, <2>7, <2>8, <2>10, <3>2
    <3>3. CASE s[k] # ">" /\ ~(s[k] = "\\" /\ E(k + 2) # 0)
      BY <2>3, <2>5, <2>7, <2>8, <2>10, <3>3
    <3> QED BY <3>1, <3>2, <3>3
  <2> QED BY <2>1, <2>12
<1>7. \A i \in 1..m : i \in Fine
  <2> HIDE DEF Fine
  <2> QED BY <1>1, <1>6, Downward
<1>8. \A i \in 1..m + 2 : i \in 1..m \/ i \in {m + 1, m + 2}
  BY <1>1
<1> QED BY <1>5, <1>7, <1>8 DEF T, E, m

LEMMA TagsOfRest ==
  ASSUME NEW S, NEW s \in Seq(S), NEW p \in 1..Len(s) + 1, NEW t,
         t = Rest(s, p)
  PROVE  \A i \in 1..Len(t) :
           /\ i \in TagStarts(t) <=> p - 1 + i \in TagStarts(s)
           /\ i \in TagStarts(t) =>
                \E end \in i + 1..Len(t) :
                  TagEnd(t, i + 1) = end /\ TagEnd(s, p + i) = p - 1 + end
<1> TAKE i \in 1..Len(t)
<1>1. /\ t \in Seq(S) /\ Len(t) = Len(s) - p + 1
      /\ t[i] = s[p - 1 + i] /\ Len(s) \in Nat /\ p \in Nat
  <2>1. /\ t \in Seq(S) /\ Len(t) = Len(s) - p + 1
        /\ \A k \in 1..Len(s) - p + 1 : t[k] = s[p - 1 + k]
    BY RestIs
  <2> QED BY <2>1
<1>2. DOMAIN t = 1..Len(t) /\ DOMAIN s = 1..Len(s)
  BY <1>1
<1>3. /\ p - 1 + i \in 1..Len(s) /\ i + 1 \in 1..Len(t) + 2
      /\ p - 1 + (i + 1) = p + i /\ (p - 1 + i) + 1 = p + i
      /\ p + i \in 1..Len(s) + 2
  BY <1>1
<1>4. TagEnd(t, i + 1) = Shifted(TagEnd(s, p + i), p - 1)
  <2>1. TagEnd(t, i + 1) = Shifted(TagEnd(s, p - 1 + (i + 1)), p - 1)
    BY <1>3, TagEndOfRest
  <2> QED BY <1>3, <2>1
<1>5. TagEnd(s, p + i) \in {0} \cup p + i..Len(s)
  BY <1>3, TagEndIs
<1>6. TagEnd(t, i + 1) = 0 <=> TagEnd(s, p + i) = 0
  BY <1>1, <1>4, <1>5 DEF Shifted
<1>7. i \in TagStarts(t) <=> t[i] = "<" /\ TagEnd(t, i + 1) # 0
  BY <1>2 DEF TagStarts
<1>8. p - 1 + i \in TagStarts(s) <=> s[p - 1 + i] = "<" /\ TagEnd(s, p + i) # 0
  BY <1>2, <1>3 DEF TagStarts
<1>9. ASSUME TagEnd(t, i + 1) # 0
      PROVE  \E end \in i + 1..Len(t) :
               TagEnd(t, i + 1) = end /\ TagEnd(s, p + i) = p - 1 + end
  <2>1. PICK end, b : end = TagEnd(t, i + 1) /\ b = TagEnd(s, p + i)
    OBVIOUS
  <2>2. end # 0 /\ b # 0 /\ end = b - (p - 1) /\ b \in p + i..Len(s)
    BY <1>4, <1>5, <1>6, <1>9, <2>1 DEF Shifted
  <2>3. end \in i + 1..Len(t) /\ b = p - 1 + end
    BY <1>1, <2>2
  <2> QED BY <2>1, <2>3
<1> QED BY <1>1, <1>6, <1>7, <1>8, <1>9

-----------------------------------------------------------------------------
(* A directory as a reader from left to right meets its tags.              *)

Letters(S) == S \cup {"(", ")", ".*"}

IsRead(from, s) ==
  /\ from[Len(s) + 1] = <<>>
  /\ \A i \in 1..Len(s) :
       from[i] = IF i \in TagStarts(s)
                   THEN Joined(Group(Part(s, i + 1, TagEnd(s, i + 1) - 1)),
                               from[TagEnd(s, i + 1) + 1])
                 ELSE Joined(<<s[i]>>, from[i + 1])

LEMMA GroupIs ==
  ASSUME NEW S, NEW data \in Seq(S)
  PROVE  Group(data) \in Seq(Letters(S))
<1> DEFINE T == Letters(S)
           inner == IF data = <<>> THEN <<".*">> ELSE data
<1>1. <<"(">> \in Seq(T) /\ <<")">> \in Seq(T) /\ <<".*">> \in Seq(T)
  BY DEF Letters
<1>2. inner \in Seq(T)
  <2>1. S \subseteq T
    BY DEF Letters
  <2>2. data \in Seq(T)
    BY <2>1, SeqMonotonic
  <2> QED BY <1>1, <2>2
<1>3. Group(data) = <<"(">> \o inner \o <<")">>
  BY DEF Group
<1> HIDE DEF T, inner
<1>4. <<"(">> \o inner \in Seq(T)
  BY <1>1, <1>2, ConcatProperties
<1>5. <<"(">> \o inner \o <<")">> \in Seq(T)
  BY <1>1, <1>4, ConcatProperties
<1> QED BY <1>3, <1>5 DEF T

LEMMA GroupedIs ==
  ASSUME NEW S, NEW s \in Seq(S)
  PROVE  \E from \in [1..Len(s) + 1 -> Seq(Letters(S))] :
           IsRead(from, s) /\ Grouped(s) = from[1]
<1> DEFINE n == Len(s)
           V == Seq(Letters(S))
           end(i) == TagEnd(s, i + 1)
           here(i) == IF i \in TagStarts(s)
                        THEN Group(SubSeq(s, i + 1, end(i) - 1))
                      ELSE <<s[i]>>
           after(i) == IF i \in TagStarts(s) THEN end(i) + 1 ELSE i + 1
           Reads(from) ==
             from = [i \in 1..n + 1 |->
                       IF i > n THEN <<>>
                       ELSE IF i \in TagStarts(s)
                         THEN Group(SubSeq(s, i + 1, end(i) - 1))
                                \o from[end(i) + 1]
                       ELSE <<s[i]>> \o from[i + 1]]
           F == CHOOSE from : Reads(from)
<1>1. n \in Nat /\ \A i \in 1..n : s[i] \in S
  OBVIOUS
<1>2. Grouped(s) = F[1]
  BY DEF Grouped
<1>3. ASSUME NEW i \in 1..n
      PROVE  here(i) \in V /\ after(i) \in i + 1..n + 1
  <2>1. CASE i \in TagStarts(s)
    <3>1. i + 1 \in 1..n + 2 /\ end(i) # 0
      BY <1>1, <2>1 DEF TagStarts
    <3>2. end(i) \in i + 1..n
      BY <1>1, <3>1, TagEndIs DEF n
    <3> HIDE DEF end, n, V
    <3>3. end(i) - 1 \in Int /\ i + 1 \in Int
          /\ \A k \in i + 1..end(i) - 1 : s[k] \in S
      BY <1>1, <3>2
    <3>4. SubSeq(s, i + 1, end(i) - 1) \in Seq(S)
      BY <3>3, SubSeqProperties
    <3>5. Group(SubSeq(s, i + 1, end(i) - 1)) \in V
      BY <3>4, GroupIs DEF V
    <3> QED BY <1>1, <2>1, <3>2, <3>5
  <2>2. CASE i \notin TagStarts(s)
    <3>1. s[i] \in Letters(S)
      BY <1>1 DEF Letters
    <3>2. <<s[i]>> \in V
      BY <3>1
    <3> QED BY <1>1, <2>2, <3>2
  <2> QED BY <2>1, <2>2
<1>4. \A from : Reads(from) <=>
        from = [i \in 1..n + 1 |-> IF i > n THEN <<>>
                                   ELSE here(i) \o from[after(i)]]
  <2> SUFFICES ASSUME NEW from
               PROVE  [i \in 1..n + 1 |->
                        IF i > n THEN <<>>
                        ELSE IF i \in TagStarts(s)
                          THEN Group(SubSeq(s, i + 1, end(i) - 1))
                                 \o from[end(i) + 1]
                        ELSE <<s[i]>> \o from[i + 1]]
                      = [i \in 1..n + 1 |-> IF i > n THEN <<>>
                                   ELSE here(i) \o from[after(i)]]
    OBVIOUS
  <2> HIDE DEF n, end
  <2> QED OBVIOUS
<1>5. \A i \in 1..n : \A from :
        here(i) \o from[after(i)] =
          IF i \in TagStarts(s)
            THEN Group(SubSeq(s, i + 1, end(i) - 1)) \o from[end(i) + 1]
          ELSE <<s[i]>> \o from[i + 1]
  BY Zenon
<1>10. <<>> \in V
  OBVIOUS
<1> HIDE DEF n, V, here, after, Reads
<1>6. \E from : Reads(from)
  <2> DEFINE next == [i \in 1..n |-> after(i)]
             step == [i \in 1..n |-> [v \in V |-> here(i) \o v]]
  <2>1. step \in [1..n -> [V -> V]]
    <3>1. \A i \in 1..n : \A v \in V : here(i) \o v \in V
      BY <1>3, ConcatProperties DEF V
    <3> QED BY <3>1
  <2>2. \A i \in 1..n : next[i] \in i + 1..n + 1
    BY <1>3
  <2> HIDE DEF next, step
  <2>3. PICK f \in [1..n + 1 -> V] : Backward(f, n, <<>>, step, next)
    BY <1>1, <1>10, <2>1, <2>2, DownwardFunction
  <2>4. ASSUME NEW i \in 1..n PROVE f[i] = here(i) \o f[after(i)]
    <3>1. next[i] \in 1..n + 1 /\ next[i] = after(i)
      <4>1. next[i] \in 1..n + 1
        BY <1>1, <2>2
      <4> QED BY <4>1 DEF next
    <3>2. f[next[i]] \in V /\ f[i] = step[i][f[next[i]]]
      BY <2>3, <3>1 DEF Backward
    <3> QED BY <3>1, <3>2 DEF step
  <2>5. f[n + 1] = <<>>
    BY <2>3 DEF Backward
  <2>6. f = [i \in 1..n + 1 |-> IF i > n THEN <<>> ELSE here(i) \o f[after(i)]]
    <3>1. \A i \in 1..n + 1 : IF i > n THEN i = n + 1 ELSE i \in 1..n
      BY <1>1
    <3> QED BY <2>4, <2>5, <3>1
  <2> QED BY <1>4, <2>6
<1>7. Reads(F)
  BY <1>6
<1> HIDE DEF F
<1>8. /\ F[n + 1] = <<>> /\ DOMAIN F = 1..n + 1
      /\ F = [i \in 1..n + 1 |-> F[i]]
      /\ \A i \in 1..n : F[i] = here(i) \o F[after(i)]
  <2>1. F = [i \in 1..n + 1 |-> IF i > n THEN <<>> ELSE here(i) \o F[after(i)]]
    BY <1>4, <1>7
  <2>2. n + 1 \in 1..n + 1 /\ n + 1 > n
    BY <1>1
  <2>3. \A i \in 1..n : i \in 1..n + 1 /\ ~(i > n)
    BY <1>1
  <2> QED BY <2>1, <2>2, <2>3
<1> DEFINE Fine == {i \in 1..n : F[i] \in V}
<1>9. ASSUME NEW i \in 1..n, \A j \in i + 1..n : j \in Fine
      PROVE  i \in Fine
  <2>1. after(i) \in i + 1..n \/ after(i) = n + 1
    <3>1. \A a \in i + 1..n + 1 : a \in i + 1..n \/ a = n + 1
      BY <1>1
    <3> QED BY <1>3, <3>1
  <2>2. F[after(i)] \in V
    BY <1>8, <1>9, <1>10, <2>1
  <2>3. here(i) \in V
    BY <1>3
  <2>4. here(i) \o F[after(i)] \in V
    BY <2>2, <2>3, ConcatProperties DEF V
  <2> QED BY <1>8, <2>4
<1>11. \A i \in 1..n : i \in Fine
  <2> HIDE DEF Fine
  <2> QED BY <1>1, <1>9, Downward
<1>12. \A i \in 1..n + 1 : i \in 1..n \/ i = n + 1
  BY <1>1
<1>13. F \in [1..n + 1 -> V]
  BY <1>8, <1>10, <1>11, <1>12
<1>14. IsRead(F, s)
  BY <1>5, <1>8 DEF IsRead, Joined, Part, n
<1> QED BY <1>2, <1>13, <1>14 DEF n, V

NoTag(s, p, q) == \A i \in p..q - 1 : i \notin TagStarts(s)

(* Where no tag begins the text stays as it is.                            *)
LEMMA ReadToTag ==
  ASSUME NEW S, NEW s \in Seq(S),
         NEW from \in [1..Len(s) + 1 -> Seq(Letters(S))], IsRead(from, s),
         NEW p \in 1..Len(s) + 1, NEW q \in p..Len(s) + 1,
         NoTag(s, p, q)
  PROVE  from[p] = Joined(Part(s, p, q - 1), from[q])
<1> DEFINE V == Seq(Letters(S))
           Fine == {d \in 0..q - p :
                      from[q - d] = Joined(Part(s, q - d, q - 1), from[q])}
<1>1. Len(s) \in Nat /\ q \in Nat /\ p \in Nat /\ q - p \in Nat
  OBVIOUS
<1>2. s \in V
  <2>1. S \subseteq Letters(S)
    BY DEF Letters
  <2> QED BY <2>1, SeqMonotonic
<1>3. \A i \in p..q : from[i] \in V
  BY <1>1
<1>4. 0 \in Fine
  <2>1. Part(s, q, q - 1) = <<>>
    BY <1>1, SubSeqEmpty DEF Part
  <2>2. Joined(<<>>, from[q]) = from[q]
    BY <1>1, <1>3, ConcatEmptySeq DEF Joined
  <2> QED BY <1>1, <2>1, <2>2
<1>5. ASSUME NEW d \in 1..q - p, d - 1 \in Fine PROVE d \in Fine
  <2>1. PICK i \in p..q - 1 : i = q - d /\ i + 1 = q - (d - 1)
    BY <1>1
  <2>2. i \in 1..Len(s) /\ q - 1 \in i..Len(s)
    BY <1>1
  <2>3. from[i] = Joined(<<s[i]>>, from[i + 1])
    BY <2>2 DEF IsRead, NoTag
  <2>4. from[i + 1] = Joined(Part(s, i + 1, q - 1), from[q])
    BY <1>5, <2>1
  <2>5. Part(s, i, q - 1) = Joined(<<s[i]>>, Part(s, i + 1, q - 1))
    <3>1. SubSeq(s, i, q - 1) = <<s[i]>> \o SubSeq(s, i + 1, q - 1)
      BY <2>2, SubSeqRecursiveFirst
    <3> QED BY <3>1, Zenon DEF Part, Joined
  <2>6. <<s[i]>> \in V
    <3>1. s[i] \in Letters(S)
      BY <2>2 DEF Letters
    <3> QED BY <3>1
  <2>7. Part(s, i + 1, q - 1) \in V
    <3>1. i + 1 \in 1..Len(s) + 1 /\ q - 1 \in i + 1 - 1..Len(s)
      BY <1>1, <2>2
    <3>2. PICK T, from1, to : T = Letters(S) /\ from1 = i + 1 /\ to = q - 1
      OBVIOUS
    <3>3. s \in Seq(T) /\ from1 \in 1..Len(s) + 1 /\ to \in from1 - 1..Len(s)
      BY <1>2, <3>1, <3>2
    <3>4. Part(s, from1, to) \in Seq(T)
      BY <3>3, PartIs
    <3> QED BY <3>2, <3>4
  <2>8. from[q] \in V
    BY <1>1, <1>3
  <2>9. Joined(<<s[i]>>, Joined(Part(s, i + 1, q - 1), from[q]))
          = Joined(Joined(<<s[i]>>, Part(s, i + 1, q - 1)), from[q])
    <3>1. PICK T, a, b, c : /\ T = Letters(S) /\ a = <<s[i]>>
                            /\ b = Part(s, i + 1, q - 1) /\ c = from[q]
      OBVIOUS
    <3>2. a \in Seq(T) /\ b \in Seq(T) /\ c \in Seq(T)
      BY <2>6, <2>7, <2>8, <3>1
    <3>3. Joined(a, Joined(b, c)) = Joined(Joined(a, b), c)
      BY <3>2, Regrouped
    <3> QED BY <3>1, <3>3
  <2> QED BY <1>1, <2>1, <2>3, <2>4, <2>5, <2>9
<1>6. \A d \in 0..q - p : d \in Fine
  <2> HIDE DEF Fine
  <2> QED BY <1>1, <1>4, <1>5, Upward
<1>7. q - p \in Fine /\ q - (q - p) = p
  <2>1. q - p \in 0..q - p /\ q - (q - p) = p
    BY <1>1
  <2> HIDE DEF Fine
  <2> QED BY <1>6, <2>1
<1> QED BY <1>7

-----------------------------------------------------------------------------
(* The loop that replaces the tags.                                        *)

LEMMA FrontIs ==
  ASSUME NEW S, NEW s \in Seq(S), NEW j \in 0..Len(s)
  PROVE  /\ Part(s, 1, j) \in Seq(S) /\ Len(Part(s, 1, j)) = j
         /\ \A k \in 1..j : Part(s, 1, j)[k] = s[k]
<1>1. \A k \in 1..j : s[k] \in S
  OBVIOUS
<1>2. j \in Int /\ 1 \in Int /\ (~(1 <= j) => j = 0)
  OBVIOUS
<1>3. \A k \in 1..j : 1 + k - 1 = k
  OBVIOUS
<1>5. j - 1 + 1 = j
  BY <1>2
<1>4. /\ SubSeq(s, 1, j) \in Seq(S)
      /\ Len(SubSeq(s, 1, j)) = IF 1 <= j THEN j - 1 + 1 ELSE 0
      /\ \A k \in 1..j - 1 + 1 : SubSeq(s, 1, j)[k] = s[1 + k - 1]
  BY <1>1, <1>2, SubSeqProperties
<1> QED BY <1>2, <1>3, <1>4, <1>5 DEF Part

LEMMA RestOfJoined ==
  ASSUME NEW T, NEW out \in Seq(T), NEW t \in Seq(T),
         NEW d \in 1..Len(t) + 1, NEW a \in Nat, a = Len(out) + d
  PROVE  Rest(Joined(out, t), a) = Rest(t, d)
<1>1. PICK all, k, m : all = Joined(out, t) /\ k = Len(out) /\ m = Len(t)
  OBVIOUS
<1>2. /\ all \in Seq(T) /\ Len(all) = k + m /\ k \in Nat /\ m \in Nat
      /\ \A i \in 1..k + m : all[i] = IF i <= k THEN out[i] ELSE t[i - k]
      /\ d \in 1..m + 1 /\ a = k + d
  <2>1. /\ all \in Seq(T) /\ Len(all) = Len(out) + Len(t)
        /\ \A i \in 1..Len(out) + Len(t) :
             all[i] = IF i <= Len(out) THEN out[i] ELSE t[i - Len(out)]
    BY <1>1, JoinedIs
  <2> QED BY <1>1, <2>1
<1>3. a \in 1..Len(all) + 1 /\ Len(all) - a = Len(t) - d
  BY <1>1, <1>2
<1>12. /\ k \in Nat /\ m \in Nat /\ d \in 1..m + 1 /\ a = k + d
       /\ Len(all) = k + m
  BY <1>2, Zenon
<1>11. /\ k \in Nat /\ m \in Nat /\ d \in 1..m + 1 /\ a = k + d
       /\ Len(all) - a + 1 = m - d + 1
  BY <1>12
<1>4. ASSUME NEW x \in 1..m - d + 1
      PROVE  all[a - 1 + x] = t[d - 1 + x]
  <2>1. PICK y : y = a - 1 + x
    OBVIOUS
  <2>2. y \in 1..k + m /\ y - k = d - 1 + x /\ ~(y <= k)
    BY <1>11, <2>1
  <2>3. all[y] = t[y - k]
    BY <1>2, <2>2
  <2> QED BY <2>1, <2>2, <2>3, Zenon
<1>5. PICK b, c : b = Rest(all, a) /\ c = Rest(t, d)
  OBVIOUS
<1>6. /\ b \in Seq(T) /\ Len(b) = Len(all) - a + 1
      /\ \A x \in 1..Len(all) - a + 1 : b[x] = all[a - 1 + x]
  BY <1>2, <1>3, <1>5, RestIs
<1>7. /\ c \in Seq(T) /\ Len(c) = Len(t) - d + 1
      /\ \A x \in 1..Len(t) - d + 1 : c[x] = t[d - 1 + x]
  BY <1>5, RestIs
<1>8. Len(b) = Len(c)
  BY <1>2, <1>3, <1>6, <1>7
<1>9. ASSUME NEW x \in 1..Len(b) PROVE b[x] = c[x]
  <2>1. x \in 1..m - d + 1
        /\ x \in 1..Len(all) - a + 1 /\ x \in 1..Len(t) - d + 1
    BY <1>6, <1>7, <1>8, <1>11
  <2>2. b[x] = all[a - 1 + x] /\ c[x] = t[d - 1 + x]
    BY <1>6, <1>7, <2>1
  <2> QED BY <1>4, <2>1, <2>2, Zenon
<1>10. b = c
  BY <1>6, <1>7, <1>8, <1>9, SeqEqual
<1> QED BY <1>1, <1>5, <1>10, Zenon

(* Behind out, a group is put in the place of a tag.                       *)
Splices(out, T) ==
  \A t, group \in Seq(T) :
    \A start \in 1..Len(t) : \A end \in start + 1..Len(t) :
      \A k \in Nat : k = Len(out) =>
        Replace(Joined(out, t), k + start - 1, end - start + 1, group)
          = Joined(Joined(Joined(out, Part(t, 1, start - 1)), group),
                   Rest(t, end + 1))

LEMMA Spliced == ASSUME NEW T, NEW out \in Seq(T) PROVE Splices(out, T)
<1> SUFFICES ASSUME NEW t \in Seq(T), NEW group \in Seq(T),
                    NEW start \in 1..Len(t), NEW end \in start + 1..Len(t),
                    NEW k \in Nat, k = Len(out)
             PROVE  Replace(Joined(out, t), k + start - 1, end - start + 1,
                            group)
                      = Joined(Joined(Joined(out, Part(t, 1, start - 1)),
                                      group),
                               Rest(t, end + 1))
  BY DEF Splices
<1>1. PICK all, m : all = Joined(out, t) /\ m = Len(t)
  OBVIOUS
<1>2. /\ m \in Nat /\ all \in Seq(T) /\ Len(all) = k + m
      /\ \A i \in 1..k + m : all[i] = IF i <= k THEN out[i] ELSE t[i - k]
      /\ start \in 1..m /\ end \in start + 1..m
  <2>1. /\ all \in Seq(T) /\ Len(all) = Len(out) + Len(t)
        /\ \A i \in 1..Len(out) + Len(t) :
             all[i] = IF i <= Len(out) THEN out[i] ELSE t[i - Len(out)]
    BY <1>1, JoinedIs
  <2>2. Len(out) + Len(t) = k + m /\ m \in Nat
    BY <1>1
  <2> QED BY <1>1, <2>1, <2>2
<1>12. PICK to \in Nat : to = k + start - 1
  <2>1. k + start - 1 \in Nat
    OBVIOUS
  <2> QED BY <2>1
<1>3. PICK front, left, right :
        /\ front = Part(t, 1, start - 1) /\ left = Part(all, 1, to)
        /\ right = Joined(out, front)
  OBVIOUS
<1>4. /\ front \in Seq(T) /\ Len(front) = start - 1
      /\ \A i \in 1..start - 1 : front[i] = t[i]
  <2>1. PICK l \in 0..Len(t) : l = start - 1
    BY <1>1, <1>2
  <2>2. /\ Part(t, 1, l) \in Seq(T) /\ Len(Part(t, 1, l)) = l
        /\ \A x \in 1..l : Part(t, 1, l)[x] = t[x]
    BY FrontIs
  <2> QED BY <1>3, <2>1, <2>2
<1>5. /\ left \in Seq(T) /\ Len(left) = to
      /\ \A i \in 1..to : left[i] = all[i]
  <2>1. to \in 1 - 1..Len(all) /\ 1 \in 1..Len(all) + 1
    BY <1>2, <1>3, <1>12
  <2>2. /\ left \in Seq(T) /\ Len(left) = to
        /\ \A i \in 1..to : left[i] = all[i]
    <3>1. PICK r \in 0..Len(all) : r = to
      BY <2>1
    <3>2. left = Part(all, 1, r)
      BY <1>3, <3>1
    <3>3. /\ Part(all, 1, r) \in Seq(T) /\ Len(Part(all, 1, r)) = r
          /\ \A x \in 1..r : Part(all, 1, r)[x] = all[x]
      BY <1>2, FrontIs
    <3> QED BY <3>1, <3>2, <3>3
  <2> QED BY <2>2
<1>6. /\ right \in Seq(T) /\ Len(right) = to
      /\ \A i \in 1..to : right[i] = IF i <= k THEN out[i] ELSE front[i - k]
  <2>1. /\ right \in Seq(T) /\ Len(right) = Len(out) + Len(front)
        /\ \A i \in 1..Len(out) + Len(front) :
             right[i] = IF i <= Len(out) THEN out[i] ELSE front[i - Len(out)]
    BY <1>3, <1>12, <1>4, JoinedIs
  <2>2. Len(out) + Len(front) = to
    BY <1>2, <1>3, <1>12, <1>4
  <2> QED BY <2>1, <2>2
<1>7. left = right
  <2>1. ASSUME NEW i \in 1..to PROVE left[i] = right[i]
    <3>1. i \in 1..k + m /\ (~(i <= k) => i - k \in 1..start - 1)
      BY <1>2, <1>3, <1>12
    <3>2. /\ left[i] = all[i]
          /\ right[i] = IF i <= k THEN out[i] ELSE front[i - k]
      BY <1>5, <1>6
    <3>3. all[i] = IF i <= k THEN out[i] ELSE t[i - k]
      BY <1>2, <3>1
    <3>4. ~(i <= k) => front[i - k] = t[i - k]
      BY <1>4, <3>1
    <3> QED BY <3>2, <3>3, <3>4
  <2> QED BY <1>5, <1>6, <2>1, SeqEqual
<1>8. PICK a, b, d \in Int : a = k + end + 1 /\ b = k + m /\ d = end + 1
  BY <1>2
<1>9. Rest(all, a) = Rest(t, d)
  <2>1. d \in 1..Len(t) + 1 /\ a \in Nat /\ a = Len(out) + d
    BY <1>1, <1>2, <1>8
  <2>2. PICK x, y : x = a /\ y = d
    OBVIOUS
  <2>3. Rest(Joined(out, t), x) = Rest(t, y)
    BY <2>1, <2>2, RestOfJoined
  <2> QED BY <1>1, <2>2, <2>3, Zenon
<1>10. Replace(all, to, end - start + 1, group)
         = Joined(Joined(left, group), Rest(all, a))
  <2>1. to + (end - start + 1) + 1 = a /\ Len(all) = b
    BY <1>2, <1>3, <1>12, <1>8
  <2>2. Replace(all, to, end - start + 1, group) =
          SubSeq(all, 1, to) \o group
            \o SubSeq(all, to + (end - start + 1) + 1, Len(all))
    BY Zenon DEF Replace
  <2> QED BY <1>3, <2>1, <2>2, Zenon DEF Joined, Part, Rest
<1> QED BY <1>1, <1>3, <1>7, <1>8, <1>9, <1>10, <1>12, Zenon

(* The text before a tag of the rest, the tag and the text behind it.      *)
LEMMA PiecesOfRest ==
  ASSUME NEW S, NEW s \in Seq(S), NEW p \in 1..Len(s) + 1, NEW t,
         t = Rest(s, p),
         NEW start \in 1..Len(t), NEW end \in start + 1..Len(t)
  PROVE  /\ Part(t, 1, start - 1) = Part(s, p, p - 1 + start - 1)
         /\ Part(t, start + 1, end - 1)
              = Part(s, p + start, p - 1 + end - 1)
         /\ Rest(t, end + 1) = Rest(s, p + end)
<1>1. PICK n, m : n = Len(s) /\ m = Len(t)
  OBVIOUS
<1>2. /\ t \in Seq(S) /\ m = n - p + 1 /\ m \in Nat /\ n \in Nat /\ p \in Nat
      /\ \A i \in 1..m : t[i] = s[p - 1 + i]
  <2>1. /\ t \in Seq(S) /\ Len(t) = Len(s) - p + 1
        /\ \A i \in 1..Len(s) - p + 1 : t[i] = s[p - 1 + i]
    BY RestIs
  <2> QED BY <1>1, <2>1
<1>3. /\ start \in Nat \ {0} /\ end \in Nat /\ start + 1 <= end /\ end <= m
      /\ p >= 1 /\ p <= n + 1 /\ m = n - p + 1 /\ n \in Nat /\ m \in Nat
      /\ p \in Nat
  BY <1>1, <1>2
<1>7. PICK a, b, c, d, e, f \in Int :
        /\ a = start - 1 /\ b = p - 1 + start - 1
        /\ c = start + 1 /\ d = end - 1
        /\ e = p + start /\ f = p - 1 + end - 1
  BY <1>3
<1>4. Part(t, 1, a) = Part(s, p, b)
  <2>1. /\ 1 \in 1..Len(t) + 1 /\ a \in 1 - 1..Len(t)
        /\ p \in 1..Len(s) + 1 /\ b \in p - 1..Len(s) /\ b - p = a - 1
    BY <1>1, <1>3, <1>7
  <2>2. ASSUME NEW x \in 1..a - 1 + 1 PROVE t[1 - 1 + x] = s[p - 1 + x]
    <3>1. x \in 1..m /\ 1 - 1 + x = x
      BY <1>3, <1>7
    <3> QED BY <1>2, <3>1
  <2>3. t \in Seq(S)
    BY <1>2
  <2>4. PICK u, v : u = Part(t, 1, a) /\ v = Part(s, p, b)
    OBVIOUS
  <2>5. /\ u \in Seq(S) /\ Len(u) = a - 1 + 1
        /\ \A x \in 1..a - 1 + 1 : u[x] = t[1 - 1 + x]
    <3>1. PICK l \in 0..Len(t) : l = a
      BY <2>1
    <3>2. /\ Part(t, 1, l) \in Seq(S) /\ Len(Part(t, 1, l)) = l
          /\ \A x \in 1..l : Part(t, 1, l)[x] = t[x]
      BY <2>3, FrontIs
    <3>3. u \in Seq(S) /\ Len(u) = a /\ \A x \in 1..a : u[x] = t[x]
      BY <2>4, <3>1, <3>2
    <3>4. a - 1 + 1 = a /\ \A x \in 1..a : 1 - 1 + x = x
      OBVIOUS
    <3> QED BY <3>3, <3>4
  <2>6. /\ v \in Seq(S) /\ Len(v) = b - p + 1
        /\ \A x \in 1..b - p + 1 : v[x] = s[p - 1 + x]
    BY <2>1, <2>4, PartIs
  <2>7. a - 1 + 1 = b - p + 1
    BY <1>1, <1>3, <1>7
  <2>8. Len(u) = Len(v) /\ \A x \in 1..Len(u) : u[x] = v[x]
    BY <2>2, <2>5, <2>6, <2>7
  <2>9. u = v
    BY <2>5, <2>6, <2>8, SeqEqual
  <2> QED BY <2>4, <2>9
<1>5. Part(t, c, d) = Part(s, e, f)
  <2>1. /\ c \in 1..Len(t) + 1 /\ d \in c - 1..Len(t)
        /\ e \in 1..Len(s) + 1 /\ f \in e - 1..Len(s) /\ f - e = d - c
    BY <1>1, <1>3, <1>7
  <2>2. ASSUME NEW x \in 1..d - c + 1 PROVE t[c - 1 + x] = s[e - 1 + x]
    <3>1. c - 1 + x \in 1..m /\ p - 1 + (c - 1 + x) = e - 1 + x
      BY <1>3, <1>7
    <3> QED BY <1>2, <3>1
  <2>3. t \in Seq(S)
    BY <1>2
  <2>4. PICK u, v : u = Part(t, c, d) /\ v = Part(s, e, f)
    OBVIOUS
  <2>5. /\ u \in Seq(S) /\ Len(u) = d - c + 1
        /\ \A x \in 1..d - c + 1 : u[x] = t[c - 1 + x]
    BY <2>1, <2>3, <2>4, PartIs
  <2>6. /\ v \in Seq(S) /\ Len(v) = f - e + 1
        /\ \A x \in 1..f - e + 1 : v[x] = s[e - 1 + x]
    BY <2>1, <2>4, PartIs
  <2>7. d - c + 1 = f - e + 1
    BY <1>1, <1>3, <1>7
  <2>8. Len(u) = Len(v) /\ \A x \in 1..Len(u) : u[x] = v[x]
    BY <2>2, <2>5, <2>6, <2>7
  <2>9. u = v
    BY <2>5, <2>6, <2>8, SeqEqual
  <2> QED BY <2>4, <2>9
<1>6. Rest(t, end + 1) = Rest(s, p + end)
  <2>1. PICK g, h \in Int : g = end + 1 /\ h = p + end
    BY <1>3
  <2>10. /\ g \in 1..Len(t) + 1 /\ h \in 1..Len(s) + 1
         /\ Len(t) - g = Len(s) - h
    BY <1>1, <1>3, <2>1
  <2>2. ASSUME NEW x \in 1..Len(t) - g + 1 PROVE t[g - 1 + x] = s[h - 1 + x]
    <3>1. g - 1 + x \in 1..m /\ p - 1 + (g - 1 + x) = h - 1 + x
      BY <1>1, <1>3, <2>1
    <3> QED BY <1>2, <3>1
  <2>3. t \in Seq(S)
    BY <1>2
  <2>4. PICK u, v : u = Rest(t, g) /\ v = Rest(s, h)
    OBVIOUS
  <2>5. /\ u \in Seq(S) /\ Len(u) = Len(t) - g + 1
        /\ \A x \in 1..Len(t) - g + 1 : u[x] = t[g - 1 + x]
    BY <2>10, <2>3, <2>4, RestIs
  <2>6. /\ v \in Seq(S) /\ Len(v) = Len(s) - h + 1
        /\ \A x \in 1..Len(s) - h + 1 : v[x] = s[h - 1 + x]
    BY <2>10, <2>4, RestIs
  <2>7. Len(t) - g + 1 = Len(s) - h + 1
    BY <1>1, <1>3, <2>1
  <2>8. Len(u) = Len(v) /\ \A x \in 1..Len(u) : u[x] = v[x]
    BY <2>2, <2>5, <2>6, <2>7
  <2>9. u = v
    BY <2>5, <2>6, <2>8, SeqEqual
  <2> QED BY <2>1, <2>4, <2>9, Zenon
<1> QED BY <1>4, <1>5, <1>6, <1>7, Zenon

(* The first tag of the rest t of s that begins at p: in t it is between   *)
(* start and end.                                                          *)
FirstTag(s, p, t, start, end) ==
  /\ t = Rest(s, p) /\ start \in 1..Len(t) /\ end \in start + 1..Len(t)
  /\ p - 1 + start \in TagStarts(s) /\ TagEnd(s, p + start) = p - 1 + end
  /\ NoTag(s, p, p - 1 + start)

LEMMA FirstTagIs ==
  ASSUME NEW S, NEW s \in Seq(S), NEW p \in 1..Len(s) + 1, NEW t,
         t = Rest(s, p), HasTags(t)
  PROVE  \E start \in 1..Len(t) : \E end \in start + 1..Len(t) :
           /\ start = Min(TagStarts(t)) /\ end = TagEnd(t, start + 1)
           /\ FirstTag(s, p, t, start, end)
<1>1. /\ t \in Seq(S) /\ Len(t) = Len(s) - p + 1
      /\ Len(t) \in Nat /\ p \in Nat
  <2>1. t \in Seq(S) /\ Len(t) = Len(s) - p + 1
    BY RestIs
  <2> QED BY <2>1
<1>2. TagStarts(t) \subseteq 1..Len(t) /\ TagStarts(t) # {}
  BY <1>1 DEF TagStarts, HasTags
<1>3. PICK start \in 1..Len(t) : /\ start = Min(TagStarts(t))
                                /\ start \in TagStarts(t)
                                /\ \A i \in TagStarts(t) : start <= i
  <2>1. TagStarts(t) \subseteq Nat
    BY <1>1, <1>2
  <2> QED BY <1>2, <2>1, LeastExists
<1>4. /\ p - 1 + start \in TagStarts(s)
      /\ \E end \in start + 1..Len(t) :
           TagEnd(t, start + 1) = end /\ TagEnd(s, p + start) = p - 1 + end
  <2>1. /\ start \in TagStarts(t) <=> p - 1 + start \in TagStarts(s)
        /\ start \in TagStarts(t) =>
             \E end \in start + 1..Len(t) :
               TagEnd(t, start + 1) = end /\ TagEnd(s, p + start) = p - 1 + end
    BY TagsOfRest
  <2> QED BY <1>3, <2>1
<1>5. ASSUME NEW i \in p..p - 1 + start - 1 PROVE i \notin TagStarts(s)
  <2>1. PICK j \in 1..Len(t) : p - 1 + j = i /\ j < start
    <3>1. i - p + 1 \in 1..Len(t) /\ p - 1 + (i - p + 1) = i
          /\ i - p + 1 < start
      BY <1>1
    <3> QED BY <3>1
  <2>2. j \in TagStarts(t) <=> p - 1 + j \in TagStarts(s)
    BY TagsOfRest
  <2>3. j \notin TagStarts(t)
    BY <1>1, <1>3, <2>1
  <2> QED BY <2>1, <2>2, <2>3
<1>6. NoTag(s, p, p - 1 + start)
  BY <1>5 DEF NoTag
<1> QED BY <1>3, <1>4, <1>6 DEF FirstTag

LEMMA ReadTag ==
  ASSUME NEW S, NEW s \in Seq(S),
         NEW from \in [1..Len(s) + 1 -> Seq(Letters(S))], IsRead(from, s),
         NEW p \in 1..Len(s) + 1, NEW t, NEW start, NEW end,
         FirstTag(s, p, t, start, end)
  PROVE  from[p] = Joined(Part(t, 1, start - 1),
                     Joined(Group(Part(t, start + 1, end - 1)), from[p + end]))
<1> USE DEF FirstTag
<1>1. /\ Len(t) = Len(s) - p + 1
      /\ Len(t) \in Nat /\ Len(s) \in Nat /\ p \in Nat
      /\ start \in 1..Len(t) /\ end \in start + 1..Len(t)
  <2>1. t \in Seq(S) /\ Len(t) = Len(s) - p + 1
    BY RestIs
  <2> QED BY <2>1
<1>2. PICK r \in p..Len(s) : r = p - 1 + start
  BY <1>1
<1>3. PICK e \in Int : e = p - 1 + end
  BY <1>1
<1>4. r + 1 = p + start /\ e + 1 = p + end /\ r \in 1..Len(s)
      /\ r \in p..Len(s) + 1
  BY <1>1, <1>2, <1>3
<1>5. from[p] = Joined(Part(s, p, r - 1), from[r])
  <2>1. NoTag(s, p, r)
    BY <1>2 DEF NoTag
  <2> QED BY <1>4, <2>1, ReadToTag
<1>6. from[r] = Joined(Group(Part(s, r + 1, e - 1)), from[e + 1])
  <2>1. r \in TagStarts(s) /\ TagEnd(s, r + 1) = e
    BY <1>2, <1>3, <1>4
  <2>2. from[r] = Joined(Group(Part(s, r + 1, TagEnd(s, r + 1) - 1)),
                         from[TagEnd(s, r + 1) + 1])
    BY <1>4, <2>1 DEF IsRead
  <2> QED BY <2>1, <2>2, Zenon
<1>7. /\ Part(t, 1, start - 1) = Part(s, p, p - 1 + start - 1)
      /\ Part(t, start + 1, end - 1) = Part(s, p + start, p - 1 + end - 1)
  BY PiecesOfRest
<1>8. /\ Part(s, p, r - 1) = Part(t, 1, start - 1)
      /\ Part(s, r + 1, e - 1) = Part(t, start + 1, end - 1)
  <2>1. r - 1 = p - 1 + start - 1 /\ e - 1 = p - 1 + end - 1
    BY <1>2, <1>3
  <2> QED BY <1>4, <1>7, <2>1, Zenon
<1> QED BY <1>4, <1>5, <1>6, <1>8, Zenon

(* Up to the place p of dir the tags are replaced; what follows is as it   *)
(* was.                                                                    *)
LoopAt(rest, out) ==
  [tagDir |-> Joined(out, rest), currSearchPos |-> Len(out),
   tagRegexDir |-> rest]

Replaced(loop, dir, from, p, out) ==
  loop = LoopAt(Rest(dir, p), out) /\ Joined(out, from[p]) = from[1]

LEMMA ReplaceTagIs ==
  ASSUME NEW S, NEW s \in Seq(S),
         NEW from \in [1..Len(s) + 1 -> Seq(Letters(S))], IsRead(from, s),
         NEW p \in 1..Len(s) + 1, NEW out \in Seq(Letters(S)), NEW loop,
         Replaced(loop, s, from, p, out), HasTags(loop.tagRegexDir)
  PROVE  \E q \in p + 1..Len(s) + 1, more \in Seq(Letters(S)) :
           Replaced(ReplaceTag(loop), s, from, q, more)
<1>0. \A u, a, b : FirstTag(s, p, u, a, b) =>
        from[p] = Joined(Part(u, 1, a - 1),
                    Joined(Group(Part(u, a + 1, b - 1)), from[p + b]))
  BY ReadTag
<1>1. PICK t, T : t = loop.tagRegexDir /\ T = Letters(S)
  OBVIOUS
<1>2. /\ t = Rest(s, p) /\ HasTags(t)
      /\ loop.tagDir = Joined(out, t) /\ loop.currSearchPos = Len(out)
      /\ Joined(out, from[p]) = from[1]
  <2>1. PICK all, l, r : /\ all = Joined(out, Rest(s, p)) /\ l = Len(out)
                         /\ r = Rest(s, p)
    OBVIOUS
  <2>2. loop = [tagDir |-> all, currSearchPos |-> l, tagRegexDir |-> r]
    BY <2>1, Zenon DEF Replaced, LoopAt
  <2>3. loop.tagDir = all /\ loop.currSearchPos = l /\ loop.tagRegexDir = r
    BY <2>2
  <2>4. Joined(out, from[p]) = from[1]
    BY Zenon DEF Replaced
  <2> QED BY <1>1, <2>1, <2>3, <2>4, Zenon
<1>3. /\ t \in Seq(S) /\ Len(t) = Len(s) - p + 1
      /\ Len(t) \in Nat /\ Len(s) \in Nat /\ p \in Nat
  <2>1. t \in Seq(S) /\ Len(t) = Len(s) - p + 1
    BY <1>2, RestIs
  <2> QED BY <2>1
<1>4. PICK start \in 1..Len(t) : \E end \in start + 1..Len(t) :
        /\ start = Min(TagStarts(t)) /\ end = TagEnd(t, start + 1)
        /\ FirstTag(s, p, t, start, end)
  BY <1>2, FirstTagIs
<1>5. PICK end \in start + 1..Len(t) :
        /\ start = Min(TagStarts(t)) /\ end = TagEnd(t, start + 1)
        /\ FirstTag(s, p, t, start, end)
  BY <1>4
<1>6. PICK front, data, back, group :
        /\ front = Part(t, 1, start - 1)
        /\ data = Part(t, start + 1, end - 1)
        /\ back = Rest(t, end + 1)
        /\ group = Group(data)
  OBVIOUS
<1>7. PICK q \in p + 1..Len(s) + 1 : q = p + end
  <2>1. p + end \in p + 1..Len(s) + 1
    BY <1>3
  <2> QED BY <2>1
<1>8. from[p] = Joined(front, Joined(group, from[q]))
  <2>1. from[p] = Joined(Part(t, 1, start - 1),
                    Joined(Group(Part(t, start + 1, end - 1)), from[p + end]))
    BY <1>0, <1>5
  <2> QED BY <1>6, <1>7, <2>1
<1>9. back = Rest(s, q)
  BY <1>2, <1>6, <1>7, PiecesOfRest
<1>10. out \in Seq(T) /\ t \in Seq(T)
  <2>1. S \subseteq Letters(S)
    BY DEF Letters
  <2> QED BY <1>1, <1>3, <2>1, SeqMonotonic
<1>11. front \in Seq(T) /\ Len(front) = start - 1
  <2>1. PICK l \in 0..Len(t) : l = start - 1
    BY <1>3
  <2>2. Part(t, 1, l) \in Seq(T) /\ Len(Part(t, 1, l)) = l
    BY <1>10, FrontIs
  <2> QED BY <1>6, <2>1, <2>2
<1>12. group \in Seq(T)
  <2>1. PICK i \in 1..Len(t) + 1 : i = start + 1
    BY <1>3
  <2>2. PICK j \in i - 1..Len(t) : j = end - 1
    BY <1>3, <2>1
  <2>3. Part(t, i, j) \in Seq(S)
    BY <1>3, PartIs
  <2>4. data \in Seq(S)
    BY <1>6, <2>1, <2>2, <2>3, Zenon
  <2> QED BY <1>1, <1>6, <2>4, GroupIs
<1>13. PICK begun, more : begun = Joined(out, front)
                          /\ more = Joined(begun, group)
  OBVIOUS
<1>14. /\ Len(out) \in Nat /\ Len(group) \in Nat
       /\ more \in Seq(T)
       /\ Len(more) = Len(out) + (start - 1) + Len(group)
  <2>1. begun \in Seq(T) /\ Len(begun) = Len(out) + Len(front)
    BY <1>10, <1>11, <1>13, JoinedIs
  <2>2. more \in Seq(T) /\ Len(more) = Len(begun) + Len(group)
    BY <1>12, <1>13, <2>1, JoinedIs
  <2>3. Len(out) \in Nat /\ Len(group) \in Nat
    BY <1>10, <1>12
  <2> QED BY <1>11, <2>1, <2>2, <2>3
<1>15. ReplaceTag(loop) = [tagDir        |-> Joined(more, back),
                           currSearchPos |-> Len(more),
                           tagRegexDir   |-> back]
  <2>1. PICK k \in Nat : k = Len(out)
    BY <1>14
  <2>2. Replace(Joined(out, t), k + start - 1, end - start + 1, group)
          = Joined(more, back)
    <3>1. Replace(Joined(out, t), k + start - 1, end - start + 1, group)
            = Joined(Joined(Joined(out, Part(t, 1, start - 1)), group),
                     Rest(t, end + 1))
      <4>1. Splices(out, T)
        BY <1>10, Spliced
      <4> QED BY <1>10, <1>12, <2>1, <4>1 DEF Splices
    <3> QED BY <1>6, <1>13, <3>1, Zenon
  <2>3. k + PastReplacement(Len(group), start - 1) = Len(more)
    <3>1. k + (Len(group) + (start - 1)) = Len(more)
      BY <1>14, <2>1
    <3> QED BY <3>1 DEF PastReplacement
  <2>4. ReplaceTag(loop) =
          [tagDir |-> Replace(loop.tagDir, loop.currSearchPos + start - 1,
                              end - start + 1, group),
           currSearchPos |-> loop.currSearchPos
                               + PastReplacement(Len(group), start - 1),
           tagRegexDir |-> back]
    BY <1>1, <1>5, <1>6, Zenon DEF ReplaceTag, Part, Rest
  <2> QED BY <1>2, <2>1, <2>2, <2>3, <2>4, Zenon
<1>16. Joined(more, from[q]) = from[1]
  <2>1. PICK rest : rest = from[q] /\ rest \in Seq(T)
    BY <1>1, <1>3, <1>7
  <2>2. Joined(out, Joined(front, Joined(group, rest))) = Joined(more, rest)
    <3>1. PICK gr : gr = Joined(group, rest) /\ gr \in Seq(T)
      BY <1>12, <2>1, JoinedIs
    <3>2. Joined(out, Joined(front, gr)) = Joined(Joined(out, front), gr)
      BY <1>10, <1>11, <3>1, Regrouped
    <3>3. begun \in Seq(T)
      BY <1>10, <1>11, <1>13, JoinedIs
    <3>4. Joined(begun, Joined(group, rest))
            = Joined(Joined(begun, group), rest)
      BY <1>12, <2>1, <3>3, Regrouped
    <3> QED BY <1>13, <3>1, <3>2, <3>4, Zenon
  <2> QED BY <1>2, <1>8, <2>1, <2>2, Zenon
<1>17. Replaced(ReplaceTag(loop), s, from, q, more)
  BY <1>9, <1>15, <1>16, Zenon DEF Replaced, LoopAt
<1> QED BY <1>1, <1>7, <1>14, <1>17, Zenon

LEMMA NoTagLeft ==
  ASSUME NEW S, NEW s \in Seq(S),
         NEW from \in [1..Len(s) + 1 -> Seq(Letters(S))], IsRead(from, s),
         NEW p \in 1..Len(s) + 1, ~HasTags(Rest(s, p))
  PROVE  from[p] = Rest(s, p)
<1>1. PICK n, t : n = Len(s) /\ t = Rest(s, p)
  OBVIOUS
<1>2. t \in Seq(S) /\ Len(t) = n - p + 1 /\ n \in Nat /\ p \in 1..n + 1
  <2>1. t \in Seq(S) /\ Len(t) = Len(s) - p + 1
    BY <1>1, RestIs
  <2> QED BY <1>1, <2>1
<1>8. PICK q \in p..Len(s) + 1 : q = n + 1
  BY <1>1, <1>2
<1>3. NoTag(s, p, q)
  <2>1. ASSUME NEW i \in p..q - 1 PROVE i \notin TagStarts(s)
    <3>1. PICK j \in 1..Len(t) : p - 1 + j = i
      <4>1. i - p + 1 \in 1..Len(t) /\ p - 1 + (i - p + 1) = i
        BY <1>2, <1>8
      <4> QED BY <4>1
    <3>2. j \in TagStarts(t) <=> p - 1 + j \in TagStarts(s)
      BY <1>1, TagsOfRest
    <3> QED BY <1>1, <3>1, <3>2 DEF HasTags
  <2> QED BY <2>1 DEF NoTag
<1>4. from[p] = Joined(Part(s, p, q - 1), from[q])
  BY <1>3, ReadToTag
<1>5. from[n + 1] = <<>>
  BY <1>1 DEF IsRead
<1>6. Part(s, p, q - 1) = t
  <2>1. q - 1 = n
    BY <1>2, <1>8
  <2> QED BY <1>1, <2>1, Zenon DEF Part, Rest
<1>7. Joined(t, <<>>) = t
  BY <1>2, ConcatEmptySeq DEF Joined
<1> QED BY <1>1, <1>4, <1>5, <1>6, <1>7, <1>8, Zenon

(* The loop over the tags of a directory.                                  *)
LEMMA TagsReplaced ==
  ASSUME NEW S, NEW s \in Seq(S)
  PROVE  TagsBecomeGroups(s)
<1>1. PICK from \in [1..Len(s) + 1 -> Seq(Letters(S))] :
        IsRead(from, s) /\ Grouped(s) = from[1]
  BY GroupedIs
<1>2. PICK n : n = Len(s)
  OBVIOUS
<1> DEFINE Now(loop) == \E p \in 1..n + 1, out \in Seq(Letters(S)) :
                          Replaced(loop, s, from, p, out)
           V == {loop \in {LoopAt(Rest(s, p), out) :
                              p \in 1..n + 1, out \in Seq(Letters(S))} :
                   Now(loop)}
           first == [tagDir |-> s, currSearchPos |-> 0, tagRegexDir |-> s]
           After(loop) == IF HasTags(loop.tagRegexDir) THEN ReplaceTag(loop)
                          ELSE loop
           Loops(loop) ==
             loop = [k \in 0..n |-> IF k = 0 THEN first
                                    ELSE IF HasTags(loop[k - 1].tagRegexDir)
                                      THEN ReplaceTag(loop[k - 1])
                                    ELSE loop[k - 1]]
           F == CHOOSE loop : Loops(loop)
<1>3. n \in Nat
  BY <1>2
<1>4. NodeDir(s) = F[n].tagDir
  BY <1>2 DEF NodeDir
<1>5. ASSUME NEW loop, Now(loop) PROVE loop \in V
  <2>1. PICK p \in 1..n + 1, out \in Seq(Letters(S)) :
          Replaced(loop, s, from, p, out)
    BY <1>5
  <2>2. loop = LoopAt(Rest(s, p), out)
    BY <2>1 DEF Replaced
  <2> HIDE DEF Now
  <2> QED BY <1>5, <2>2
<1>6. Replaced(first, s, from, 1, <<>>) /\ first \in V
  <2>1. Rest(s, 1) = s /\ Joined(<<>>, s) = s /\ Len(<<>>) = 0
    <3>1. SubSeq(s, 1, Len(s)) = s
      BY SubSeqFull
    <3>2. Joined(<<>>, s) = s
      BY ConcatEmptySeq DEF Joined
    <3>3. Len(<<>>) = 0
      OBVIOUS
    <3> QED BY <3>1, <3>2, <3>3, Zenon DEF Rest
  <2>2. from[1] \in Seq(Letters(S)) /\ 1 \in 1..n + 1
        /\ <<>> \in Seq(Letters(S))
    BY <1>2, <1>3
  <2>3. Joined(<<>>, from[1]) = from[1]
    BY <2>2, ConcatEmptySeq DEF Joined
  <2>4. Replaced(first, s, from, 1, <<>>)
    BY <2>1, <2>3, Zenon DEF Replaced, LoopAt
  <2>5. Now(first)
    BY <2>2, <2>4
  <2> HIDE DEF Now, V, first
  <2> QED BY <1>5, <2>4, <2>5
<1>7. ASSUME NEW loop, NEW p \in 1..n + 1, NEW out \in Seq(Letters(S)),
             Replaced(loop, s, from, p, out), HasTags(loop.tagRegexDir)
      PROVE  \E q \in p + 1..n + 1, more \in Seq(Letters(S)) :
               Replaced(ReplaceTag(loop), s, from, q, more)
  BY <1>1, <1>2, <1>7, ReplaceTagIs
<1>8. ASSUME NEW loop \in V PROVE After(loop) \in V
  <2>1. PICK p \in 1..n + 1, out \in Seq(Letters(S)) :
          Replaced(loop, s, from, p, out)
    OBVIOUS
  <2>2. CASE HasTags(loop.tagRegexDir)
    <3>1. PICK q \in p + 1..n + 1, more \in Seq(Letters(S)) :
            Replaced(ReplaceTag(loop), s, from, q, more)
      BY <1>7, <2>1, <2>2
    <3>2. q \in 1..n + 1
      BY <1>3
    <3>3. Now(ReplaceTag(loop))
      BY <3>1, <3>2
    <3> HIDE DEF Now, V
    <3> QED BY <1>5, <2>2, <3>3
  <2> HIDE DEF V
  <2> QED BY <2>2
<1> HIDE DEF Now, V, first, After
<1>9. \E loop : Loops(loop)
  <2> DEFINE step == [k \in 1..n |-> [v \in V |-> After(v)]]
  <2>1. step \in [1..n -> [V -> V]]
    BY <1>8
  <2> HIDE DEF step
  <2>2. PICK f \in [0..n -> V] : Forward(f, n, first, step)
    BY <1>3, <1>6, <2>1, UpwardFunction
  <2>3. f[0] = first
    BY <2>2 DEF Forward
  <2>4. ASSUME NEW k \in 0..n, k # 0 PROVE f[k] = After(f[k - 1])
    <3>1. k \in 1..n /\ k - 1 \in 0..n
      BY <1>3, <2>4
    <3>2. f[k] = step[k][f[k - 1]] /\ f[k - 1] \in V
      BY <2>2, <3>1 DEF Forward
    <3> QED BY <3>1, <3>2 DEF step
  <2>5. f = [k \in 0..n |-> IF k = 0 THEN first ELSE After(f[k - 1])]
    BY <2>3, <2>4
  <2> QED BY <2>5 DEF After
<1>10. Loops(F)
  <2> HIDE DEF Loops
  <2> QED BY <1>9
<1> HIDE DEF F
<1>11. /\ F[0] = first
       /\ \A k \in 1..n : F[k] = After(F[k - 1])
  <2>1. 0 \in 0..n
    BY <1>3
  <2>2. \A k \in 1..n : k \in 0..n /\ k # 0
    BY <1>3
  <2>3. F = [k \in 0..n |-> IF k = 0 THEN first ELSE After(F[k - 1])]
    BY <1>10 DEF After
  <2> QED BY <2>1, <2>2, <2>3
<1> HIDE DEF Loops
<1> DEFINE Fine == {k \in 0..n :
                      \E p \in 1..n + 1, out \in Seq(Letters(S)) :
                        /\ Replaced(F[k], s, from, p, out)
                        /\ p > k \/ ~HasTags(F[k].tagRegexDir)}
<1>12. 0 \in Fine
  <2>1. 1 \in 1..n + 1 /\ <<>> \in Seq(Letters(S)) /\ 1 > 0 /\ 0 \in 0..n
    BY <1>3
  <2> QED BY <1>6, <1>11, <2>1
<1>13. ASSUME NEW k \in 1..n, k - 1 \in Fine PROVE k \in Fine
  <2>1. PICK p \in 1..n + 1, out \in Seq(Letters(S)) :
          /\ Replaced(F[k - 1], s, from, p, out)
          /\ p > k - 1 \/ ~HasTags(F[k - 1].tagRegexDir)
    BY <1>13
  <2>2. F[k] = After(F[k - 1]) /\ k \in 0..n
    BY <1>3, <1>11
  <2>3. CASE HasTags(F[k - 1].tagRegexDir)
    <3>1. PICK q \in p + 1..n + 1, more \in Seq(Letters(S)) :
            Replaced(ReplaceTag(F[k - 1]), s, from, q, more)
      BY <1>7, <2>1, <2>3
    <3>2. q \in 1..n + 1 /\ q > k
      BY <1>3, <2>1, <2>3
    <3>3. F[k] = ReplaceTag(F[k - 1])
      BY <2>2, <2>3 DEF After
    <3> QED BY <2>2, <3>1, <3>2, <3>3
  <2>4. CASE ~HasTags(F[k - 1].tagRegexDir)
    <3>1. F[k] = F[k - 1]
      BY <2>2, <2>4 DEF After
    <3> QED BY <2>1, <2>2, <2>4, <3>1
  <2> QED BY <2>3, <2>4
<1>14. n \in Fine
  <2>1. n \in 0..n
    BY <1>3
  <2> HIDE DEF Fine
  <2> QED BY <1>3, <1>12, <1>13, <2>1, Upward
<1>15. PICK p \in 1..n + 1, out \in Seq(Letters(S)) :
         /\ Replaced(F[n], s, from, p, out)
         /\ p > n \/ ~HasTags(F[n].tagRegexDir)
  BY <1>14
<1>16. /\ F[n].tagRegexDir = Rest(s, p)
       /\ F[n].tagDir = Joined(out, Rest(s, p))
       /\ Joined(out, from[p]) = from[1]
  <2>1. PICK all, l, r : /\ all = Joined(out, Rest(s, p)) /\ l = Len(out)
                         /\ r = Rest(s, p)
    OBVIOUS
  <2>2. F[n] = [tagDir |-> all, currSearchPos |-> l, tagRegexDir |-> r]
    BY <1>15, <2>1, Zenon DEF Replaced, LoopAt
  <2>3. F[n].tagDir = all /\ F[n].tagRegexDir = r
    BY <2>2
  <2>4. Joined(out, from[p]) = from[1]
    BY <1>15, Zenon DEF Replaced
  <2> QED BY <2>1, <2>3, <2>4, Zenon
<1>17. ~HasTags(Rest(s, p))
  <2>1. CASE p > n
    <3>1. PICK t : t = Rest(s, p)
      OBVIOUS
    <3>2. t \in Seq(S) /\ Len(t) = Len(s) - p + 1
      BY <1>2, <3>1, RestIs
    <3>3. Len(t) = 0
      BY <1>2, <1>3, <2>1, <3>2
    <3>4. DOMAIN t = {}
      BY <3>2, <3>3
    <3> QED BY <3>1, <3>4 DEF HasTags, TagStarts
  <2> QED BY <1>15, <1>16, <2>1
<1>18. from[p] = Rest(s, p)
  BY <1>1, <1>2, <1>17, NoTagLeft
<1> QED BY <1>1, <1>4, <1>16, <1>18, Zenon DEF TagsBecomeGroups

-----------------------------------------------------------------------------
(* How many tags are open.                                                 *)

Before(s, i, c) == Cardinality({j \in 1..i - 1 : s[j] = c})

LEMMA CountGrows ==
  ASSUME NEW s, NEW c, NEW i \in Nat \ {0}
  PROVE  /\ Before(s, i, c) \in Nat
         /\ Before(s, i + 1, c) = Before(s, i, c) + IF s[i] = c THEN 1 ELSE 0
<1>1. PICK A, B : /\ A = {j \in 1..i - 1 : s[j] = c}
                  /\ B = {j \in 1..(i + 1) - 1 : s[j] = c}
  OBVIOUS
<1>2. IsFiniteSet(A)
  <2>1. IsFiniteSet(1..i - 1) /\ A \subseteq 1..i - 1
    BY <1>1, FS_Interval
  <2> QED BY <2>1, FS_Subset
<1>3. i \notin A /\ B = IF s[i] = c THEN A \cup {i} ELSE A
  BY <1>1
<1>4. Cardinality(A) \in Nat
  BY <1>2, FS_CardinalityType
<1>5. s[i] = c => Cardinality(B) = Cardinality(A) + 1
  BY <1>2, <1>3, FS_AddElement
<1>6. s[i] # c => Cardinality(B) = Cardinality(A) + 0
  BY <1>3, <1>4
<1>7. Before(s, i, c) = Cardinality(A) /\ Before(s, i + 1, c) = Cardinality(B)
  BY <1>1, Zenon DEF Before
<1> QED BY <1>4, <1>5, <1>6, <1>7

LEMMA DepthSteps ==
  ASSUME NEW S, NEW s \in Seq(S)
  PROVE  /\ Depth(s, 1) = 0
         /\ \A i \in 1..Len(s) :
              /\ s[i] = "<" => Depth(s, i + 1) = Depth(s, i) + 1
              /\ s[i] = ">" => Depth(s, i + 1) = Depth(s, i) - 1
              /\ s[i] \notin {"<", ">"} => Depth(s, i + 1) = Depth(s, i)
<1>1. Depth(s, 1) = 0
  <2>1. \A c : {j \in 1..1 - 1 : s[j] = c} = {}
    OBVIOUS
  <2>2. Cardinality({}) = 0
    BY FS_EmptySet
  <2> QED BY <2>1, <2>2 DEF Depth
<1>2. ASSUME NEW i \in 1..Len(s)
      PROVE  /\ s[i] = "<" => Depth(s, i + 1) = Depth(s, i) + 1
             /\ s[i] = ">" => Depth(s, i + 1) = Depth(s, i) - 1
             /\ s[i] \notin {"<", ">"} => Depth(s, i + 1) = Depth(s, i)
  <2>1. PICK k \in Nat \ {0} : k = i
    OBVIOUS
  <2>2. PICK a, b, c, d :
          /\ a = Before(s, k, "<") /\ c = Before(s, k + 1, "<")
          /\ b = Before(s, k, ">") /\ d = Before(s, k + 1, ">")
    OBVIOUS
  <2>3. a \in Nat /\ c = a + IF s[k] = "<" THEN 1 ELSE 0
    BY <2>2, CountGrows
  <2>4. b \in Nat /\ d = b + IF s[k] = ">" THEN 1 ELSE 0
    BY <2>2, CountGrows
  <2>5. Depth(s, i) = a - b /\ Depth(s, i + 1) = c - d
    BY <2>1, <2>2, Zenon DEF Depth, Before
  <2> QED BY <2>1, <2>3, <2>4, <2>5
<1> QED BY <1>1, <1>2

LEMMA WellFormedIs ==
  ASSUME NEW S, NEW s \in Seq(S), WellFormed(s)
  PROVE  /\ Depth(s, 1) = 0 /\ Depth(s, Len(s) + 1) = 0
         /\ \A i \in 1..Len(s) + 1 : Depth(s, i) \in {0, 1}
         /\ \A i \in 1..Len(s) :
              /\ s[i] = "<" => Depth(s, i) = 0 /\ Depth(s, i + 1) = 1
              /\ s[i] = ">" => Depth(s, i) = 1 /\ Depth(s, i + 1) = 0
              /\ s[i] \notin {"<", ">"} => Depth(s, i + 1) = Depth(s, i)
<1>1. DOMAIN s = 1..Len(s) /\ Len(s) \in Nat
  OBVIOUS
<1>2. /\ Depth(s, Len(s) + 1) = 0
      /\ \A i \in 1..Len(s) : Depth(s, i) \in {0, 1}
  BY <1>1 DEF WellFormed
<1>3. \A i \in 1..Len(s) + 1 : i \in 1..Len(s) \/ i = Len(s) + 1
  BY <1>1
<1>4. \A i \in 1..Len(s) + 1 : Depth(s, i) \in {0, 1}
  BY <1>2, <1>3
<1>5. ASSUME NEW i \in 1..Len(s)
      PROVE  /\ s[i] = "<" => Depth(s, i) = 0 /\ Depth(s, i + 1) = 1
             /\ s[i] = ">" => Depth(s, i) = 1 /\ Depth(s, i + 1) = 0
             /\ s[i] \notin {"<", ">"} => Depth(s, i + 1) = Depth(s, i)
  <2>1. i \in 1..Len(s) + 1 /\ i + 1 \in 1..Len(s) + 1
    BY <1>1
  <2>2. Depth(s, i) \in {0, 1} /\ Depth(s, i + 1) \in {0, 1}
    BY <1>4, <2>1
  <2>3. /\ s[i] = "<" => Depth(s, i + 1) = Depth(s, i) + 1
        /\ s[i] = ">" => Depth(s, i + 1) = Depth(s, i) - 1
        /\ s[i] \notin {"<", ">"} => Depth(s, i + 1) = Depth(s, i)
    BY DepthSteps
  <2>4. ~("<" = ">")
    OBVIOUS
  <2> QED BY <2>2, <2>3
<1> QED BY <1>2, <1>4, <1>5, DepthSteps

(* Only a "<" opens a tag and only a ">" closes one.                       *)
Keeps(s, p, q, c) == \A x \in p..q - 1 : s[x] # c

LEMMA DepthKept ==
  ASSUME NEW S, NEW s \in Seq(S), WellFormed(s),
         NEW p \in 1..Len(s) + 1, NEW q \in p..Len(s) + 1,
         NEW c, \/ c = "<" /\ Depth(s, p) = 0
                \/ c = ">" /\ Depth(s, p) = 1,
         Keeps(s, p, q, c)
  PROVE  \A x \in p..q : Depth(s, x) = Depth(s, p)
<1> DEFINE Fine == {d \in 0..q - p : Depth(s, p + d) = Depth(s, p)}
<1>1. p \in Nat /\ q \in Nat /\ Len(s) \in Nat /\ q - p \in Nat
  OBVIOUS
<1>2. 0 \in Fine
  BY <1>1
<1>3. ASSUME NEW d \in 1..q - p, d - 1 \in Fine PROVE d \in Fine
  <2>1. PICK x \in p..q - 1 : x = p + (d - 1) /\ x + 1 = p + d
    BY <1>1
  <2>2. x \in 1..Len(s) /\ s[x] # c
    BY <1>1 DEF Keeps
  <2>3. Depth(s, x) = Depth(s, p)
    BY <1>3, <2>1
  <2>4. /\ s[x] = "<" => Depth(s, x) = 0
        /\ s[x] = ">" => Depth(s, x) = 1
        /\ s[x] \notin {"<", ">"} => Depth(s, x + 1) = Depth(s, x)
    BY <2>2, WellFormedIs
  <2>5. s[x] \notin {"<", ">"}
    BY <2>2, <2>3, <2>4
  <2> QED BY <1>1, <2>1, <2>3, <2>4, <2>5
<1>4. \A d \in 0..q - p : d \in Fine
  <2> HIDE DEF Fine
  <2> QED BY <1>1, <1>2, <1>3, Upward
<1>5. ASSUME NEW x \in p..q PROVE Depth(s, x) = Depth(s, p)
  <2>1. x - p \in 0..q - p /\ p + (x - p) = x
    BY <1>1
  <2>2. x - p \in Fine
    BY <1>4, <2>1
  <2> QED BY <2>1, <2>2
<1> QED BY <1>5

LEMMA TagCloses ==
  ASSUME NEW S, NEW s \in Seq(S), WellFormed(s),
         NEW j \in 1..Len(s), s[j] = "<"
  PROVE  \E k \in j + 1..Len(s) :
           /\ k = Min(Closes(s, j)) /\ Closes(s, j) # {}
           /\ Depth(s, k + 1) = 0
           /\ \A x \in j + 1..k : Depth(s, x) = 1
<1>1. Len(s) \in Nat /\ j \in Nat \ {0} /\ j + 1 \in 1..Len(s) + 1
  OBVIOUS
<1>2. Depth(s, j + 1) = 1
  BY WellFormedIs
<1>3. Closes(s, j) # {}
  <2> SUFFICES ASSUME Closes(s, j) = {} PROVE FALSE
    OBVIOUS
  <2>1. PICK p, q : p = j + 1 /\ q = Len(s) + 1
    OBVIOUS
  <2>2. p \in 1..Len(s) + 1 /\ q \in p..Len(s) + 1
    BY <1>1, <2>1
  <2>3. Keeps(s, p, q, ">")
    <3>1. q - 1 = Len(s)
      BY <1>1, <2>1
    <3> QED BY <2>1, <3>1 DEF Keeps, Closes
  <2>4. \A x \in p..q : Depth(s, x) = Depth(s, p)
    BY <1>2, <2>1, <2>2, <2>3, DepthKept
  <2>5. q \in p..q
    BY <1>1, <2>1, <2>2
  <2>6. Depth(s, Len(s) + 1) = 0
    BY WellFormedIs
  <2> QED BY <1>2, <2>1, <2>4, <2>5, <2>6
<1>4. PICK k \in j + 1..Len(s) : /\ k = Min(Closes(s, j)) /\ s[k] = ">"
                                /\ \A x \in Closes(s, j) : k <= x
  <2>1. Closes(s, j) \subseteq Nat
    BY <1>1 DEF Closes
  <2>2. /\ Min(Closes(s, j)) \in Closes(s, j)
        /\ \A x \in Closes(s, j) : Min(Closes(s, j)) <= x
    BY <1>3, <2>1, LeastExists
  <2> QED BY <2>2 DEF Closes
<1>5. Depth(s, k + 1) = 0
  <2>1. k \in 1..Len(s)
    BY <1>1
  <2> QED BY <1>4, <2>1, WellFormedIs
<1>6. \A x \in j + 1..k : Depth(s, x) = 1
  <2>1. PICK p, q : p = j + 1 /\ q = k
    OBVIOUS
  <2>2. p \in 1..Len(s) + 1 /\ q \in p..Len(s) + 1
    BY <1>1, <2>1
  <2>3. Keeps(s, p, q, ">")
    <3>1. ASSUME NEW x \in p..q - 1 PROVE s[x] # ">"
      <4>1. x \in j + 1..Len(s) /\ ~(k <= x)
        BY <1>1, <2>1
      <4> QED BY <1>4, <4>1 DEF Closes
    <3> QED BY <3>1 DEF Keeps
  <2>4. \A x \in p..q : Depth(s, x) = Depth(s, p)
    BY <1>2, <2>1, <2>2, <2>3, DepthKept
  <2> QED BY <1>2, <2>1, <2>4
<1> QED BY <1>3, <1>4, <1>5, <1>6

-----------------------------------------------------------------------------
(* Where a directory ends.                                                 *)

LEMMA RunEndAt ==
  ASSUME NEW S, NEW s \in Seq(S), NEW i \in 1..Len(s) + 1
  PROVE  /\ RunEnd(s, i) \in i..Len(s) + 1
         /\ RunEnd(s, i) = Len(s) + 1 \/ s[RunEnd(s, i)] = "/"
         /\ Keeps(s, i, RunEnd(s, i), "/")
<1>1. PICK X : X = {Len(s) + 1} \cup {j \in i..Len(s) : s[j] = "/"}
  OBVIOUS
<1>2. X \subseteq i..Len(s) + 1 /\ X # {} /\ X \subseteq Nat /\ Len(s) \in Nat
  BY <1>1
<1>3. PICK e : e = Min(X)
  OBVIOUS
<1>4. e \in X /\ \A x \in X : e <= x
  BY <1>2, <1>3, LeastExists
<1>5. ASSUME NEW x \in i..e - 1 PROVE s[x] # "/"
  <2>1. e \in i..Len(s) + 1
    BY <1>2, <1>4
  <2>2. x \in i..Len(s) /\ ~(e <= x)
    BY <1>2, <2>1
  <2> QED BY <1>1, <1>4, <2>2
<1>6. Keeps(s, i, e, "/")
  BY <1>5 DEF Keeps
<1>7. RunEnd(s, i) = e
  BY <1>1, <1>3 DEF RunEnd
<1> QED BY <1>1, <1>2, <1>4, <1>6, <1>7

(* The next slash outside the tags, or the end of the text.                *)
IsNextCut(s, i, e) ==
  /\ e \in i..Len(s) + 1 /\ (e # Len(s) + 1 => e \in Slashes(s))
  /\ \A x \in i..e - 1 : x \notin Slashes(s)

LEMMA DirEndIsNextCut ==
  ASSUME NEW S, NEW s \in Seq(S), WellFormed(s)
  PROVE  \A i \in 1..Len(s) + 1 :
           Depth(s, i) = 0 => IsNextCut(s, i, DirEnd(s, i))
<1>1. PICK n : n = Len(s)
  OBVIOUS
<1>2. n \in Nat /\ DOMAIN s = 1..n
  BY <1>1
<1>3. ASSUME NEW i \in 1..n + 1, Depth(s, i) = 0, Opens(s, i) = {}
      PROVE  IsNextCut(s, i, DirEnd(s, i))
  <2>1. PICK e : e = RunEnd(s, i) /\ e = DirEnd(s, i)
    BY <1>1, <1>3, DirEndStep
  <2>2. e \in i..n + 1 /\ (e = n + 1 \/ s[e] = "/") /\ Keeps(s, i, e, "/")
    <3>1. i \in 1..Len(s) + 1
      BY <1>1
    <3>2. /\ RunEnd(s, i) \in i..Len(s) + 1
          /\ RunEnd(s, i) = Len(s) + 1 \/ s[RunEnd(s, i)] = "/"
          /\ Keeps(s, i, RunEnd(s, i), "/")
      BY <3>1, RunEndAt
    <3> QED BY <1>1, <2>1, <3>2
  <2>3. Keeps(s, i, e, "<")
    <3>1. ASSUME NEW j \in i..e - 1, s[j] = "<" PROVE FALSE
      <4>1. j \in 1..Len(s)
        BY <1>1, <1>2, <2>2
      <4>2. Closes(s, j) # {}
        BY <3>1, <4>1, TagCloses
      <4>3. j \in i..RunEnd(s, i) - 1
        BY <2>1
      <4> QED BY <1>3, <3>1, <4>2, <4>3 DEF Opens
    <3> QED BY <3>1 DEF Keeps
  <2>4. \A x \in i..e : Depth(s, x) = Depth(s, i)
    BY <1>1, <1>3, <2>2, <2>3, DepthKept
  <2>5. e # n + 1 => e \in Slashes(s)
    <3>1. e \in i..e /\ (e # n + 1 => e \in 1..n)
      BY <1>2, <2>2
    <3> QED BY <1>2, <1>3, <2>2, <2>4, <3>1 DEF Slashes
  <2>6. \A x \in i..e - 1 : x \notin Slashes(s)
    BY <2>2 DEF Keeps, Slashes
  <2> QED BY <1>1, <2>1, <2>2, <2>5, <2>6 DEF IsNextCut
<1>4. ASSUME NEW i \in 1..n + 1, Depth(s, i) = 0, Opens(s, i) # {}
      PROVE  /\ i \in 1..n
             /\ \E a \in i + 1..n + 1 :
                  /\ Depth(s, a) = 0 /\ DirEnd(s, i) = DirEnd(s, a)
                  /\ \A x \in i..a - 1 : x \notin Slashes(s)
  <2>1. /\ i \in 1..n /\ Behind(s, i) \in i + 1..n + 1
        /\ Max(Opens(s, i)) \in Opens(s, i)
        /\ DirEnd(s, i) = DirEnd(s, Behind(s, i))
    BY <1>1, <1>4, DirEndStep
  <2>2. PICK j : /\ j = Max(Opens(s, i)) /\ j \in i..RunEnd(s, i) - 1
                 /\ s[j] = "<"
    BY <2>1 DEF Opens
  <2>3. PICK r : r = RunEnd(s, i) /\ r \in i..n + 1 /\ Keeps(s, i, r, "/")
    BY <1>1, RunEndAt
  <2>4. j \in 1..Len(s) /\ j \in i..r - 1
    BY <1>1, <1>2, <2>2, <2>3
  <2>5. PICK k \in j + 1..Len(s) :
          /\ k = Min(Closes(s, j)) /\ Depth(s, k + 1) = 0
          /\ \A x \in j + 1..k : Depth(s, x) = 1
    BY <2>2, <2>4, TagCloses
  <2>6. Behind(s, i) = k + 1
    BY <2>2, <2>5 DEF Behind
  <2>7. ASSUME NEW x \in i..(k + 1) - 1 PROVE x \notin Slashes(s)
    <3>1. x \in i..r - 1 \/ x \in j + 1..k
      BY <1>1, <1>2, <2>3, <2>4, <2>5
    <3>2. x \in i..r - 1 => x \notin Slashes(s)
      BY <2>3 DEF Keeps, Slashes
    <3>3. x \in j + 1..k => x \notin Slashes(s)
      BY <2>5 DEF Slashes
    <3> QED BY <3>1, <3>2, <3>3
  <2> QED BY <2>1, <2>5, <2>6, <2>7
<1> DEFINE Fine == {i \in 1..n : Depth(s, i) = 0 =>
                                   IsNextCut(s, i, DirEnd(s, i))}
<1>5. n + 1 \in 1..n + 1 /\ n + 1 \notin 1..n
  BY <1>2
<1>6. Depth(s, n + 1) = 0 => IsNextCut(s, n + 1, DirEnd(s, n + 1))
  BY <1>3, <1>4, <1>5
<1>7. ASSUME NEW i \in 1..n, \A j \in i + 1..n : j \in Fine
      PROVE  i \in Fine
  <2> SUFFICES ASSUME Depth(s, i) = 0 PROVE IsNextCut(s, i, DirEnd(s, i))
    OBVIOUS
  <2>1. i \in 1..n + 1
    BY <1>2
  <2>2. CASE Opens(s, i) = {}
    BY <1>3, <2>1, <2>2
  <2>3. CASE Opens(s, i) # {}
    <3>1. PICK a \in i + 1..n + 1 :
            /\ Depth(s, a) = 0 /\ DirEnd(s, i) = DirEnd(s, a)
            /\ \A x \in i..a - 1 : x \notin Slashes(s)
      BY <1>4, <2>1, <2>3
    <3>2. a \in i + 1..n \/ a = n + 1
      BY <1>2
    <3>3. IsNextCut(s, a, DirEnd(s, a))
      BY <1>6, <1>7, <3>1, <3>2
    <3>4. PICK e : e = DirEnd(s, a)
      OBVIOUS
    <3>5. /\ e \in a..n + 1 /\ (e # n + 1 => e \in Slashes(s))
          /\ \A x \in a..e - 1 : x \notin Slashes(s)
      BY <1>1, <3>3, <3>4 DEF IsNextCut
    <3>6. ASSUME NEW x \in i..e - 1 PROVE x \notin Slashes(s)
      <4>1. x \in i..a - 1 \/ x \in a..e - 1
        BY <1>2, <3>5
      <4> QED BY <3>1, <3>5, <4>1
    <3>7. e \in i..n + 1
      BY <1>2, <3>5
    <3> QED BY <1>1, <3>1, <3>4, <3>5, <3>6, <3>7 DEF IsNextCut
  <2> QED BY <2>2, <2>3
<1>8. \A i \in 1..n : i \in Fine
  <2> HIDE DEF Fine
  <2> QED BY <1>2, <1>7, Downward
<1>9. \A i \in 1..n + 1 : i \in 1..n \/ i = n + 1
  BY <1>2
<1> QED BY <1>1, <1>6, <1>8, <1>9

Ends(s, ends) ==
  \A i \in 1..Len(s) + 1 :
    /\ ends[i] \in i..Len(s) + 1
    /\ i <= Len(s) /\ s[i] # "/" => ends[i] > i

(* One iteration: a directory and what is behind it.                       *)
OneCut(dirs, s, ends, i) ==
  \E first \in i..i + 1 : \E end \in i + 1..Len(s) + 1 :
    /\ first = SkipSlash(s, i) /\ end = ends[first]
    /\ dirs[i] = Joined(<<Part(s, first, end - 1)>>, dirs[end])

LEMMA CutSteps ==
  ASSUME NEW S, NEW s \in Seq(S), NEW ends, Ends(s, ends),
         NEW dirs, IsCut(dirs, s, ends)
  PROVE  /\ dirs[Len(s) + 1] = <<>>
         /\ \A i \in 1..Len(s) : OneCut(dirs, s, ends, i)
<1>1. PICK n : n = Len(s)
  OBVIOUS
<1>2. n \in Nat
  BY <1>1
<1>3. \A i \in 1..n + 1 :
        dirs[i] = IF i > n THEN <<>>
                  ELSE <<SubSeq(s, SkipSlash(s, i),
                                ends[SkipSlash(s, i)] - 1)>>
                         \o dirs[ends[SkipSlash(s, i)]]
  BY <1>1 DEF IsCut
<1>4. dirs[n + 1] = <<>>
  <2>1. n + 1 \in 1..n + 1 /\ n + 1 > n
    BY <1>2
  <2> QED BY <1>3, <2>1
<1>5. ASSUME NEW i \in 1..n
      PROVE  \E first \in i..i + 1 : \E end \in i + 1..n + 1 :
               /\ first = SkipSlash(s, i) /\ end = ends[first]
               /\ dirs[i] = Joined(<<Part(s, first, end - 1)>>, dirs[end])
  <2>1. PICK first \in i..i + 1 :
          /\ first = SkipSlash(s, i) /\ (s[first] = "/" => first = i + 1)
          /\ (first = i \/ first = i + 1)
    <3>1. i \in i..i + 1 /\ i + 1 \in i..i + 1
      BY <1>2
    <3> QED BY <3>1 DEF SkipSlash
  <2>2. PICK end : end = ends[first]
    OBVIOUS
  <2>3. first \in 1..Len(s) + 1 /\ (first = i => first <= Len(s))
    BY <1>1, <1>2, <2>1
  <2>4. end \in first..n + 1 /\ (first = i => end > first)
    BY <1>1, <2>1, <2>2, <2>3 DEF Ends
  <2>5. end \in i + 1..n + 1
    BY <1>2, <2>1, <2>4
  <2>6. i \in 1..n + 1 /\ ~(i > n)
    BY <1>2
  <2>7. dirs[i] = <<SubSeq(s, first, end - 1)>> \o dirs[end]
    BY <1>3, <2>1, <2>2, <2>6
  <2>8. dirs[i] = Joined(<<Part(s, first, end - 1)>>, dirs[end])
    BY <2>7, Zenon DEF Joined, Part
  <2> QED BY <2>1, <2>2, <2>5, <2>8
<1> QED BY <1>1, <1>4, <1>5 DEF OneCut

(* The ends of the directories decide how a path is cut.                   *)
LEMMA CutIsUnique ==
  ASSUME NEW S, NEW s \in Seq(S), NEW ends, Ends(s, ends),
         NEW c, IsCut(c, s, ends), NEW d, IsCut(d, s, ends)
  PROVE  c[1] = d[1]
<1> DEFINE Fine == {i \in 1..Len(s) : c[i] = d[i]}
<1>1. Len(s) \in Nat
  OBVIOUS
<1>2. c[Len(s) + 1] = d[Len(s) + 1]
  BY CutSteps
<1>3. ASSUME NEW i \in 1..Len(s), \A j \in i + 1..Len(s) : j \in Fine
      PROVE  i \in Fine
  <2>1. PICK first \in i..i + 1 : \E end \in i + 1..Len(s) + 1 :
          /\ first = SkipSlash(s, i) /\ end = ends[first]
          /\ c[i] = Joined(<<Part(s, first, end - 1)>>, c[end])
    <3>1. OneCut(c, s, ends, i)
      BY CutSteps
    <3> QED BY <3>1 DEF OneCut
  <2>2. PICK end \in i + 1..Len(s) + 1 :
          /\ first = SkipSlash(s, i) /\ end = ends[first]
          /\ c[i] = Joined(<<Part(s, first, end - 1)>>, c[end])
    BY <2>1
  <2>3. d[i] = Joined(<<Part(s, first, end - 1)>>, d[end])
    <3>1. PICK f \in i..i + 1 : \E e \in i + 1..Len(s) + 1 :
            /\ f = SkipSlash(s, i) /\ e = ends[f]
            /\ d[i] = Joined(<<Part(s, f, e - 1)>>, d[e])
      <4>1. OneCut(d, s, ends, i)
        BY CutSteps
      <4> QED BY <4>1 DEF OneCut
    <3> QED BY <2>2, <3>1
  <2>4. end \in i + 1..Len(s) \/ end = Len(s) + 1
    BY <1>1
  <2>5. c[end] = d[end]
    BY <1>2, <1>3, <2>4
  <2> QED BY <2>2, <2>3, <2>5, Zenon
<1>4. \A i \in 1..Len(s) : i \in Fine
  <2> HIDE DEF Fine
  <2> QED BY <1>1, <1>3, Downward
<1>5. 1 \in 1..Len(s) \/ 1 = Len(s) + 1
  BY <1>1
<1> QED BY <1>2, <1>4, <1>5

LEMMA DirEnds ==
  ASSUME NEW S, NEW s \in Seq(S)
  PROVE  Ends(s, [i \in 1..Len(s) + 1 |-> DirEnd(s, i)])
<1>1. \A i \in 1..Len(s) + 1 :
        /\ DirEnd(s, i) \in i..Len(s) + 1
        /\ i <= Len(s) /\ s[i] # "/" => DirEnd(s, i) > i
  BY DirEndIs
<1> QED BY <1>1 DEF Ends

(* Without tags a route is cut as the same path is when it is requested.   *)
LEMMA CutAlike ==
  ASSUME NEW S, NEW s \in Seq(S), \A i \in DOMAIN s : s[i] # "<"
  PROVE  CutRequest(s) = CutRoute(s)
<1> DEFINE ends == [i \in 1..Len(s) + 1 |-> DirEnd(s, i)]
           runs == [i \in 1..Len(s) + 1 |-> RunEnd(s, i)]
<1>1. ASSUME NEW i \in 1..Len(s) + 1 PROVE DirEnd(s, i) = RunEnd(s, i)
  <2>1. Opens(s, i) = {}
    <3>1. \A j \in Opens(s, i) : s[j] = "<" /\ j \in i..RunEnd(s, i) - 1
      BY DEF Opens
    <3>2. RunEnd(s, i) \in i..Len(s) + 1
      BY RunEndIs
    <3>3. \A j \in i..RunEnd(s, i) - 1 : j \in DOMAIN s
      BY <3>2
    <3> QED BY <3>1, <3>3
  <2> QED BY <2>1, DirEndStep
<1>2. ends = runs
  BY <1>1
<1>3. PICK c : IsCut(c, s, ends) /\ CutRoute(s) = c[1]
  BY CutRouteAt
<1>4. PICK d : IsCut(d, s, runs) /\ CutRequest(s) = d[1]
  BY CutRequestAt
<1>5. Ends(s, ends)
  BY DirEnds
<1> HIDE DEF ends, runs
<1>6. c[1] = d[1]
  BY <1>2, <1>3, <1>4, <1>5, CutIsUnique
<1> QED BY <1>3, <1>4, <1>6

-----------------------------------------------------------------------------
(* The directories that begin at the places B, the first one first.        *)

Below(B, x) == Cardinality({y \in B : y < x})

IsNth(B, m, b) == \A x \in B : Below(B, x) = m - 1 <=> x = b

DirAt(s, b) == Part(s, b, DirEnd(s, b) - 1)

Lists(dirs, s, B) ==
  /\ IsFiniteSet(B) /\ B \subseteq Nat /\ Len(dirs) = Cardinality(B)
  /\ \A m \in 1..Len(dirs) :
       \E b \in B : IsNth(B, m, b) /\ dirs[m] = DirAt(s, b)

LEMMA RanksShift ==
  ASSUME NEW B, IsFiniteSet(B), B \subseteq Nat,
         NEW f \in Nat, \A x \in B : f < x
  PROVE  /\ Below({f} \cup B, f) = 0
         /\ \A x \in B : Below(B, x) \in Nat
                         /\ Below({f} \cup B, x) = Below(B, x) + 1
<1>1. PICK all : all = {f} \cup B
  OBVIOUS
<1>2. Below(all, f) = 0
  <2>1. {y \in all : y < f} = {}
    <3>1. ASSUME NEW y \in all PROVE ~(y < f)
      <4>1. y = f \/ (y \in Nat /\ f < y)
        BY <1>1
      <4> QED BY <4>1
    <3> QED BY <3>1
  <2> QED BY <2>1, FS_EmptySet DEF Below
<1>3. ASSUME NEW x \in B
      PROVE  Below(B, x) \in Nat /\ Below(all, x) = Below(B, x) + 1
  <2>1. PICK X : X = {y \in B : y < x}
    OBVIOUS
  <2>2. IsFiniteSet(X)
    <3>1. X \subseteq B
      BY <2>1
    <3> QED BY <3>1, FS_Subset
  <2>3. {y \in all : y < x} = X \cup {f} /\ f \notin X
    BY <1>1, <2>1
  <2>4. Cardinality(X \cup {f}) = Cardinality(X) + 1
    BY <2>2, <2>3, FS_AddElement
  <2>5. Cardinality(X) \in Nat
    BY <2>2, FS_CardinalityType
  <2>6. Below(B, x) = Cardinality(X) /\ Below(all, x) = Cardinality(X \cup {f})
    BY <2>1, <2>3, Zenon DEF Below
  <2> QED BY <2>4, <2>5, <2>6
<1> QED BY <1>1, <1>2, <1>3

LEMMA ListsOneMore ==
  ASSUME NEW T, NEW s, NEW B, NEW dirs \in Seq(T), Lists(dirs, s, B),
         NEW f \in Nat, \A x \in B : f < x, DirAt(s, f) \in T
  PROVE  /\ Joined(<<DirAt(s, f)>>, dirs) \in Seq(T)
         /\ Lists(Joined(<<DirAt(s, f)>>, dirs), s, {f} \cup B)
<1>1. PICK all, dir, one, more :
        /\ all = {f} \cup B /\ dir = DirAt(s, f) /\ one = <<dir>>
        /\ more = Joined(one, dirs)
  OBVIOUS
<1>2. PICK n : n = Len(dirs)
  OBVIOUS
<1>3. /\ IsFiniteSet(B) /\ B \subseteq Nat /\ n = Cardinality(B) /\ n \in Nat
      /\ \A m \in 1..n :
           \E b \in B : IsNth(B, m, b) /\ dirs[m] = DirAt(s, b)
  <2>1. /\ IsFiniteSet(B) /\ B \subseteq Nat /\ n = Cardinality(B)
        /\ \A m \in 1..n :
             \E b \in B : IsNth(B, m, b) /\ dirs[m] = DirAt(s, b)
    BY <1>2 DEF Lists
  <2>2. n \in Nat
    BY <1>2
  <2> QED BY <2>1, <2>2
<1>4. one \in Seq(T) /\ Len(one) = 1 /\ one[1] = dir
  BY <1>1
<1>5. /\ more \in Seq(T) /\ Len(more) = n + 1
      /\ more[1] = dir /\ \A m \in 2..n + 1 : more[m] = dirs[m - 1]
  <2>1. /\ more \in Seq(T) /\ Len(more) = Len(one) + Len(dirs)
        /\ \A i \in 1..Len(one) + Len(dirs) :
             more[i] = IF i <= Len(one) THEN one[i] ELSE dirs[i - Len(one)]
    <3>1. more = Joined(one, dirs) /\ one \in Seq(T) /\ dirs \in Seq(T)
      BY <1>1, <1>4
    <3>2. /\ Joined(one, dirs) \in Seq(T)
          /\ Len(Joined(one, dirs)) = Len(one) + Len(dirs)
          /\ \A i \in 1..Len(one) + Len(dirs) :
               Joined(one, dirs)[i] =
                 IF i <= Len(one) THEN one[i] ELSE dirs[i - Len(one)]
      BY <3>1, JoinedIs
    <3> QED BY <3>1, <3>2
  <2>2. /\ Len(more) = n + 1
        /\ \A i \in 1..n + 1 : more[i] = IF i <= 1 THEN one[i] ELSE dirs[i - 1]
    <3>1. n + 1 = Len(one) + Len(dirs) /\ Len(one) = 1 /\ Len(dirs) = n
      BY <1>2, <1>3, <1>4
    <3> QED BY <2>1, <3>1
  <2>3. more[1] = dir
    <3>1. 1 \in 1..n + 1 /\ 1 <= 1
      BY <1>3
    <3> QED BY <1>4, <2>2, <3>1
  <2>4. \A m \in 2..n + 1 : m \in 1..n + 1 /\ ~(m <= 1)
    BY <1>3
  <2> QED BY <2>1, <2>2, <2>3, <2>4
<1>6. IsFiniteSet(all) /\ all \subseteq Nat /\ Cardinality(all) = n + 1
  <2>1. f \notin B
    BY <1>3
  <2>2. all = B \cup {f}
    BY <1>1
  <2>3. IsFiniteSet(all) /\ Cardinality(all) = Cardinality(B) + 1
    BY <1>3, <2>1, <2>2, FS_AddElement
  <2> QED BY <1>1, <1>3, <2>3
<1>7. /\ Below(all, f) = 0
      /\ \A x \in B : Below(B, x) \in Nat /\ Below(all, x) = Below(B, x) + 1
  BY <1>1, <1>3, RanksShift
<1>8. ASSUME NEW m \in 1..n + 1
      PROVE  \E b \in all : IsNth(all, m, b) /\ more[m] = DirAt(s, b)
  <2>1. CASE m = 1
    <3>1. IsNth(all, m, f)
      <4>1. ASSUME NEW x \in all PROVE Below(all, x) = m - 1 <=> x = f
        <5>1. x = f \/ (x \in B /\ x # f)
          BY <1>1, <1>3
        <5> QED BY <1>7, <2>1, <5>1
      <4> QED BY <4>1 DEF IsNth
    <3> QED BY <1>1, <1>5, <2>1, <3>1
  <2>2. CASE m # 1
    <3>1. m - 1 \in 1..n /\ m \in 2..n + 1 /\ m \in Int
      BY <1>3, <2>2
    <3>2. PICK b \in B : IsNth(B, m - 1, b) /\ dirs[m - 1] = DirAt(s, b)
      BY <1>3, <3>1
    <3>3. IsNth(all, m, b)
      <4>1. ASSUME NEW x \in all PROVE Below(all, x) = m - 1 <=> x = b
        <5>1. CASE x = f
          <6>1. x # b
            BY <1>3, <5>1
          <6> QED BY <1>7, <3>1, <5>1, <6>1
        <5>2. CASE x \in B
          <6>1. Below(B, x) = (m - 1) - 1 <=> x = b
            BY <3>2, <5>2 DEF IsNth
          <6> QED BY <1>7, <3>1, <5>2, <6>1
        <5> QED BY <1>1, <5>1, <5>2
      <4> QED BY <4>1 DEF IsNth
    <3>4. more[m] = DirAt(s, b) /\ b \in all
      BY <1>1, <1>5, <3>1, <3>2
    <3> QED BY <3>3, <3>4
  <2> QED BY <2>1, <2>2
<1>9. Lists(more, s, all)
  BY <1>5, <1>6, <1>8 DEF Lists
<1> QED BY <1>1, <1>5, <1>9

(* Where directories begin from i on.                                      *)
BeginsFrom(s, i) ==
  IF i > Len(s) THEN {}
  ELSE {SkipSlash(s, i)}
         \cup {c + 1 : c \in {d \in Slashes(s) : d >= SkipSlash(s, i)}}

LEMMA CutLists ==
  ASSUME NEW S, NEW s \in Seq(S), WellFormed(s),
         NEW dirs, IsCut(dirs, s, [i \in 1..Len(s) + 1 |-> DirEnd(s, i)])
  PROVE  /\ dirs[1] \in Seq(Seq(S))
         /\ Lists(dirs[1], s, BeginsFrom(s, 1))
<1> DEFINE ends == [i \in 1..Len(s) + 1 |-> DirEnd(s, i)]
           Good(i) == /\ dirs[i] \in Seq(Seq(S))
                      /\ Lists(dirs[i], s, BeginsFrom(s, i))
           Fine == {i \in 1..Len(s) : Depth(s, i) = 0 => Good(i)}
<1>1. PICK n : n = Len(s)
  OBVIOUS
<1>2. n \in Nat /\ DOMAIN s = 1..n
  BY <1>1
<1>3. dirs[n + 1] = <<>> /\ \A i \in 1..n : OneCut(dirs, s, ends, i)
  <2>1. Ends(s, ends)
    BY DirEnds
  <2> HIDE DEF ends
  <2>2. IsCut(dirs, s, ends)
    BY DEF ends
  <2> QED BY <1>1, <2>1, <2>2, CutSteps
<1>4. Good(n + 1)
  <2>1. n + 1 > n
    BY <1>2
  <2>2. BeginsFrom(s, n + 1) = {}
    BY <1>1, <2>1 DEF BeginsFrom
  <2>3. /\ IsFiniteSet({}) /\ {} \subseteq Nat /\ Len(<<>>) = Cardinality({})
        /\ \A m : m \notin 1..Len(<<>>)
    BY FS_EmptySet
  <2>4. Lists(<<>>, s, {})
    BY <2>3 DEF Lists
  <2>5. <<>> \in Seq(Seq(S))
    OBVIOUS
  <2> QED BY <1>3, <2>2, <2>4, <2>5
<1>5. ASSUME NEW i \in 1..n, \A j \in i + 1..n : j \in Fine
      PROVE  i \in Fine
  <2> SUFFICES ASSUME Depth(s, i) = 0 PROVE Good(i)
    BY <1>1
  <2>1. PICK first \in i..i + 1 : \E end \in i + 1..n + 1 :
          /\ first = SkipSlash(s, i) /\ end = ends[first]
          /\ dirs[i] = Joined(<<Part(s, first, end - 1)>>, dirs[end])
    BY <1>1, <1>3 DEF OneCut
  <2>2. PICK end \in i + 1..n + 1 :
          /\ first = SkipSlash(s, i) /\ end = ends[first]
          /\ dirs[i] = Joined(<<Part(s, first, end - 1)>>, dirs[end])
    BY <2>1
  <2>3. first \in 1..n + 1 /\ end = DirEnd(s, first) /\ first \in Nat
    BY <1>1, <1>2, <2>2
  <2>4. Depth(s, first) = 0
    <3>1. first = i \/ (first = i + 1 /\ s[i] = "/")
      BY <2>2 DEF SkipSlash
    <3>2. s[i] = "/" => Depth(s, i + 1) = Depth(s, i)
      BY <1>1, WellFormedIs
    <3> QED BY <3>1, <3>2
  <2>5. /\ end \in first..n + 1 /\ (end # n + 1 => end \in Slashes(s))
        /\ \A x \in first..end - 1 : x \notin Slashes(s)
    BY <1>1, <2>3, <2>4, DirEndIsNextCut DEF IsNextCut
  <2>6. /\ BeginsFrom(s, i) = {first} \cup BeginsFrom(s, end)
        /\ \A x \in BeginsFrom(s, end) : first < x
    <3>1. /\ Slashes(s) \subseteq 1..n
          /\ \A c \in Slashes(s) : s[c] = "/"
      BY <1>2 DEF Slashes
    <3>2. BeginsFrom(s, i) =
            {first} \cup {c + 1 : c \in {d \in Slashes(s) : d >= first}}
      <4>1. ~(i > Len(s))
        BY <1>1, <1>2
      <4> QED BY <2>2, <4>1 DEF BeginsFrom
    <3>3. CASE end = n + 1
      <4>1. BeginsFrom(s, end) = {}
        BY <1>1, <1>2, <3>3 DEF BeginsFrom
      <4>2. {d \in Slashes(s) : d >= first} = {}
        BY <1>2, <2>5, <3>1, <3>3
      <4> QED BY <3>2, <4>1, <4>2
    <3>4. CASE end # n + 1
      <4>1. end \in 1..n /\ end \in Slashes(s) /\ s[end] = "/"
        BY <2>5, <3>1, <3>4
      <4>2. SkipSlash(s, end) = end + 1 /\ ~(end > Len(s))
        BY <1>1, <4>1 DEF SkipSlash
      <4>3. BeginsFrom(s, end) =
              {end + 1} \cup {c + 1 : c \in {d \in Slashes(s) : d >= end + 1}}
        BY <4>2 DEF BeginsFrom
      <4>4. {d \in Slashes(s) : d >= first} =
              {end} \cup {d \in Slashes(s) : d >= end + 1}
        <5>1. ASSUME NEW d \in Slashes(s)
              PROVE  d >= first <=> d = end \/ d >= end + 1
          <6>1. d \in 1..n /\ d \notin first..end - 1
            BY <2>5, <3>1
          <6> QED BY <2>3, <2>5, <6>1
        <5> QED BY <4>1, <5>1
      <4>5. \A x \in BeginsFrom(s, end) : first < x
        <5>1. ASSUME NEW c \in Slashes(s), c >= end + 1 PROVE first < c + 1
          BY <2>3, <2>5, <3>1, <5>1
        <5>2. first < end + 1
          BY <2>3, <2>5
        <5> QED BY <4>3, <5>1, <5>2
      <4> QED BY <3>2, <4>3, <4>4, <4>5
    <3> QED BY <3>3, <3>4
  <2>7. Good(end)
    <3>1. end = n + 1 \/ (end \in i + 1..n /\ Depth(s, end) = 0)
      BY <1>2, <2>5 DEF Slashes
    <3> QED BY <1>4, <1>5, <3>1
  <2>8. DirAt(s, first) \in Seq(S)
    <3>1. end - 1 \in first - 1..Len(s) /\ first \in 1..Len(s) + 1
      BY <1>1, <1>2, <2>3, <2>5
    <3>2. PICK l \in first - 1..Len(s) : l = end - 1
      BY <3>1
    <3>3. Part(s, first, l) \in Seq(S)
      BY <3>1, PartIs
    <3> QED BY <2>3, <3>2, <3>3 DEF DirAt
  <2>9. dirs[i] = Joined(<<DirAt(s, first)>>, dirs[end])
    BY <2>2, <2>3, Zenon DEF DirAt
  <2>10. PICK T, rest, B : /\ T = Seq(S) /\ rest = dirs[end]
                           /\ B = BeginsFrom(s, end)
    OBVIOUS
  <2>11. /\ rest \in Seq(T) /\ Lists(rest, s, B) /\ DirAt(s, first) \in T
         /\ \A x \in B : first < x
    BY <2>6, <2>7, <2>8, <2>10
  <2>12. /\ Joined(<<DirAt(s, first)>>, rest) \in Seq(T)
         /\ Lists(Joined(<<DirAt(s, first)>>, rest), s, {first} \cup B)
    BY <2>3, <2>11, ListsOneMore
  <2> QED BY <2>6, <2>9, <2>10, <2>12
<1>6. \A i \in 1..n : i \in Fine
  <2> HIDE DEF Fine
  <2> QED BY <1>2, <1>5, Downward
<1>7. Depth(s, 1) = 0 /\ (1 \in 1..n \/ 1 = n + 1)
  BY <1>2, WellFormedIs
<1>8. Good(1)
  <2> HIDE DEF Good
  <2> QED BY <1>4, <1>6, <1>7
<1> QED BY <1>8

(* The end of a directory, as the reference counts it.                     *)
EndsBefore(s, b) ==
  {Len(s)} \cup {c - 1 : c \in {d \in Slashes(s) : d >= b}}

LEMMA EndIs ==
  ASSUME NEW S, NEW s \in Seq(S), NEW b \in 1..Len(s) + 1, NEW e,
         IsNextCut(s, b, e)
  PROVE  Min(EndsBefore(s, b)) = e - 1
<1>1. PICK n, X : n = Len(s) /\ X = EndsBefore(s, b)
  OBVIOUS
<1>2. n \in Nat /\ Slashes(s) \subseteq 1..n /\ b \in 1..n + 1
  <2>1. n \in Nat /\ DOMAIN s = 1..n
    BY <1>1
  <2> QED BY <1>1, <2>1 DEF Slashes
<1>3. /\ e \in b..n + 1 /\ (e # n + 1 => e \in Slashes(s))
      /\ \A x \in b..e - 1 : x \notin Slashes(s)
  BY <1>1 DEF IsNextCut
<1>4. X = {n} \cup {c - 1 : c \in {d \in Slashes(s) : d >= b}}
  BY <1>1 DEF EndsBefore
<1>5. e - 1 \in X
  <2>1. CASE e = n + 1
    BY <1>2, <1>4, <2>1
  <2>2. CASE e # n + 1
    <3>1. e \in {d \in Slashes(s) : d >= b}
      BY <1>2, <1>3, <2>2
    <3> QED BY <1>4, <3>1
  <2> QED BY <2>1, <2>2
<1>6. ASSUME NEW y \in X PROVE e - 1 <= y /\ y \in Nat
  <2>1. CASE y = n
    BY <1>2, <1>3, <2>1
  <2>2. CASE \E c \in Slashes(s) : c >= b /\ y = c - 1
    <3>1. PICK c \in Slashes(s) : c >= b /\ y = c - 1
      BY <2>2
    <3>2. c \in 1..n /\ c \notin b..e - 1
      BY <1>2, <1>3, <3>1
    <3> QED BY <1>2, <1>3, <3>1, <3>2
  <2> QED BY <1>4, <2>1, <2>2
<1>7. Min(X) \in X /\ \A y \in X : Min(X) <= y
  <2>1. X \subseteq Nat /\ X # {}
    BY <1>5, <1>6
  <2> QED BY <2>1, LeastExists
<1>8. Min(X) = e - 1
  <2>1. e - 1 <= Min(X) /\ Min(X) <= e - 1 /\ Min(X) \in Nat
    BY <1>5, <1>6, <1>7
  <2> QED BY <1>2, <1>3, <2>1
<1> QED BY <1>1, <1>8

LEMMA BeginsAre ==
  ASSUME NEW S, NEW s \in Seq(S), WellFormed(s), s # <<>>
  PROVE  /\ BeginsFrom(s, 1) =
              {i + 1 : i \in Slashes(s)} \cup {SkipSlash(s, 1)}
         /\ \A b \in BeginsFrom(s, 1) :
              b \in 1..Len(s) + 1 /\ IsNextCut(s, b, DirEnd(s, b))
<1>1. PICK n, f : n = Len(s) /\ f = SkipSlash(s, 1)
  OBVIOUS
<1>2. n \in Nat /\ n # 0 /\ DOMAIN s = 1..n
  BY <1>1
<1>3. \A c \in Slashes(s) : c \in 1..n /\ s[c] = "/" /\ Depth(s, c) = 0
  BY <1>2 DEF Slashes
<1>4. Depth(s, 1) = 0
  BY WellFormedIs
<1>5. \/ s[1] = "/" /\ f = 2 /\ 1 \in Slashes(s)
      \/ s[1] # "/" /\ f = 1
  BY <1>1, <1>2, <1>4 DEF SkipSlash, Slashes
<1>6. BeginsFrom(s, 1) = {f} \cup {c + 1 : c \in {d \in Slashes(s) : d >= f}}
  <2>1. ~(1 > Len(s))
    BY <1>1, <1>2
  <2> QED BY <1>1, <2>1 DEF BeginsFrom
<1>7. BeginsFrom(s, 1) = {i + 1 : i \in Slashes(s)} \cup {f}
  <2>1. \A c \in Slashes(s) : c >= f \/ c + 1 = f
    BY <1>3, <1>5
  <2> QED BY <1>6, <2>1
<1>8. ASSUME NEW b \in BeginsFrom(s, 1)
      PROVE  b \in 1..Len(s) + 1 /\ IsNextCut(s, b, DirEnd(s, b))
  <2>1. b = 1 \/ \E c \in Slashes(s) : b = c + 1
    <3>1. f = 1 \/ \E c \in Slashes(s) : f = c + 1
      BY <1>5
    <3> QED BY <1>7, <3>1
  <2>2. b \in 1..n + 1
    BY <1>2, <1>3, <2>1
  <2>3. Depth(s, b) = 0
    <3>1. ASSUME NEW c \in Slashes(s) PROVE Depth(s, c + 1) = 0
      <4>1. c \in 1..Len(s) /\ s[c] \notin {"<", ">"} /\ Depth(s, c) = 0
        BY <1>1, <1>3
      <4>2. Depth(s, c + 1) = Depth(s, c)
        BY <4>1, WellFormedIs
      <4> QED BY <4>1, <4>2
    <3> QED BY <1>4, <2>1, <3>1
  <2> QED BY <1>1, <2>2, <2>3, DirEndIsNextCut
<1> QED BY <1>1, <1>7, <1>8

LEMMA CutIsOutsideTags ==
  ASSUME NEW S, NEW s \in Seq(S), WellFormed(s)
  PROVE  CutRoute(s) = OutsideTags(s)
<1>1. PICK dirs : /\ IsCut(dirs, s, [i \in 1..Len(s) + 1 |-> DirEnd(s, i)])
                  /\ CutRoute(s) = dirs[1]
  BY CutRouteAt
<1>2. PICK cut, B : /\ cut = CutRoute(s)
                    /\ B = IF s = <<>> THEN {}
                           ELSE {i + 1 : i \in Slashes(s)}
                                  \cup {SkipSlash(s, 1)}
  OBVIOUS
<1>3. B = BeginsFrom(s, 1)
  <2>1. CASE s = <<>>
    <3>1. 1 > Len(s)
      BY <2>1
    <3> QED BY <1>2, <2>1, <3>1 DEF BeginsFrom
  <2>2. CASE s # <<>>
    BY <1>2, <2>2, BeginsAre
  <2> QED BY <2>1, <2>2
<1>4. cut \in Seq(Seq(S)) /\ Lists(cut, s, B)
  BY <1>1, <1>2, <1>3, CutLists
<1>5. /\ Len(cut) = Cardinality(B)
      /\ \A m \in 1..Len(cut) :
           \E b \in B : IsNth(B, m, b) /\ cut[m] = DirAt(s, b)
  BY <1>4 DEF Lists
<1>6. ASSUME NEW b \in B
      PROVE  SubSeq(s, b, Min(EndsBefore(s, b))) = DirAt(s, b)
  <2>1. s # <<>>
    BY <1>2, <1>6
  <2>2. b \in 1..Len(s) + 1 /\ IsNextCut(s, b, DirEnd(s, b))
    BY <1>3, <2>1, BeginsAre
  <2>3. Min(EndsBefore(s, b)) = DirEnd(s, b) - 1
    BY <2>2, EndIs
  <2> QED BY <2>3, Zenon DEF DirAt, Part
<1>7. ASSUME NEW m \in 1..Cardinality(B)
      PROVE  cut[m] = SubSeq(s, Nth(B, m), Min(EndsBefore(s, Nth(B, m))))
  <2>1. PICK b \in B : IsNth(B, m, b) /\ cut[m] = DirAt(s, b)
    BY <1>5
  <2>2. Nth(B, m) = b
    <3>1. \A x \in B : Cardinality({y \in B : y < x}) = m - 1 <=> x = b
      BY <2>1 DEF IsNth, Below
    <3> QED BY <3>1 DEF Nth
  <2> QED BY <1>6, <2>1, <2>2
<1>8. OutsideTags(s) =
        [m \in 1..Cardinality(B) |->
           SubSeq(s, Nth(B, m), Min(EndsBefore(s, Nth(B, m))))]
  BY <1>2 DEF OutsideTags, EndsBefore
<1>9. cut = [m \in 1..Cardinality(B) |-> cut[m]]
  BY <1>4, <1>5
<1>10. cut = OutsideTags(s)
  BY <1>7, <1>8, <1>9
<1> QED BY <1>2, <1>10

-----------------------------------------------------------------------------
(* The directories of routes and paths, and what is found in them.         *)

Symbol == UNION {Range(path) : path \in Routes \cup Paths}

Dirs == Seq(Symbol)

Requested == UNION {Range(path) : path \in PathDirs}

Found == UNION {Range(SearchOf[tag][dir]) : tag \in Tags, dir \in Requested}

LEMMA DirectoriesAre ==
  /\ RouteDirs \subseteq Seq(Dirs) /\ PathDirs \subseteq Seq(Dirs)
  /\ Tags \subseteq Dirs /\ TagOrder \in Seq(Tags)
  /\ \A dir \in Tags : HasTags(dir)
<1>1. ASSUME NEW path \in Routes \cup Paths PROVE path \in Seq(Symbol)
  <2>1. path \in Seq(Range(path))
    BY RouterAssumption
  <2>2. Range(path) \subseteq Symbol
    BY DEF Symbol
  <2> QED BY <2>1, <2>2, SeqMonotonic
<1>2. RouteDirs \subseteq Seq(Dirs)
  BY <1>1, CutRouteIs DEF RouteDirs, Dirs
<1>3. PathDirs \subseteq Seq(Dirs)
  BY <1>1, CutRequestIs DEF PathDirs, Dirs
<1>4. ASSUME NEW route \in RouteDirs, NEW dir \in Range(route)
      PROVE  dir \in Dirs
  <2>1. route \in Seq(Dirs)
    BY <1>2
  <2>2. PICK i \in DOMAIN route : dir = route[i]
    BY DEF Range
  <2> QED BY <2>1, <2>2
<1>5. Tags \subseteq Dirs /\ \A dir \in Tags : HasTags(dir)
  BY <1>4 DEF Tags
<1> QED BY <1>2, <1>3, <1>5, RouterAssumption

LEMMA RequestedAre ==
  ASSUME NEW path \in PathDirs
  PROVE  /\ path \in Seq(Dirs) /\ DOMAIN path = 1..Len(path)
         /\ Len(path) \in Nat
         /\ \A i \in 1..Len(path) : path[i] \in Dirs
<1>1. path \in Seq(Dirs)
  BY DirectoriesAre
<1> QED BY <1>1

LEMMA RoutesAre ==
  ASSUME NEW route \in RouteDirs
  PROVE  /\ route \in Seq(Dirs) /\ DOMAIN route = 1..Len(route)
         /\ Len(route) \in Nat
         /\ \A i \in 1..Len(route) : /\ route[i] \in Dirs
                                     /\ HasTags(route[i]) => route[i] \in Tags
<1>1. route \in Seq(Dirs)
  BY DirectoriesAre
<1>2. \A i \in 1..Len(route) : route[i] \in Range(route)
  BY <1>1 DEF Range
<1> QED BY <1>1, <1>2 DEF Tags

LEMMA FoundIs ==
  ASSUME NEW tag \in Tags, NEW path \in PathDirs, NEW i \in 1..Len(path),
         SearchOf[tag][path[i]] # NoMatch
  PROVE  SearchOf[tag][path[i]] \in Seq(Found)
<1> DEFINE groups == SearchOf[tag][path[i]]
<1>1. path[i] \in Range(path)
  BY RequestedAre DEF Range
<1>2. groups \in Seq(Range(groups))
  BY <1>1, RouterAssumption
<1>3. path[i] \in Requested
  BY <1>1 DEF Requested
<1>4. Range(groups) \subseteq Found
  BY <1>3 DEF Found
<1> HIDE DEF groups
<1>5. groups \in Seq(Found)
  BY <1>2, <1>4, SeqMonotonic
<1> QED BY <1>5 DEF groups

-----------------------------------------------------------------------------
(* One iteration of the loop of find().                                    *)

Walks == [node : Seq(Dirs), groups : Seq(Found), failed : BOOLEAN]

GroupsAt(dir, requested) ==
  IF dir \in Tags THEN SearchOf[dir][requested] ELSE <<>>

(* It goes down to a node of the tree whose directory matches, and keeps   *)
(* what the expression of the directory has found, or it fails.            *)
Descends(tree, walk, next, requested) ==
  \E dir \in Dirs :
    /\ Table!DirMatches(dir, requested)
    /\ Append(walk.node, dir) \in tree
    /\ next = [node   |-> Append(walk.node, dir),
               groups |-> walk.groups \o GroupsAt(dir, requested),
               failed |-> FALSE]

LEMMA GroupsAtAre ==
  ASSUME NEW dir \in Dirs, NEW path \in PathDirs, NEW i \in 1..Len(path),
         Table!DirMatches(dir, path[i])
  PROVE  GroupsAt(dir, path[i]) \in Seq(Found)
BY FoundIs DEF GroupsAt, Table!DirMatches

LEMMA MatchingTagsAre ==
  ASSUME NEW tree, NEW node, NEW dir, MatchingTags(tree, node, dir) # {}
  PROVE  LET first == Min(MatchingTags(tree, node, dir))
         IN /\ first \in DOMAIN TagOrder /\ TagOrder[first] \in Tags
            /\ Append(node, TagOrder[first]) \in tree
            /\ SearchOf[TagOrder[first]][dir] # NoMatch
            /\ \A i \in MatchingTags(tree, node, dir) : first <= i
<1> DEFINE S == MatchingTags(tree, node, dir)
<1>1. TagOrder \in Seq(Tags)
  BY DirectoriesAre
<1>2. S = {i \in DOMAIN TagOrder :
             /\ Append(node, TagOrder[i]) \in tree
             /\ SearchOf[TagOrder[i]][dir] # NoMatch}
  BY DEF MatchingTags
<1>3. S \subseteq Nat
  BY <1>1, <1>2
<1> HIDE DEF S
<1>4. S # {}
  BY DEF S
<1>5. PICK first : /\ first = Min(S) /\ first \in S
                   /\ \A i \in S : first <= i
  BY <1>3, <1>4, LeastExists
<1>6. first \in DOMAIN TagOrder /\ TagOrder[first] \in Tags
  BY <1>1, <1>2, <1>5
<1> QED BY <1>2, <1>5, <1>6 DEF S

LEMMA DescendIs ==
  ASSUME NEW tree, NEW path \in PathDirs, NEW i \in 1..Len(path),
         NEW walk \in Walks, ~walk.failed
  PROVE  LET next == Descend(tree, walk, path[i])
         IN /\ next \in Walks
            /\ \/ next = [walk EXCEPT !.failed = TRUE]
               \/ Descends(tree, walk, next, path[i])
<1> DEFINE requested == path[i]
           next == Descend(tree, walk, requested)
           S == MatchingTags(tree, walk.node, requested)
<1>1. requested \in Dirs
  BY RequestedAre
<1>2. walk.node \in Seq(Dirs) /\ walk.groups \in Seq(Found)
  BY DEF Walks
<1>3. CASE InRegularTree(tree, walk.node, requested)
  <2>1. requested \notin Tags /\ Append(walk.node, requested) \in tree
    BY <1>3, DirectoriesAre DEF InRegularTree
  <2>2. next = [walk EXCEPT !.node = Append(@, requested)]
    BY <1>3 DEF Descend
  <2>3. walk.groups \o <<>> = walk.groups
    BY <1>2, ConcatEmptySeq
  <2>4. next = [node   |-> Append(walk.node, requested),
                groups |-> walk.groups \o GroupsAt(requested, requested),
                failed |-> FALSE]
    BY <2>1, <2>2, <2>3 DEF Walks, GroupsAt
  <2>5. Table!DirMatches(requested, requested)
    BY <2>1 DEF Table!DirMatches
  <2>6. Descends(tree, walk, next, requested)
    BY <1>1, <2>1, <2>4, <2>5 DEF Descends
  <2>7. next \in Walks
    BY <1>1, <1>2, <2>2 DEF Walks
  <2> QED BY <2>6, <2>7
<1>4. CASE ~InRegularTree(tree, walk.node, requested) /\ S # {}
  <2>1. PICK tag \in Tags : /\ tag = TagOrder[Min(S)]
                            /\ Append(walk.node, tag) \in tree
                            /\ SearchOf[tag][requested] # NoMatch
    BY <1>4, MatchingTagsAre
  <2>2. next = [walk EXCEPT !.node = Append(@, tag),
                            !.groups = @ \o SearchOf[tag][requested]]
    BY <1>4, <2>1 DEF Descend
  <2>3. tag \in Dirs /\ SearchOf[tag][requested] \in Seq(Found)
    BY <2>1, DirectoriesAre, FoundIs
  <2>4. next = [node   |-> Append(walk.node, tag),
                groups |-> walk.groups \o GroupsAt(tag, requested),
                failed |-> FALSE]
    BY <2>2 DEF Walks, GroupsAt
  <2>5. Table!DirMatches(tag, requested)
    BY <2>1 DEF Table!DirMatches
  <2>6. Descends(tree, walk, next, requested)
    BY <2>1, <2>3, <2>4, <2>5 DEF Descends
  <2>7. /\ Append(walk.node, tag) \in Seq(Dirs)
        /\ walk.groups \o SearchOf[tag][requested] \in Seq(Found)
    BY <1>2, <2>3, AppendProperties, ConcatProperties
  <2>8. next \in Walks
    BY <2>2, <2>7 DEF Walks
  <2> QED BY <2>6, <2>8
<1>5. CASE ~InRegularTree(tree, walk.node, requested) /\ S = {}
  <2>1. next = [walk EXCEPT !.failed = TRUE]
    BY <1>5 DEF Descend
  <2>2. next \in Walks
    BY <2>1 DEF Walks
  <2> QED BY <2>1, <2>2
<1> QED BY <1>3, <1>4, <1>5

-----------------------------------------------------------------------------
(* The whole loop.                                                         *)

Start == [node |-> <<>>, groups |-> <<>>, failed |-> FALSE]

IsWalk(walk, tree, path) ==
  /\ path \in PathDirs
  /\ walk = [i \in 0..Len(path) |->
               IF i = 0 THEN Start
               ELSE IF walk[i - 1].failed THEN walk[i - 1]
               ELSE Descend(tree, walk[i - 1], path[i])]

LEMMA WalkExists ==
  ASSUME NEW tree, NEW path \in PathDirs
  PROVE  \E walk : /\ IsWalk(walk, tree, path)
                  /\ Walk(tree, path) = walk[Len(path)]
<1> DEFINE n == Len(path)
           Loops(walk) ==
             walk = [i \in 0..n |->
                       IF i = 0 THEN Start
                       ELSE IF walk[i - 1].failed THEN walk[i - 1]
                       ELSE Descend(tree, walk[i - 1], path[i])]
           W == CHOOSE walk : Loops(walk)
           after(i, walk) == IF walk.failed THEN walk
                             ELSE Descend(tree, walk, path[i])
           step == [i \in 1..n |-> [walk \in Walks |-> after(i, walk)]]
<1>1. n \in Nat
  BY RequestedAre
<1>2. Walk(tree, path) = W[n]
  BY DEF Walk, Start, Cleared
<1>3. Start \in Walks
  BY DEF Start, Walks
<1>4. ASSUME NEW i \in 1..n, NEW walk \in Walks PROVE after(i, walk) \in Walks
  BY DescendIs
<1> HIDE DEF n, after
<1>5. step \in [1..n -> [Walks -> Walks]]
  BY <1>4
<1> HIDE DEF step
<1>6. PICK f \in [0..n -> Walks] : Forward(f, n, Start, step)
  BY <1>1, <1>3, <1>5, UpwardFunction
<1>7. ASSUME NEW i \in 1..n PROVE f[i] = after(i, f[i - 1])
  <2>1. i - 1 \in 0..n
    BY <1>1
  <2>2. f[i - 1] \in Walks /\ f[i] = step[i][f[i - 1]]
    BY <1>6, <2>1 DEF Forward
  <2> QED BY <2>2 DEF step
<1>8. f = [i \in 0..n |-> IF i = 0 THEN Start ELSE after(i, f[i - 1])]
  <2>1. f[0] = Start
    BY <1>6 DEF Forward
  <2>2. \A i \in 0..n : i = 0 \/ i \in 1..n
    BY <1>1
  <2> QED BY <1>7, <2>1, <2>2
<1>9. Loops(f)
  BY <1>8 DEF after
<1>10. Loops(W)
  <2> HIDE DEF Loops
  <2> QED BY <1>9
<1>11. IsWalk(W, tree, path)
  <2> HIDE DEF W
  <2> QED BY <1>10 DEF IsWalk, n
<1> HIDE DEF W
<1> QED BY <1>2, <1>11 DEF n

LEMMA WalkIs ==
  ASSUME NEW tree, NEW path, NEW walk, IsWalk(walk, tree, path)
  PROVE  /\ walk[0] = Start
         /\ \A i \in 0..Len(path) : walk[i] \in Walks
         /\ \A i \in 1..Len(path) :
              \/ walk[i - 1].failed /\ walk[i] = walk[i - 1]
              \/ /\ ~walk[i - 1].failed
                 /\ walk[i] = Descend(tree, walk[i - 1], path[i])
                 /\ \/ walk[i] = [walk[i - 1] EXCEPT !.failed = TRUE]
                    \/ Descends(tree, walk[i - 1], walk[i], path[i])
<1> DEFINE n == Len(path)
           S == {i \in 0..n : walk[i] \in Walks}
<1>0. path \in PathDirs
  BY DEF IsWalk
<1>1. n \in Nat
  BY <1>0, RequestedAre
<1>2. walk[0] = Start
  BY <1>1 DEF IsWalk
<1>3. ASSUME NEW i \in 1..n
      PROVE  walk[i] = IF walk[i - 1].failed THEN walk[i - 1]
                       ELSE Descend(tree, walk[i - 1], path[i])
  <2>1. i \in 0..n /\ i # 0
    BY <1>1
  <2> QED BY <2>1 DEF IsWalk
<1>4. 0 \in S
  <2>1. Start \in Walks
    BY DEF Start, Walks
  <2> QED BY <1>1, <1>2, <2>1
<1>5. ASSUME NEW i \in 1..n, i - 1 \in S PROVE i \in S
  <2>1. walk[i - 1] \in Walks /\ i \in 0..n
    BY <1>1, <1>5
  <2>2. walk[i] \in Walks
    BY <1>3, <1>0, <2>1, DescendIs
  <2> QED BY <2>1, <2>2
<1>6. \A i \in 0..n : i \in S
  <2> HIDE DEF S
  <2> QED BY <1>1, <1>4, <1>5, Upward
<1>7. ASSUME NEW i \in 1..n, ~walk[i - 1].failed
      PROVE  \/ walk[i] = [walk[i - 1] EXCEPT !.failed = TRUE]
             \/ Descends(tree, walk[i - 1], walk[i], path[i])
  <2>1. i - 1 \in 0..n
    BY <1>1
  <2>2. walk[i - 1] \in Walks
    BY <1>6, <2>1
  <2>3. LET next == Descend(tree, walk[i - 1], path[i])
        IN \/ next = [walk[i - 1] EXCEPT !.failed = TRUE]
           \/ Descends(tree, walk[i - 1], next, path[i])
    BY <1>7, <1>0, <2>2, DescendIs
  <2>4. walk[i] = Descend(tree, walk[i - 1], path[i])
    BY <1>3, <1>7
  <2> QED BY <2>3, <2>4
<1> HIDE DEF n
<1>8. \A i \in 0..n : walk[i] \in Walks
  BY <1>6
<1> HIDE DEF S
<1> QED BY <1>2, <1>3, <1>7, <1>8 DEF n

LEMMA WalkStep ==
  ASSUME NEW tree, NEW path, NEW walk, IsWalk(walk, tree, path),
         NEW i \in 1..Len(path), ~walk[i - 1].failed
  PROVE  walk[i] = Descend(tree, walk[i - 1], path[i])
<1>1. Len(path) \in Nat
  BY RequestedAre DEF IsWalk
<1>2. i \in 0..Len(path) /\ i # 0
  BY <1>1
<1> QED BY <1>2 DEF IsWalk

(* The node of an iteration is on the way to every later one.              *)
Extends(node, other) ==
  /\ Len(node) <= Len(other)
  /\ \A k \in 1..Len(node) : other[k] = node[k]

LEMMA ExtendsAppend ==
  ASSUME NEW node \in Seq(Dirs), NEW other \in Seq(Dirs), NEW dir \in Dirs,
         Extends(node, other)
  PROVE  Extends(node, Append(other, dir))
<1>1. /\ Len(Append(other, dir)) = Len(other) + 1
      /\ \A l \in 1..Len(other) : Append(other, dir)[l] = other[l]
      /\ Len(other) \in Nat /\ Len(node) \in Nat
  BY AppendProperties
<1>2. \A l \in 1..Len(node) : l \in 1..Len(other)
  BY <1>1 DEF Extends
<1>3. \A l \in 1..Len(node) : Append(other, dir)[l] = node[l]
  BY <1>1, <1>2 DEF Extends
<1> QED BY <1>1, <1>3 DEF Extends

LEMMA WalkGoesOn ==
  ASSUME NEW tree, NEW path, NEW walk, IsWalk(walk, tree, path),
         NEW i \in 0..Len(path), NEW j \in i..Len(path)
  PROVE  /\ Extends(walk[i].node, walk[j].node)
         /\ walk[i].failed => walk[j].failed
<1> DEFINE n == Len(path)
           S == {m \in 0..n - i : /\ Extends(walk[i].node, walk[i + m].node)
                                  /\ walk[i].failed => walk[i + m].failed}
<1>0. path \in PathDirs
  BY DEF IsWalk
<1>1. n \in Nat /\ n - i \in Nat
  BY <1>0, RequestedAre
<1>2. \A k \in 0..n : /\ walk[k].node \in Seq(Dirs)
                      /\ walk[k].failed \in BOOLEAN
  BY WalkIs DEF Walks
<1> HIDE DEF n
<1>3. 0 \in S
  BY <1>1, <1>2 DEF Extends
<1>4. ASSUME NEW m \in 1..n - i, m - 1 \in S PROVE m \in S
  <2>1. PICK k \in 1..n : k = i + m /\ k - 1 = i + (m - 1) /\ k - 1 \in 0..n
    BY <1>1
  <2>2. /\ Extends(walk[i].node, walk[k - 1].node)
        /\ walk[i].failed => walk[k - 1].failed
    BY <1>4, <2>1
  <2>3. CASE walk[k].node = walk[k - 1].node
             /\ (walk[k - 1].failed => walk[k].failed)
    BY <2>1, <2>2, <2>3
  <2>4. CASE ~walk[k - 1].failed
             /\ Descends(tree, walk[k - 1], walk[k], path[k])
    <3>1. PICK dir \in Dirs : walk[k].node = Append(walk[k - 1].node, dir)
      BY <2>4 DEF Descends
    <3>2. walk[k - 1].node \in Seq(Dirs) /\ walk[i].node \in Seq(Dirs)
      BY <1>1, <1>2, <2>1
    <3>3. Extends(walk[i].node, walk[k].node)
      BY <2>2, <3>1, <3>2, ExtendsAppend
    <3> QED BY <2>1, <2>2, <2>4, <3>3
  <2>5. walk[k - 1] \in Walks
    BY <2>1, WalkIs DEF n
  <2>6. \/ walk[k - 1].failed /\ walk[k] = walk[k - 1]
        \/ /\ ~walk[k - 1].failed
           /\ \/ walk[k] = [walk[k - 1] EXCEPT !.failed = TRUE]
              \/ Descends(tree, walk[k - 1], walk[k], path[k])
    BY <2>1, WalkIs DEF n
  <2> HIDE DEF S
  <2>7. CASE walk[k] = [walk[k - 1] EXCEPT !.failed = TRUE]
    <3>1. walk[k].node = walk[k - 1].node /\ walk[k].failed
      BY <2>5, <2>7 DEF Walks
    <3> QED BY <2>3, <3>1
  <2> QED BY <2>3, <2>4, <2>6, <2>7
<1>5. \A m \in 0..n - i : m \in S
  <2> HIDE DEF S
  <2> QED BY <1>1, <1>3, <1>4, Upward
<1>6. j - i \in 0..n - i /\ i + (j - i) = j
  BY <1>1 DEF n
<1> QED BY <1>5, <1>6

-----------------------------------------------------------------------------
(* What the search has found.                                              *)

LEMMA WalkMatches ==
  ASSUME NEW tree, NEW path, NEW walk, IsWalk(walk, tree, path),
         NEW last \in 0..Len(path), ~walk[last].failed
  PROVE  /\ walk[last].node \in Seq(Dirs)
         /\ Len(walk[last].node) = last
         /\ last # 0 => walk[last].node \in tree
         /\ \A k \in 1..last :
              Table!DirMatches(walk[last].node[k], path[k])
<1> DEFINE n == Len(path)
           Matches(i) ==
             /\ Len(walk[i].node) = i
             /\ i # 0 => walk[i].node \in tree
             /\ \A k \in 1..i : Table!DirMatches(walk[i].node[k], path[k])
           S == {i \in 0..n : ~walk[i].failed => Matches(i)}
<1>0. path \in PathDirs
  BY DEF IsWalk
<1>1. n \in Nat
  BY <1>0, RequestedAre
<1>2. \A i \in 0..n : walk[i].node \in Seq(Dirs)
  BY WalkIs DEF Walks
<1>3. 0 \in S
  <2>1. walk[0] = Start
    BY WalkIs
  <2>2. walk[0].node = <<>> /\ Len(<<>>) = 0
    BY <2>1 DEF Start
  <2>3. Matches(0)
    BY <2>2
  <2> QED BY <1>1, <2>3
<1>4. ASSUME NEW i \in 1..n, i - 1 \in S PROVE i \in S
  <2>1. i \in 0..n /\ i - 1 \in 0..n
    BY <1>1
  <2> SUFFICES ASSUME ~walk[i].failed PROVE Matches(i)
    BY <2>1
  <2>2. walk[i - 1].failed => walk[i].failed
    <3>1. i \in i - 1..n
      BY <1>1
    <3> QED BY <2>1, <3>1, WalkGoesOn
  <2>3. ~walk[i - 1].failed
    BY <2>2
  <2>4. Matches(i - 1) /\ walk[i - 1] \in Walks
    BY <1>4, <2>1, <2>3, WalkIs
  <2>5. Descends(tree, walk[i - 1], walk[i], path[i])
    <3>1. \/ walk[i] = [walk[i - 1] EXCEPT !.failed = TRUE]
          \/ Descends(tree, walk[i - 1], walk[i], path[i])
      BY <2>3, WalkIs
    <3>2. walk[i] # [walk[i - 1] EXCEPT !.failed = TRUE]
      BY <2>4 DEF Walks
    <3> QED BY <3>1, <3>2
  <2>6. PICK dir \in Dirs : /\ Table!DirMatches(dir, path[i])
                            /\ Append(walk[i - 1].node, dir) \in tree
                            /\ walk[i].node = Append(walk[i - 1].node, dir)
    BY <2>5 DEF Descends
  <2>7. /\ Len(walk[i - 1].node) = i - 1 /\ walk[i - 1].node \in Seq(Dirs)
        /\ \A k \in 1..i - 1 :
             Table!DirMatches(walk[i - 1].node[k], path[k])
    BY <1>2, <2>1, <2>4
  <2>8. /\ Len(walk[i].node) = i /\ walk[i].node[i] = dir
        /\ \A k \in 1..i - 1 : walk[i].node[k] = walk[i - 1].node[k]
    BY <2>6, <2>7, AppendProperties
  <2>9. ASSUME NEW k \in 1..i
        PROVE  Table!DirMatches(walk[i].node[k], path[k])
    <3>1. k = i \/ k \in 1..i - 1
      OBVIOUS
    <3> QED BY <2>6, <2>7, <2>8, <3>1
  <2> QED BY <2>6, <2>8, <2>9
<1>5. \A i \in 0..n : i \in S
  <2> HIDE DEF S
  <2> QED BY <1>1, <1>3, <1>4, Upward
<1>6. Matches(last)
  BY <1>5
<1> QED BY <1>2, <1>6

(* FlattenSeq, one sequence after the other.                               *)
LEMMA FlattenIs ==
  ASSUME NEW S, NEW seqs \in Seq(Seq(S)), NEW f, f[0] = <<>>,
         \A i \in 1..Len(seqs) : f[i] = f[i - 1] \o seqs[i]
  PROVE  Table!FlattenSeq(seqs) = f[Len(seqs)]
<1> DEFINE n == Len(seqs)
           Flat(g) == g = [i \in 1..n |-> IF i = 1 THEN seqs[i]
                                          ELSE g[i - 1] \o seqs[i]]
           F == CHOOSE g : Flat(g)
<1>1. n \in Nat /\ \A i \in 1..n : seqs[i] \in Seq(S)
  OBVIOUS
<1>2. CASE n = 0
  <2>1. Table!FlattenSeq(seqs) = seqs
    BY <1>2 DEF Table!FlattenSeq
  <2>2. seqs = <<>>
    BY <1>2
  <2> QED BY <1>2, <2>1, <2>2
<1>3. CASE n # 0
  <2>1. Table!FlattenSeq(seqs) = F[n]
    BY <1>3 DEF Table!FlattenSeq
  <2>2. 1 \in 1..n /\ f[1] = seqs[1]
    <3>1. 1 \in 1..n
      BY <1>1, <1>3
    <3>2. f[1] = f[1 - 1] \o seqs[1] /\ seqs[1] \in Seq(S)
      BY <1>1, <3>1
    <3>3. 1 - 1 = 0
      OBVIOUS
    <3>4. f[1] = <<>> \o seqs[1]
      BY <3>2, <3>3, Zenon
    <3> QED BY <3>1, <3>2, <3>4, ConcatEmptySeq
  <2> DEFINE g == [i \in 1..n |-> f[i]]
  <2> HIDE DEF n
  <2>3. Flat(g)
    <3>1. ASSUME NEW i \in 1..n, i # 1 PROVE f[i] = g[i - 1] \o seqs[i]
      <4>1. i - 1 \in 1..n
        BY <1>1, <3>1
      <4> QED BY <4>1 DEF n
    <3> QED BY <2>2, <3>1
  <2>4. Flat(F)
    <3> HIDE DEF Flat, g
    <3> QED BY <2>3
  <2> HIDE DEF F
  <2> DEFINE T == {i \in 0..n : i = 0 \/ F[i] = f[i]}
  <2>5. ASSUME NEW i \in 1..n, i - 1 \in T PROVE i \in T
    <3>1. i \in 0..n /\ (i # 1 => i - 1 # 0)
      BY <1>1
    <3>2. F[i] = IF i = 1 THEN seqs[i] ELSE F[i - 1] \o seqs[i]
      BY <2>4
    <3>3. f[i] = f[i - 1] \o seqs[i]
      BY DEF n
    <3> QED BY <2>2, <2>5, <3>1, <3>2, <3>3
  <2>6. \A i \in 0..n : i \in T
    <3>1. 0 \in T
      BY <1>1
    <3> HIDE DEF T
    <3> QED BY <1>1, <2>5, <3>1, Upward
  <2>7. F[n] = f[n]
    BY <1>1, <1>3, <2>6
  <2> QED BY <2>1, <2>7 DEF n
<1> QED BY <1>2, <1>3

LEMMA WalkGroups ==
  ASSUME NEW tree, NEW path, NEW walk, IsWalk(walk, tree, path),
         ~walk[Len(path)].failed
  PROVE  walk[Len(path)].groups
           = Table!GroupsOf(walk[Len(path)].node, path)
<1>9. ASSUME NEW j \in 0..Len(path), ~walk[j].failed
      PROVE  walk[j].node \in Seq(Dirs) /\ Len(walk[j].node) = j
  BY <1>9, WalkMatches
<1> DEFINE n == Len(path)
           node == walk[n].node
           seqs == [i \in DOMAIN path |-> GroupsAt(node[i], path[i])]
           f == [i \in 0..n |-> walk[i].groups]
<1>0. path \in PathDirs
  BY DEF IsWalk
<1>1. n \in Nat /\ DOMAIN path = 1..n
  BY <1>0, RequestedAre
<1>2. /\ node \in Seq(Dirs) /\ Len(node) = n
      /\ \A k \in 1..n : Table!DirMatches(node[k], path[k])
  <2>1. n \in 0..n
    BY <1>1
  <2> QED BY <2>1, WalkMatches
<1>3. Table!GroupsOf(node, path) = Table!FlattenSeq(seqs)
  BY DEF Table!GroupsOf, GroupsAt
<1>4. seqs \in Seq(Seq(Found)) /\ Len(seqs) = n
  <2>1. ASSUME NEW i \in 1..n PROVE GroupsAt(node[i], path[i]) \in Seq(Found)
    <3>1. node[i] \in Dirs /\ Table!DirMatches(node[i], path[i])
      BY <1>2
    <3> QED BY <1>0, <3>1, GroupsAtAre
  <2>2. seqs = [i \in 1..n |-> GroupsAt(node[i], path[i])]
    BY <1>1
  <2> HIDE DEF n, node, seqs
  <2>3. seqs \in [1..n -> Seq(Found)]
    BY <2>1, <2>2
  <2> QED BY <1>1, <2>3
<1>5. f[0] = <<>>
  <2>1. walk[0] = Start
    BY WalkIs
  <2>2. walk[0].groups = <<>>
    BY <2>1 DEF Start
  <2>3. 0 \in 0..n
    BY <1>1
  <2> QED BY <2>2, <2>3
<1>6. ASSUME NEW i \in 1..n PROVE f[i] = f[i - 1] \o seqs[i]
  <2>1. PICK j \in 0..n : /\ j = i - 1 /\ i = j + 1 /\ i \in 0..n
                          /\ n \in i..n /\ n \in j..n
    BY <1>1
  <2>2. ~walk[i].failed /\ Extends(walk[i].node, node)
    BY <2>1, WalkGoesOn
  <2>3. ~walk[j].failed
    BY <2>1, <2>2, WalkGoesOn
  <2>4. walk[j] \in Walks
    BY <2>1, WalkIs
  <2>5. Descends(tree, walk[j], walk[i], path[i])
    <3>1. \/ walk[i] = [walk[j] EXCEPT !.failed = TRUE]
          \/ Descends(tree, walk[j], walk[i], path[i])
      BY <2>1, <2>3, WalkIs
    <3>2. walk[i] # [walk[j] EXCEPT !.failed = TRUE]
      BY <2>2, <2>4 DEF Walks
    <3> QED BY <3>1, <3>2
  <2> HIDE DEF f, seqs, node
  <2>6. PICK dir \in Dirs :
          /\ walk[i].node = Append(walk[j].node, dir)
          /\ walk[i].groups = walk[j].groups \o GroupsAt(dir, path[i])
    <3>1. PICK dir \in Dirs :
            walk[i] = [node   |-> Append(walk[j].node, dir),
                       groups |-> walk[j].groups \o GroupsAt(dir, path[i]),
                       failed |-> FALSE]
      BY <2>5, Zenon DEF Descends
    <3>2. PICK next, groups :
            /\ next = Append(walk[j].node, dir)
            /\ groups = walk[j].groups \o GroupsAt(dir, path[i])
      OBVIOUS
    <3>3. walk[i] = [node |-> next, groups |-> groups, failed |-> FALSE]
      BY <3>1, <3>2, Zenon
    <3>4. walk[i].node = next /\ walk[i].groups = groups
      BY <3>3
    <3> QED BY <3>2, <3>4, Zenon
  <2>7. walk[j].node \in Seq(Dirs) /\ Len(walk[j].node) = j
    <3>1. j \in 0..Len(path) /\ ~walk[j].failed
      BY <2>1, <2>3
    <3> HIDE DEF n
    <3> QED BY <3>1, <1>9
  <2>8. Len(walk[i].node) = i /\ walk[i].node[i] = dir
    <3>1. PICK prev : prev = walk[j].node
      OBVIOUS
    <3>2. prev \in Seq(Dirs) /\ Len(prev) = j
      BY <2>7, <3>1, Zenon
    <3>3. Len(Append(prev, dir)) = i /\ Append(prev, dir)[i] = dir
      <4> HIDE DEF n
      <4>1. i = j + 1 /\ j \in Nat
        BY <2>1, <1>1
      <4> QED BY <3>2, <4>1, AppendProperties
    <3> QED BY <2>6, <3>1, <3>3, Zenon
  <2>9. node[i] = dir
    <3>1. i \in 1..Len(walk[i].node)
      BY <2>8
    <3> QED BY <2>2, <2>8, <3>1 DEF Extends
  <2>10. seqs[i] = GroupsAt(dir, path[i])
    BY <1>1, <2>9 DEF seqs
  <2>11. f[i] = walk[i].groups /\ f[j] = walk[j].groups
    BY <2>1 DEF f
  <2> QED BY <2>1, <2>6, <2>10, <2>11
<1> HIDE DEF f, seqs, n, node
<1>7. Table!FlattenSeq(seqs) = f[n]
  BY <1>4, <1>5, <1>6, FlattenIs
<1>8. f[n] = walk[n].groups
  BY <1>1 DEF f
<1> QED BY <1>3, <1>7, <1>8 DEF n, node

-----------------------------------------------------------------------------
(* Where the search keeps to a route and where it parts with it.           *)

OnRoute(walk, route, k) == ~walk.failed /\ walk.node = SubSeq(route, 1, k)

PartsAt(walk, route, path, k) ==
  /\ ~walk.failed
  /\ \E dir \in Dirs :
       /\ walk.node = Append(SubSeq(route, 1, k - 1), dir)
       /\ dir # route[k]
       /\ \/ dir = path[k]
          \/ \E i, j \in DOMAIN TagOrder :
               TagOrder[i] = dir /\ TagOrder[j] = route[k] /\ i < j

LEMMA RouteStep ==
  ASSUME NEW tree, NEW path, NEW walk, IsWalk(walk, tree, path),
         NEW route \in RouteDirs, Table!RouteMatches(route, path),
         NEW k \in 1..Len(path), SubSeq(route, 1, k) \in tree,
         OnRoute(walk[k - 1], route, k - 1)
  PROVE  OnRoute(walk[k], route, k) \/ PartsAt(walk[k], route, path, k)
<1> DEFINE prefix == SubSeq(route, 1, k - 1)
           S == MatchingTags(tree, prefix, path[k])
<1>0. path \in PathDirs
  BY DEF IsWalk
<1>1. /\ Len(path) \in Nat /\ DOMAIN path = 1..Len(path)
      /\ path[k] \in Dirs
  BY <1>0, RequestedAre
<1>2. /\ route \in Seq(Dirs) /\ Len(route) = Len(path)
      /\ route[k] \in Dirs /\ HasTags(route[k]) => route[k] \in Tags
      /\ Table!DirMatches(route[k], path[k])
  BY <1>1, RoutesAre DEF Table!RouteMatches
<1>3. Append(prefix, route[k]) = SubSeq(route, 1, k)
  BY <1>1, <1>2
<1>4. PICK from : /\ from = walk[k - 1]
                  /\ ~from.failed /\ from.node = prefix
  BY Zenon DEF OnRoute
<1>5. from \in Walks /\ ~from.failed /\ from.node = prefix
  <2>1. k - 1 \in 0..Len(path)
    BY <1>1
  <2>2. from \in Walks
    BY <1>4, <2>1, WalkIs
  <2> QED BY <1>4, <2>2
<1>6. walk[k] = Descend(tree, from, path[k])
  <2>1. ~walk[k - 1].failed
    BY Zenon DEF OnRoute
  <2>2. walk[k] = Descend(tree, walk[k - 1], path[k])
    BY <2>1, WalkStep
  <2> QED BY <1>4, <2>2, Zenon
<1> HIDE DEF prefix
<1>7. CASE InRegularTree(tree, prefix, path[k])
  <2>1. walk[k] = [from EXCEPT !.node = Append(@, path[k])]
    BY <1>5, <1>6, <1>7 DEF Descend
  <2>2. walk[k].node = Append(prefix, path[k]) /\ ~walk[k].failed
    BY <1>5, <2>1 DEF Walks
  <2>3. CASE path[k] = route[k]
    BY <1>3, <2>2, <2>3, Zenon DEF OnRoute
  <2>4. CASE path[k] # route[k]
    BY <1>1, <2>2, <2>4, Zenon DEF PartsAt, prefix
  <2> QED BY <2>3, <2>4
<1>8. CASE ~InRegularTree(tree, prefix, path[k])
  <2>1. route[k] \in Tags
    <3> SUFFICES ASSUME route[k] \notin Tags PROVE FALSE
      OBVIOUS
    <3>1. route[k] = path[k] /\ ~HasTags(path[k])
      BY <1>2 DEF Table!DirMatches
    <3>2. Append(prefix, path[k]) \in tree
      BY <1>3, <3>1, Zenon
    <3> QED BY <1>8, <3>1, <3>2 DEF InRegularTree
  <2>2. PICK j \in DOMAIN TagOrder : TagOrder[j] = route[k]
    BY <2>1, RouterAssumption DEF Range
  <2>3. SearchOf[route[k]][path[k]] # NoMatch
    BY <1>2, <2>1 DEF Table!DirMatches
  <2>4. j \in S
    <3>1. Append(prefix, TagOrder[j]) \in tree
      BY <1>3, <2>2, Zenon
    <3> QED BY <2>2, <2>3, <3>1 DEF MatchingTags
  <2>5. PICK i \in DOMAIN TagOrder : /\ i = Min(S) /\ TagOrder[i] \in Tags
                                     /\ i <= j
    BY <2>4, MatchingTagsAre
  <2>6. TagOrder[i] \in Dirs
    BY <2>5, DirectoriesAre
  <2>7. walk[k] = [from EXCEPT
                     !.node = Append(@, TagOrder[i]),
                     !.groups = @ \o SearchOf[TagOrder[i]][path[k]]]
    BY <1>5, <1>6, <1>8, <2>4, <2>5, Zenon DEF Descend
  <2>8. walk[k].node = Append(prefix, TagOrder[i]) /\ ~walk[k].failed
    <3>1. PICK groups : walk[k] = [from EXCEPT
                                     !.node = Append(@, TagOrder[i]),
                                     !.groups = groups]
      BY <2>7, Zenon
    <3> QED BY <1>5, <3>1 DEF Walks
  <2>9. CASE TagOrder[i] = route[k]
    BY <1>3, <2>8, <2>9, Zenon DEF OnRoute
  <2>10. CASE TagOrder[i] # route[k]
    <3>1. i < j
      <4>1. i \in Nat /\ j \in Nat
        BY <2>2, <2>5, DirectoriesAre
      <4> QED BY <2>2, <2>5, <2>10, <4>1
    <3> QED BY <2>2, <2>6, <2>8, <2>10, <3>1, Zenon DEF PartsAt, prefix
  <2> QED BY <2>9, <2>10
<1> QED BY <1>7, <1>8

LEMMA RouteKeptOrLeft ==
  ASSUME NEW tree, NEW path, NEW walk, IsWalk(walk, tree, path),
         NEW route \in RouteDirs, Table!RouteMatches(route, path),
         Prefixes(route) \subseteq tree
  PROVE  \/ OnRoute(walk[Len(path)], route, Len(path))
         \/ \E k \in 1..Len(path) : PartsAt(walk[k], route, path, k)
<1> DEFINE n == Len(path)
           S == {k \in 0..n : OnRoute(walk[k], route, k)}
<1>0. path \in PathDirs
  BY DEF IsWalk
<1>1. n \in Nat /\ Len(route) = n /\ route \in Seq(Dirs)
  BY <1>0, RequestedAre, RoutesAre DEF Table!RouteMatches
<1>2. \A k \in 1..n : SubSeq(route, 1, k) \in tree
  <2>1. \A k \in 1..n : k \in 0..Len(route)
    BY <1>1
  <2> QED BY <2>1 DEF Prefixes
<1> SUFFICES ASSUME \A k \in 1..n : ~PartsAt(walk[k], route, path, k)
             PROVE  OnRoute(walk[n], route, n)
  OBVIOUS
<1>3. 0 \in S
  <2>1. walk[0] = Start
    BY WalkIs
  <2>2. walk[0].node = <<>> /\ ~walk[0].failed
    BY <2>1 DEF Start
  <2>3. SubSeq(route, 1, 0) = <<>>
    BY <1>1
  <2>4. OnRoute(walk[0], route, 0)
    BY <2>2, <2>3, Zenon DEF OnRoute
  <2> QED BY <1>1, <2>4
<1>4. ASSUME NEW k \in 1..n, k - 1 \in S PROVE k \in S
  <2>1. OnRoute(walk[k - 1], route, k - 1)
    BY <1>4
  <2>2. OnRoute(walk[k], route, k)
    <3>1. SubSeq(route, 1, k) \in tree
      BY <1>2
    <3> QED BY <2>1, <3>1, RouteStep
  <2>3. k \in 0..n
    BY <1>1
  <2> QED BY <2>2, <2>3
<1>5. \A k \in 0..n : k \in S
  <2> HIDE DEF S
  <2> QED BY <1>1, <1>3, <1>4, Upward
<1> QED BY <1>1, <1>5

-----------------------------------------------------------------------------
(* A route that the path matches and that is not found.                    *)

LEMMA PlainIsFound ==
  ASSUME NEW tree, NEW path, NEW walk, IsWalk(walk, tree, path),
         path \in RouteDirs, Table!IsPlain(path), Prefixes(path) \subseteq tree
  PROVE  ~walk[Len(path)].failed /\ walk[Len(path)].node = path
<1>0. path \in PathDirs
  BY DEF IsWalk
<1>1. /\ path \in Seq(Dirs) /\ DOMAIN path = 1..Len(path)
      /\ \A k \in 1..Len(path) : path[k] \notin Tags
  BY <1>0, RequestedAre DEF Table!IsPlain
<1>2. Table!RouteMatches(path, path)
  BY <1>1 DEF Table!RouteMatches, Table!DirMatches
<1>3. ASSUME NEW k \in 1..Len(path), PartsAt(walk[k], path, path, k)
      PROVE  FALSE
  <2>1. PICK j \in DOMAIN TagOrder : TagOrder[j] = path[k]
    BY <1>3 DEF PartsAt
  <2>2. TagOrder[j] \in Tags
    BY RouterAssumption
  <2> QED BY <1>1, <2>1, <2>2
<1>4. OnRoute(walk[Len(path)], path, Len(path))
  BY <1>2, <1>3, RouteKeptOrLeft
<1>5. SubSeq(path, 1, Len(path)) = path
  BY <1>1, SubSeqFull
<1> QED BY <1>4, <1>5, Zenon DEF OnRoute

LEMMA LeftRouteIs ==
  ASSUME NEW tree, NEW path, NEW walk, IsWalk(walk, tree, path),
         NEW route \in RouteDirs, NEW k \in 1..Len(path),
         Len(route) = Len(path), PartsAt(walk[k], route, path, k)
  PROVE  LET other == walk[k].node
         IN /\ other \in tree /\ Len(other) = k
            /\ SubSeq(other, 1, k - 1) = SubSeq(route, 1, k - 1)
            /\ IsPrefix(other, walk[Len(path)].node)
            /\ other[k] # route[k]
            /\ \/ other[k] = path[k]
               \/ \E i, j \in DOMAIN TagOrder :
                    TagOrder[i] = other[k] /\ TagOrder[j] = route[k] /\ i < j
<1> DEFINE n == Len(path)
<1>0. path \in PathDirs
  BY DEF IsWalk
<1>1. n \in Nat /\ route \in Seq(Dirs) /\ k \in 0..n /\ k # 0 /\ n \in k..n
  BY <1>0, RequestedAre, RoutesAre
<1>2. PICK other, last : other = walk[k].node /\ last = walk[n].node
  OBVIOUS
<1>3. other \in Seq(Dirs) /\ last \in Seq(Dirs)
  <2>1. walk[k] \in Walks /\ walk[n] \in Walks
    BY <1>1, WalkIs
  <2> QED BY <1>2, <2>1 DEF Walks
<1>4. ~walk[k].failed
  BY DEF PartsAt
<1>5. other \in tree /\ Len(other) = k
  BY <1>1, <1>2, <1>4, WalkMatches
<1>6. Extends(other, last)
  BY <1>1, <1>2, WalkGoesOn
<1>7. PICK dir \in Dirs :
        /\ other = Append(SubSeq(route, 1, k - 1), dir)
        /\ dir # route[k]
        /\ \/ dir = path[k]
           \/ \E i, j \in DOMAIN TagOrder :
                TagOrder[i] = dir /\ TagOrder[j] = route[k] /\ i < j
  BY <1>2, Zenon DEF PartsAt
<1>8. PICK prefix : /\ prefix = SubSeq(route, 1, k - 1)
                     /\ other = Append(prefix, dir)
  BY <1>7
<1>9. prefix \in Seq(Dirs) /\ Len(prefix) = k - 1
  BY <1>1, <1>8
<1>10. other[k] = dir /\ SubSeq(other, 1, k - 1) = prefix
  BY <1>1, <1>8, <1>9
<1>11. IsPrefix(other, last)
  BY <1>1, <1>3, <1>5, <1>6 DEF Extends, IsPrefix
<1> HIDE DEF n
<1>12. /\ other \in tree /\ Len(other) = k
       /\ SubSeq(other, 1, k - 1) = SubSeq(route, 1, k - 1)
       /\ IsPrefix(other, last)
       /\ other[k] # route[k]
       /\ \/ other[k] = path[k]
          \/ \E i, j \in DOMAIN TagOrder :
               TagOrder[i] = other[k] /\ TagOrder[j] = route[k] /\ i < j
  BY <1>5, <1>7, <1>8, <1>10, <1>11, Zenon
<1> QED BY <1>2, <1>12, Zenon DEF n

-----------------------------------------------------------------------------
(* The invariant: the trees and the RouteCallback objects together.        *)

TreesOK ==
  \A name \in DOMAIN m_methods :
    /\ name \in Range(Upper)
    /\ <<>> \in m_methods[name]
    /\ \A node \in m_methods[name] :
         node \in Seq(Dirs) /\ Prefixes(node) \subseteq m_methods[name]

RoutesOK ==
  \A key \in DOMAIN routeCallback :
    /\ key \in (DOMAIN m_methods) \X RouteDirs
    /\ key[2] \in m_methods[key[1]]
    /\ routeCallback[key] \in Callbacks \cup {NoCallback}

IInv == TreesOK /\ RoutesOK /\ answer \in Callbacks \cup {NoCallback}

LEMMA PrefixesAre ==
  ASSUME NEW route \in Seq(Dirs)
  PROVE  /\ <<>> \in Prefixes(route) /\ route \in Prefixes(route)
         /\ \A node \in Prefixes(route) :
              node \in Seq(Dirs) /\ Prefixes(node) \subseteq Prefixes(route)
<1>1. Len(route) \in Nat
  OBVIOUS
<1>2. SubSeq(route, 1, 0) = <<>> /\ SubSeq(route, 1, Len(route)) = route
  BY <1>1
<1>3. 0 \in 0..Len(route) /\ Len(route) \in 0..Len(route)
  BY <1>1
<1>4. <<>> \in Prefixes(route) /\ route \in Prefixes(route)
  BY <1>2, <1>3, Zenon DEF Prefixes
<1>5. ASSUME NEW l \in 0..Len(route)
      PROVE  /\ SubSeq(route, 1, l) \in Seq(Dirs)
             /\ Len(SubSeq(route, 1, l)) = l
             /\ \A m \in 0..l :
                  SubSeq(SubSeq(route, 1, l), 1, m) = SubSeq(route, 1, m)
  <2>1. SubSeq(route, 1, l) \in Seq(Dirs) /\ Len(SubSeq(route, 1, l)) = l
    BY <1>1
  <2>2. ASSUME NEW m \in 0..l
        PROVE  SubSeq(SubSeq(route, 1, l), 1, m) = SubSeq(route, 1, m)
    BY <1>1, <2>1
  <2> QED BY <2>1, <2>2
<1>6. ASSUME NEW l \in 0..Len(route)
      PROVE  Prefixes(SubSeq(route, 1, l)) \subseteq Prefixes(route)
  <2>1. \A m \in 0..l : m \in 0..Len(route)
    BY <1>1
  <2>2. PICK node : /\ node = SubSeq(route, 1, l) /\ Len(node) = l
                    /\ \A m \in 0..l : SubSeq(node, 1, m) = SubSeq(route, 1, m)
    BY <1>5
  <2>3. Prefixes(node) \subseteq Prefixes(route)
    BY <2>1, <2>2 DEF Prefixes
  <2> QED BY <2>2, <2>3
<1>7. \A node \in Prefixes(route) : \E l \in 0..Len(route) :
        node = SubSeq(route, 1, l)
  BY DEF Prefixes
<1> QED BY <1>4, <1>5, <1>6, <1>7

-----------------------------------------------------------------------------
(* It holds.                                                               *)

LEMMA InitHolds == Init => IInv
BY DEF Init, IInv, TreesOK, RoutesOK

LEMMA WithMethodIs ==
  ASSUME IInv, NEW spelling \in Names
  PROVE  LET name == MethodName(spelling)
             new  == WithMethod(name)
         IN /\ name \in Range(Upper)
            /\ DOMAIN new = DOMAIN m_methods \cup {name}
            /\ \A n \in DOMAIN m_methods : new[n] = m_methods[n]
            /\ name \notin DOMAIN m_methods => new[name] = {<<>>}
<1>1. Upper \in [Names -> Names]
  BY RouterAssumption
<1>2. Upper[spelling] \in Range(Upper)
  BY <1>1 DEF Range
<1> QED BY <1>2 DEF MethodName, WithMethod

LEMMA MethodHolds ==
  ASSUME IInv, NEW spelling \in Names, Method(spelling)
  PROVE  IInv'
<1> DEFINE name == MethodName(spelling)
<1>1. /\ name \in Range(Upper)
      /\ DOMAIN m_methods' = DOMAIN m_methods \cup {name}
      /\ \A n \in DOMAIN m_methods : m_methods'[n] = m_methods[n]
      /\ name \notin DOMAIN m_methods => m_methods'[name] = {<<>>}
      /\ UNCHANGED <<routeCallback, answer>>
  BY WithMethodIs DEF Method
<1> HIDE DEF name
<1>2. <<>> \in Seq(Dirs) /\ Prefixes(<<>>) \subseteq {<<>>}
  <2>1. Len(<<>>) = 0 /\ SubSeq(<<>>, 1, 0) = <<>>
    OBVIOUS
  <2> QED BY <2>1 DEF Prefixes
<1>3. TreesOK'
  BY <1>1, <1>2 DEF IInv, TreesOK
<1>4. RoutesOK'
  BY <1>1 DEF IInv, RoutesOK
<1> QED BY <1>1, <1>3, <1>4 DEF IInv

LEMMA RouteHolds ==
  ASSUME IInv, NEW spelling \in Names, NEW route \in RouteDirs,
         Route(spelling, route)
  PROVE  IInv'
<1> DEFINE name == MethodName(spelling)
           new  == WithMethod(name)
           key  == <<name, route>>
<1>1. /\ name \in Range(Upper)
      /\ DOMAIN new = DOMAIN m_methods \cup {name}
      /\ \A n \in DOMAIN m_methods : new[n] = m_methods[n]
      /\ name \notin DOMAIN m_methods => new[name] = {<<>>}
  BY WithMethodIs
<1>2. /\ m_methods' = [new EXCEPT ![name] = @ \cup Prefixes(route)]
      /\ routeCallback' = WithCallback(key)
      /\ answer' = answer
  BY DEF Route, NodesOf
<1>3. /\ DOMAIN routeCallback' = DOMAIN routeCallback \cup {key}
      /\ \A k \in DOMAIN routeCallback : routeCallback'[k] = routeCallback[k]
      /\ key \notin DOMAIN routeCallback => routeCallback'[key] = NoCallback
  BY <1>2 DEF WithCallback, CallbackAt
<1> HIDE DEF new
<1>4. /\ DOMAIN m_methods' = DOMAIN m_methods \cup {name}
      /\ \A n \in DOMAIN m_methods \ {name} : m_methods'[n] = m_methods[n]
      /\ name \in DOMAIN m_methods =>
           m_methods'[name] = m_methods[name] \cup Prefixes(route)
      /\ name \notin DOMAIN m_methods =>
           m_methods'[name] = {<<>>} \cup Prefixes(route)
  BY <1>1, <1>2
<1>5. route \in Seq(Dirs)
  BY RoutesAre
<1>6. /\ <<>> \in Prefixes(route) /\ route \in Prefixes(route)
      /\ \A node \in Prefixes(route) :
           node \in Seq(Dirs) /\ Prefixes(node) \subseteq Prefixes(route)
  BY <1>5, PrefixesAre
<1> HIDE DEF name
<1>7. TreesOK'
  BY <1>1, <1>4, <1>6 DEF IInv, TreesOK
<1>8. RoutesOK'
  <2>1. ASSUME NEW k \in DOMAIN routeCallback
        PROVE  /\ k \in (DOMAIN m_methods') \X RouteDirs
               /\ k[2] \in m_methods'[k[1]]
               /\ routeCallback'[k] \in Callbacks \cup {NoCallback}
    <3>1. /\ k \in (DOMAIN m_methods) \X RouteDirs
          /\ k[2] \in m_methods[k[1]]
          /\ routeCallback[k] \in Callbacks \cup {NoCallback}
      BY DEF IInv, RoutesOK
    <3> QED BY <1>3, <1>4, <3>1
  <2>2. /\ key \in (DOMAIN m_methods') \X RouteDirs
        /\ key[2] \in m_methods'[key[1]]
    BY <1>4, <1>6
  <2> QED BY <1>3, <2>1, <2>2 DEF RoutesOK
<1> QED BY <1>2, <1>7, <1>8 DEF IInv

LEMMA AssignHolds ==
  ASSUME IInv, NEW key \in DOMAIN routeCallback, NEW callback \in Callbacks,
         Assign(key, callback)
  PROVE  IInv'
BY DEF IInv, TreesOK, RoutesOK, Assign

LEMMA FindHolds ==
  ASSUME IInv, NEW name \in Names, NEW path \in PathDirs, Find(name, path)
  PROVE  IInv'
<1>1. CallbackAt(<<name, Walk(m_methods[name], path).node>>)
        \in Callbacks \cup {NoCallback}
  BY DEF CallbackAt, IInv, RoutesOK
<1>2. UNCHANGED <<m_methods, routeCallback>>
  BY DEF Find
<1>3. answer' \in Callbacks \cup {NoCallback}
  BY <1>1 DEF Find
<1> QED BY <1>2, <1>3 DEF IInv, TreesOK, RoutesOK

(* The invariant holds in every state.                                     *)
THEOREM Invariance == Spec => []IInv
<1>1. IInv /\ [Next]_vars => IInv'
  <2> SUFFICES ASSUME IInv, [Next]_vars PROVE IInv'
    OBVIOUS
  <2>1. CASE Next
    BY <2>1, MethodHolds, RouteHolds, AssignHolds, FindHolds DEF Next
  <2>2. CASE UNCHANGED vars
    BY <2>2 DEF IInv, TreesOK, RoutesOK, vars
  <2> QED BY <2>1, <2>2
<1> QED BY <1>1, InitHolds, PTL DEF Spec

-----------------------------------------------------------------------------
(* What follows from it.                                                   *)

LEMMA TypesFollow == IInv => TypeOK
<1> SUFFICES ASSUME IInv PROVE TypeOK
  OBVIOUS
<1>1. ASSUME NEW name \in DOMAIN m_methods, NEW node \in m_methods[name],
             node # <<>>
      PROVE  Front(node) \in m_methods[name]
  <2>1. node \in Seq(Dirs) /\ Prefixes(node) \subseteq m_methods[name]
    BY DEF IInv, TreesOK
  <2>2. Len(node) - 1 \in 0..Len(node)
    BY <1>1, <2>1
  <2> QED BY <2>1, <2>2, Zenon DEF Prefixes, Front
<1> QED BY <1>1 DEF TypeOK, IInv, TreesOK, RoutesOK

Diverted(tree, route, path, node) ==
  \E k \in DOMAIN route, other \in tree :
    /\ Len(other) = k
    /\ SubSeq(other, 1, k - 1) = SubSeq(route, 1, k - 1)
    /\ IsPrefix(other, node)
    /\ other[k] # route[k]
    /\ \/ other[k] = path[k]
       \/ \E i, j \in DOMAIN TagOrder :
            TagOrder[i] = other[k] /\ TagOrder[j] = route[k] /\ i < j

LEMMA DiversionFollows == IInv => MissedOnlyWhenDiverted
<1> SUFFICES ASSUME IInv, NEW key \in DOMAIN routeCallback,
                    NEW path \in PathDirs,
                    Table!RouteMatches(key[2], path),
                    \/ Walk(m_methods[key[1]], path).failed
                    \/ Walk(m_methods[key[1]], path).node # key[2]
             PROVE  Diverted(m_methods[key[1]], key[2], path,
                             Walk(m_methods[key[1]], path).node)
  BY DEF MissedOnlyWhenDiverted, Diverted
<1> DEFINE tree == m_methods[key[1]]
           n == Len(path)
<1>1. PICK route \in RouteDirs : route = key[2] /\ key[1] \in DOMAIN m_methods
  BY DEF IInv, RoutesOK
<1>2. PICK walk : IsWalk(walk, tree, path) /\ Walk(tree, path) = walk[n]
  BY WalkExists
<1>3. /\ route \in Seq(Dirs) /\ DOMAIN route = 1..Len(route)
      /\ Len(route) = n /\ n \in Nat
  BY <1>1, RoutesAre, RequestedAre DEF Table!RouteMatches
<1>4. Prefixes(route) \subseteq tree
  BY <1>1 DEF IInv, TreesOK, RoutesOK
<1>5. Table!RouteMatches(route, path)
  BY <1>1
<1>6. ~OnRoute(walk[n], route, n)
  <2>1. SubSeq(route, 1, n) = route
    BY <1>3, SubSeqFull
  <2>2. walk[n].failed \/ walk[n].node # route
    BY <1>1, <1>2
  <2> QED BY <2>1, <2>2, Zenon DEF OnRoute
<1>7. PICK k \in 1..n : PartsAt(walk[k], route, path, k)
  <2> HIDE DEF tree
  <2> QED BY <1>2, <1>4, <1>5, <1>6, RouteKeptOrLeft
<1>8. LET other == walk[k].node
      IN /\ other \in tree /\ Len(other) = k
         /\ SubSeq(other, 1, k - 1) = SubSeq(route, 1, k - 1)
         /\ IsPrefix(other, walk[n].node)
         /\ other[k] # route[k]
         /\ \/ other[k] = path[k]
            \/ \E i, j \in DOMAIN TagOrder :
                 TagOrder[i] = other[k] /\ TagOrder[j] = route[k] /\ i < j
  BY <1>2, <1>3, <1>7, LeftRouteIs
<1>9. k \in DOMAIN route
  BY <1>3
<1>10. Diverted(tree, route, path, walk[n].node)
  BY <1>8, <1>9, Zenon DEF Diverted
<1> QED BY <1>1, <1>2, <1>10, Zenon

(* What find() answers is one the table of routes allows.                  *)
LEMMA FindRefines ==
  ASSUME IInv, NEW name \in Names, NEW path \in PathDirs, Find(name, path)
  PROVE  Table!Find(name, path)
<1> DEFINE tree == m_methods[name]
           n == Len(path)
           Known == /\ Table!IsPlain(path)
                    /\ <<name, path>> \in DOMAIN routeCallback
<1>1. routeCallback' = routeCallback
  BY DEF Find
<1>2. CASE name \notin DOMAIN m_methods
  <2>1. <<name, path>> \notin DOMAIN routeCallback
    BY <1>2 DEF IInv, RoutesOK
  <2>2. answer' = NoCallback
    BY <1>2 DEF Find
  <2> QED BY <1>1, <2>1, <2>2 DEF Table!Find
<1>3. CASE name \in DOMAIN m_methods
  <2>1. PICK walk : IsWalk(walk, tree, path) /\ Walk(tree, path) = walk[n]
    BY WalkExists
  <2>2. Known => /\ ~walk[n].failed /\ walk[n].node = path
    <3> SUFFICES ASSUME Known PROVE ~walk[n].failed /\ walk[n].node = path
      OBVIOUS
    <3>1. path \in RouteDirs /\ Prefixes(path) \subseteq tree
      BY DEF IInv, TreesOK, RoutesOK
    <3> HIDE DEF tree
    <3> QED BY <2>1, <3>1, PlainIsFound
  <2> DEFINE last == walk[n]
             key == <<name, last.node>>
  <2>3. /\ answer' = IF last.failed THEN NoCallback ELSE CallbackAt(key)
        /\ matches' = last.groups
    BY <1>3, <2>1 DEF Find
  <2>4. CASE answer' = NoCallback /\ ~Known
    BY <1>1, <2>4 DEF Table!Find
  <2>5. CASE ~last.failed /\ key \in DOMAIN routeCallback
    <3>1. last.node \in RouteDirs
      BY <2>5 DEF IInv, RoutesOK
    <3>2. answer' = routeCallback[key]
      BY <2>3, <2>5 DEF CallbackAt
    <3>3. Table!RouteMatches(last.node, path)
      <4>1. n \in Nat /\ n \in 0..n /\ DOMAIN path = 1..n
        BY RequestedAre
      <4>2. /\ Len(last.node) = n
            /\ \A k \in 1..n : Table!DirMatches(last.node[k], path[k])
        BY <2>1, <2>5, <4>1, WalkMatches
      <4> QED BY <4>1, <4>2 DEF Table!RouteMatches
    <3>4. matches' = Table!GroupsOf(last.node, path)
      BY <2>1, <2>3, <2>5, WalkGroups
    <3>5. Known => last.node = path
      BY <2>2
    <3> HIDE DEF last, n
    <3> QED BY <1>1, <2>5, <3>1, <3>2, <3>3, <3>4, <3>5 DEF Table!Find
  <2>6. CASE last.failed \/ key \notin DOMAIN routeCallback
    <3>1. answer' = NoCallback
      BY <2>3, <2>6 DEF CallbackAt
    <3>2. ~Known
      BY <2>2, <2>6
    <3> QED BY <2>4, <3>1, <3>2
  <2> QED BY <2>5, <2>6
<1> QED BY <1>2, <1>3

LEMMA StepRefines == IInv /\ [Next]_vars => [Table!Next]_(Table!vars)
<1> SUFFICES ASSUME IInv, [Next]_vars PROVE [Table!Next]_(Table!vars)
  OBVIOUS
<1>1. ASSUME NEW spelling \in Names, Method(spelling)
      PROVE  UNCHANGED Table!vars
  BY <1>1 DEF Method, Table!vars
<1>2. ASSUME NEW spelling \in Names, NEW route \in RouteDirs,
             Route(spelling, route)
      PROVE  Table!Next
  <2>1. Table!Route(spelling, route)
    BY <1>2 DEF Route, Table!Route, WithCallback, CallbackAt, MethodName
  <2> QED BY <2>1 DEF Table!Next
<1>3. ASSUME NEW key \in DOMAIN routeCallback, NEW callback \in Callbacks,
             Assign(key, callback)
      PROVE  Table!Next
  <2>1. Table!Assign(key, callback)
    BY <1>3 DEF Assign, Table!Assign
  <2> QED BY <2>1 DEF Table!Next
<1>4. ASSUME NEW name \in Names, NEW path \in PathDirs, Find(name, path)
      PROVE  Table!Next
  BY <1>4, FindRefines DEF Table!Next
<1>5. CASE UNCHANGED vars
  BY <1>5 DEF vars, Table!vars
<1> QED BY <1>1, <1>2, <1>3, <1>4, <1>5 DEF Next

-----------------------------------------------------------------------------
(* The theorems.                                                           *)

(* The tree of a method always holds the way to each of its nodes, and     *)
(* every RouteCallback object hangs on a node of it.                       *)
THEOREM TypeCorrect == Spec => []TypeOK
<1> QED BY Invariance, TypesFollow, PTL

(* find() misses a route that the path matches only where it took another  *)
(* way that the path matches too: the same directory, or an earlier tag.   *)
THEOREM MissesExplained == Spec => []MissedOnlyWhenDiverted
<1> QED BY Invariance, DiversionFollows, PTL

(* The trees with their search are a table of routes: every answer is the  *)
(* callback of a route that the whole path matches, with its groups.       *)
THEOREM TreesAreATable == Spec => IsRouteTable
<1>1. Init => Table!Init
  BY DEF Init, Table!Init
<1> QED BY <1>1, Invariance, StepRefines, PTL
        DEF Spec, IsRouteTable, Table!Spec

(* Every text, of symbols of any kind and as many as there may be, is read *)
(* as it is written: cut at the slashes outside its tags, a route as the   *)
(* request for it, and the tags of a directory made groups.                *)
THEOREM EveryTextIsRead ==
  ASSUME NEW S, NEW s \in Seq(S)
  PROVE  CutOutsideTags(s) /\ TagsBecomeGroups(s)
<1>1. WellFormed(s) => CutRoute(s) = OutsideTags(s)
  BY CutIsOutsideTags
<1>2. (\A i \in DOMAIN s : s[i] # "<") => CutRequest(s) = CutRoute(s)
  BY CutAlike
<1>3. TagsBecomeGroups(s)
  BY TagsReplaced
<1> QED BY <1>1, <1>2, <1>3 DEF CutOutsideTags

(* The loops of RouteMethod agree with their reference definitions, as the *)
(* run checks for short texts.                                             *)
THEOREM RoutesRead == Spec => []RoutesAreReadAsWritten
<1>1. RoutesAreReadAsWritten
  <2> SUFFICES ASSUME NEW s \in BoundedSeq(Symbols, MaxLength)
               PROVE  CutOutsideTags(s) /\ TagsBecomeGroups(s)
    BY DEF RoutesAreReadAsWritten
  <2>1. s \in Seq(Symbols)
    <3>1. PICK m \in 0..MaxLength : s \in [1..m -> Symbols]
      BY DEF BoundedSeq, SeqOf
    <3>2. m \in Nat
      BY RouterAssumption
    <3> QED BY <3>1, <3>2
  <2> QED BY <2>1, EveryTextIsRead
<1> QED BY <1>1, PTL

=============================================================================
