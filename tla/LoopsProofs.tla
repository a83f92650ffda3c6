---------------------------- MODULE LoopsProofs ----------------------------
(***************************************************************************)
(* What the proofs need of loops: a number of turns, each of which makes   *)
(* something of what the one before it left.  A set stands for the         *)
(* property that is proved by induction, so that no operator is a          *)
(* parameter.  And what the loops of Loops make of a list: what is kept of *)
(* it, its sum, and its order, in which each item has its place.           *)
(***************************************************************************)
EXTENDS Loops, SequenceTheorems, FiniteSetTheorems, TLAPS

(* Induction, and loops in general *)

Less == {pair \in Nat \X Nat : pair[1] < pair[2]}

LEMMA LessIsWellFounded == IsWellFoundedOn(Less, Nat)
BY NatLessThanWellFounded DEF OpToRel, Less

\* Numbers have a least one.
LEMMA LeastNumber ==
  ASSUME NEW S \in SUBSET Nat, S # {}
  PROVE  \E n \in S : \A m \in S : n <= m
<1>1. \E n \in S : \A m \in S : ~(<<m, n>> \in Less)
  BY LessIsWellFounded, WFMin
<1>2. \A n, m \in S : ~(<<m, n>> \in Less) => n <= m
  BY DEF Less
<1> QED
  BY <1>1, <1>2

\* Induction over the natural numbers, and over the turns of a loop.
LEMMA Induction ==
  ASSUME NEW S, 0 \in S, \A n \in Nat : n \in S => n + 1 \in S
  PROVE  Nat \subseteq S
<1>1. SUFFICES ASSUME Nat \ S # {}
               PROVE  FALSE
  OBVIOUS
<1>2. PICK n \in Nat \ S : \A m \in Nat \ S : n <= m
  BY <1>1, LeastNumber
<1> QED
  BY <1>2

LEMMA EveryTurn ==
  ASSUME NEW N \in Nat, NEW S, 0 \in S, \A n \in 1..N : n - 1 \in S => n \in S
  PROVE  \A n \in 0..N : n \in S
<1> DEFINE T == {n \in Nat : n <= N => n \in S}
<1>1. 0 \in T
  OBVIOUS
<1>2. \A n \in Nat : n \in T => n + 1 \in T
  <2> SUFFICES ASSUME NEW n \in Nat, n \in T, n + 1 <= N
               PROVE  n + 1 \in S
    OBVIOUS
  <2>1. n \in S /\ n + 1 \in 1..N /\ (n + 1) - 1 = n
    OBVIOUS
  <2> QED
    BY <2>1
<1>3. Nat \subseteq T
  <2> HIDE DEF T
  <2> QED
    BY <1>1, <1>2, Induction
<1> QED
  BY <1>3

\* A loop over the states in A: step[n][a] is what turn n makes of a, and f[n]
\* the state after n turns.
StepsIn(step, A, N) == \A n \in 1..N, a \in A : step[n][a] \in A

RunsAs(f, start, step, A, N) ==
  f \in [0..N -> A] /\ f[0] = start /\ \A n \in 1..N : f[n] = step[n][f[n - 1]]

\* Such a loop has a state after each of its turns.
LEMMA LoopRuns ==
  ASSUME NEW N \in Nat, NEW A, NEW start \in A, NEW step, StepsIn(step, A, N)
  PROVE  \E f : RunsAs(f, start, step, A, N)
<1> DEFINE S == {n \in 0..N : \E f \in [0..n -> A] :
                   f[0] = start /\ \A m \in 1..n : f[m] = step[m][f[m - 1]]}
<1>1. 0 \in S
  <2> DEFINE g == [m \in 0..0 |-> start]
  <2>1. g \in [0..0 -> A] /\ g[0] = start
    OBVIOUS
  <2>2. \A m \in 1..0 : g[m] = step[m][g[m - 1]]
    OBVIOUS
  <2>3. 0 \in 0..N
    OBVIOUS
  <2> HIDE DEF g
  <2> QED
    BY <2>1, <2>2, <2>3
<1>2. \A n \in 1..N : n - 1 \in S => n \in S
  <2> SUFFICES ASSUME NEW n \in 1..N, n - 1 \in S
               PROVE  n \in S
    OBVIOUS
  <2>1. PICK f \in [0..(n - 1) -> A] :
          f[0] = start /\ \A m \in 1..(n - 1) : f[m] = step[m][f[m - 1]]
    OBVIOUS
  <2> DEFINE g == [m \in 0..n |-> IF m = n THEN step[n][f[n - 1]] ELSE f[m]]
  <2>2. n - 1 \in 0..(n - 1) /\ f[n - 1] \in A /\ step[n][f[n - 1]] \in A
    BY <2>1 DEF StepsIn
  <2>3. \A m \in 0..n : m = n \/ m \in 0..(n - 1)
    OBVIOUS
  <2>4. g \in [0..n -> A]
    BY <2>1, <2>2, <2>3
  <2>5. g[0] = start
    BY <2>1
  <2>6. ASSUME NEW m \in 1..n
        PROVE  g[m] = step[m][g[m - 1]]
    <3>1. m - 1 \in 0..n /\ m - 1 # n /\ m \in 0..n /\ g[m - 1] = f[m - 1]
      OBVIOUS
    <3>2. CASE m = n
      BY <3>1, <3>2
    <3>3. CASE m # n
      <4>1. m \in 1..(n - 1)
        BY <3>3
      <4>2. g[m] = f[m]
        BY <3>1, <3>3
      <4> QED
        BY <2>1, <3>1, <4>1, <4>2
    <3> QED
      BY <3>2, <3>3
  <2> HIDE DEF g
  <2>7. n \in 0..N
    OBVIOUS
  <2> QED
    BY <2>4, <2>5, <2>6, <2>7
<1>3. N \in S
  <2> HIDE DEF S
  <2>1. \A n \in 0..N : n \in S
    BY <1>1, <1>2, EveryTurn
  <2> QED
    BY <2>1
<1> QED
  BY <1>3 DEF RunsAs

----------------------------------------------------------------------------
(* Loops: turn by turn, what is kept of a list, and the sum of its numbers *)

\* Each turn of such a loop, as EveryTurn and LoopRuns want it.
Keeping(list, wanted, A) ==
  [n \in 1..Len(list) |-> [s \in Seq(A) |-> IF list[n] \in wanted THEN Append(s, list[n]) ELSE s]]

Summing(numbers) == [n \in 1..Len(numbers) |-> [sum \in Int |-> sum + numbers[n]]]

\* After each turn there is what was kept before, and the item if it is wanted.
LEMMA KeptTurn ==
  ASSUME NEW A, NEW list \in Seq(A), NEW wanted
  PROVE  /\ KeptAfter(list, wanted) \in [0..Len(list) -> Seq(A)]
         /\ KeptAfter(list, wanted)[0] = <<>>
         /\ \A n \in 1..Len(list) :
              /\ n - 1 \in 0..Len(list) /\ list[n] \in A
              /\ KeptAfter(list, wanted)[n] =
                   IF list[n] \in wanted THEN Append(KeptAfter(list, wanted)[n - 1], list[n])
                   ELSE KeptAfter(list, wanted)[n - 1]
         /\ Kept(list, wanted) = KeptAfter(list, wanted)[Len(list)]
<1> DEFINE N == Len(list)
           after == KeptAfter(list, wanted)
           step == Keeping(list, wanted, A)
<1>1. N \in Nat /\ <<>> \in Seq(A) /\ \A n \in 1..N : list[n] \in A
  OBVIOUS
<1>2. \A n \in 1..N, s \in Seq(A) :
        step[n][s] = IF list[n] \in wanted THEN Append(s, list[n]) ELSE s
  BY DEF Keeping
<1>3. StepsIn(step, Seq(A), N)
  <2>1. \A n \in 1..N, s \in Seq(A) : Append(s, list[n]) \in Seq(A)
    BY <1>1
  <2> HIDE DEF step, N
  <2>2. ASSUME NEW n \in 1..N, NEW s \in Seq(A)
        PROVE  step[n][s] \in Seq(A)
    <3>1. step[n][s] = IF list[n] \in wanted THEN Append(s, list[n]) ELSE s
      BY <1>2, Zenon
    <3>2. Append(s, list[n]) \in Seq(A)
      BY <2>1, Zenon
    <3>3. step[n][s] = s \/ step[n][s] = Append(s, list[n])
      BY <3>1, Zenon
    <3> QED
      BY <3>2, <3>3, Zenon
  <2> QED
    BY <2>2, Zenon DEF StepsIn
<1>4. PICK f : RunsAs(f, <<>>, step, Seq(A), N)
  <2> HIDE DEF step, N
  <2> QED
    BY <1>1, <1>3, LoopRuns
<1>5. f = [n \in 0..N |-> IF n = 0 THEN <<>>
                          ELSE IF list[n] \in wanted THEN Append(f[n - 1], list[n]) ELSE f[n - 1]]
  <2>1. \A n \in 0..N : n = 0 \/ (n \in 1..N /\ n - 1 \in 0..N)
    BY <1>1
  <2> HIDE DEF step, N
  <2>2. ASSUME NEW n \in 1..N
        PROVE  f[n] = IF list[n] \in wanted THEN Append(f[n - 1], list[n]) ELSE f[n - 1]
    <3>1. n - 1 \in 0..N
      BY <2>1, <1>1
    <3>2. f[n - 1] \in Seq(A) /\ f[n] = step[n][f[n - 1]]
      BY <1>4, <3>1 DEF RunsAs
    <3> QED
      BY <1>2, <3>2, Zenon
  <2>3. f \in [0..N -> Seq(A)] /\ f[0] = <<>>
    BY <1>4 DEF RunsAs
  <2>4. f = [n \in 0..N |-> f[n]]
    BY <2>3
  <2> QED
    BY <2>1, <2>2, <2>3, <2>4
<1>6. after = [n \in 0..N |-> IF n = 0 THEN <<>>
                              ELSE IF list[n] \in wanted THEN Append(after[n - 1], list[n]) ELSE after[n - 1]]
  BY <1>5 DEF KeptAfter
<1> HIDE DEF after, step, N
<1>7. after[0] = <<>> /\ 0 \in 0..N
  BY <1>1, <1>6
<1>8. \A n \in 1..N : after[n] = IF list[n] \in wanted THEN Append(after[n - 1], list[n]) ELSE after[n - 1]
  <2>1. \A n \in 1..N : n \in 0..N /\ n # 0
    BY <1>1
  <2> QED
    BY <1>6, <2>1
<1> DEFINE S == {n \in 0..N : after[n] \in Seq(A)}
<1>9. \A n \in 0..N : n \in S
  <2>1. 0 \in S
    BY <1>1, <1>7
  <2>2. \A n \in 1..N : n - 1 \in S => n \in S
    <3> SUFFICES ASSUME NEW n \in 1..N, n - 1 \in S
                 PROVE  n \in S
      OBVIOUS
    <3>1. n \in 0..N /\ list[n] \in A /\ after[n - 1] \in Seq(A)
      BY <1>1
    <3>2. Append(after[n - 1], list[n]) \in Seq(A)
      BY <3>1
    <3>3. after[n] \in Seq(A)
      BY <1>8, <3>1, <3>2, Zenon
    <3> QED
      BY <3>1, <3>3
  <2> HIDE DEF S
  <2> QED
    BY <1>1, <2>1, <2>2, EveryTurn
<1>10. after \in [0..N -> Seq(A)]
  BY <1>6, <1>9
<1>11. \A n \in 1..N : list[n] \in A /\ n - 1 \in 0..N
  BY <1>1
<1>12. Kept(list, wanted) = after[N]
  BY DEF Kept, after, N
<1> QED
  BY <1>7, <1>8, <1>10, <1>11, <1>12 DEF N, after

\* After each turn there is the sum before it and the number.
LEMMA SumTurn ==
  ASSUME NEW numbers \in Seq(Int)
  PROVE  /\ SumAfter(numbers) \in [0..Len(numbers) -> Int]
         /\ SumAfter(numbers)[0] = 0
         /\ \A n \in 1..Len(numbers) :
              /\ n - 1 \in 0..Len(numbers) /\ numbers[n] \in Int
              /\ SumAfter(numbers)[n] = SumAfter(numbers)[n - 1] + numbers[n]
         /\ SumOf(numbers) = SumAfter(numbers)[Len(numbers)]
<1> DEFINE N == Len(numbers)
           after == SumAfter(numbers)
           step == Summing(numbers)
<1>1. N \in Nat /\ \A n \in 1..N : numbers[n] \in Int /\ n - 1 \in 0..N
  OBVIOUS
<1>2. \A n \in 1..N, s \in Int : step[n][s] = s + numbers[n]
  BY DEF Summing
<1>3. StepsIn(step, Int, N)
  <2> HIDE DEF step, N
  <2>1. ASSUME NEW n \in 1..N, NEW s \in Int
        PROVE  step[n][s] \in Int
    <3>1. numbers[n] \in Int /\ step[n][s] = s + numbers[n]
      BY <1>1, <1>2
    <3> QED
      BY <3>1
  <2> QED
    BY <2>1 DEF StepsIn
<1>4. PICK f : RunsAs(f, 0, step, Int, N)
  <2>1. 0 \in Int
    OBVIOUS
  <2> HIDE DEF step, N
  <2> QED
    BY <1>1, <1>3, <2>1, LoopRuns
<1>5. f = [n \in 0..N |-> IF n = 0 THEN 0 ELSE f[n - 1] + numbers[n]]
  <2>1. \A n \in 0..N : n = 0 \/ (n \in 1..N /\ n - 1 \in 0..N)
    BY <1>1
  <2> HIDE DEF step, N
  <2>2. ASSUME NEW n \in 1..N
        PROVE  f[n] = f[n - 1] + numbers[n]
    <3>1. f[n - 1] \in Int
      BY <1>4, <2>1 DEF RunsAs
    <3> QED
      BY <1>2, <1>4, <3>1 DEF RunsAs
  <2> QED
    BY <1>4, <2>1, <2>2 DEF RunsAs
<1>6. after = [n \in 0..N |-> IF n = 0 THEN 0 ELSE after[n - 1] + numbers[n]]
  BY <1>5 DEF SumAfter
<1> HIDE DEF after, step, N
<1>7. after[0] = 0 /\ 0 \in 0..N
  BY <1>1, <1>6
<1>8. \A n \in 1..N : after[n] = after[n - 1] + numbers[n]
  <2>1. \A n \in 1..N : n \in 0..N /\ n # 0
    BY <1>1
  <2> QED
    BY <1>6, <2>1
<1> DEFINE S == {n \in 0..N : after[n] \in Int}
<1>9. \A n \in 0..N : n \in S
  <2>1. 0 \in S
    BY <1>7
  <2>2. \A n \in 1..N : n - 1 \in S => n \in S
    <3> SUFFICES ASSUME NEW n \in 1..N, n - 1 \in S
                 PROVE  n \in S
      OBVIOUS
    <3>1. n \in 0..N /\ numbers[n] \in Int /\ after[n - 1] \in Int
      BY <1>1
    <3> QED
      BY <1>8, <3>1
  <2> HIDE DEF S
  <2> QED
    BY <1>1, <2>1, <2>2, EveryTurn
<1>10. after \in [0..N -> Int]
  BY <1>6, <1>9
<1>11. SumOf(numbers) = after[N]
  BY DEF SumOf, after, N
<1> QED
  BY <1>1, <1>7, <1>8, <1>10, <1>11 DEF N, after

\* What is kept after n turns: the items that are wanted and no others, once
\* for each of them, and the first of them first.
KeptSoFar(list, wanted, n, s) ==
  /\ \A i \in 1..Len(s) : \E k \in 1..n : list[k] \in wanted /\ s[i] = list[k]
  /\ \A k \in 1..n : list[k] \in wanted => \E i \in 1..Len(s) : s[i] = list[k]
  /\ Len(s) = Cardinality({k \in 1..n : list[k] \in wanted})
  /\ Len(s) > 0 => \E k \in 1..n : list[k] \in wanted /\ s[1] = list[k]
                                   /\ \A m \in 1..(k - 1) : list[m] \notin wanted

\* A turn more keeps this so.
LEMMA KeepOneMore ==
  ASSUME NEW A, NEW list \in Seq(A), NEW wanted, NEW n \in 1..Len(list), NEW s \in Seq(A),
         KeptSoFar(list, wanted, n - 1, s)
  PROVE  /\ list[n] \in wanted => KeptSoFar(list, wanted, n, Append(s, list[n]))
         /\ list[n] \notin wanted => KeptSoFar(list, wanted, n, s)
<1> DEFINE x == list[n]
           t == Append(s, x)
           W(m) == {k \in 1..m : list[k] \in wanted}
<1>1. n \in Nat /\ n > 0 /\ n \in 1..n /\ Len(s) \in Nat /\ x \in A
  OBVIOUS
<1>2. \A k \in 1..n : k = n \/ k \in 1..(n - 1)
  OBVIOUS
<1>3. \A k \in 1..(n - 1) : k \in 1..n /\ k # n
  BY <1>1
<1>4. /\ \A i \in 1..Len(s) : \E k \in 1..(n - 1) : list[k] \in wanted /\ s[i] = list[k]
      /\ \A k \in 1..(n - 1) : list[k] \in wanted => \E i \in 1..Len(s) : s[i] = list[k]
      /\ Len(s) = Cardinality(W(n - 1))
      /\ Len(s) > 0 => \E k \in 1..(n - 1) : list[k] \in wanted /\ s[1] = list[k]
                                             /\ \A m \in 1..(k - 1) : list[m] \notin wanted
  BY DEF KeptSoFar
<1>5. IsFiniteSet(W(n - 1)) /\ n \notin W(n - 1)
  <2>1. IsFiniteSet(1..(n - 1))
    BY <1>1, FS_Interval
  <2>2. W(n - 1) \in SUBSET (1..(n - 1))
    OBVIOUS
  <2> QED
    BY <1>3, <2>1, <2>2, FS_Subset
<1>6. CASE x \notin wanted
  <2>1. W(n) = W(n - 1)
    BY <1>2, <1>3, <1>6
  <2>2. \A k \in 1..n : list[k] \in wanted => k \in 1..(n - 1)
    BY <1>2, <1>6
  <2>3. Len(s) = Cardinality({k \in 1..n : list[k] \in wanted})
    BY <1>4, <2>1
  <2> HIDE DEF x, W
  <2> QED
    BY <1>3, <1>4, <1>6, <2>2, <2>3 DEF KeptSoFar, x
<1>7. CASE x \in wanted
  <2>1. Cardinality(W(n)) = Cardinality(W(n - 1)) + 1
    <3>1. W(n) = W(n - 1) \cup {n}
      BY <1>1, <1>2, <1>3, <1>7
    <3> QED
      BY <1>5, <3>1, FS_AddElement
  <2>2. /\ Len(t) = Len(s) + 1 /\ t[Len(s) + 1] = x
        /\ \A i \in 1..Len(s) : t[i] = s[i] /\ i \in 1..Len(t)
        /\ \A i \in 1..Len(t) : i = Len(s) + 1 \/ i \in 1..Len(s)
    BY <1>1
  <2> HIDE DEF t, W
  <2>3. Len(t) = Cardinality({k \in 1..n : list[k] \in wanted})
    BY <1>4, <2>1, <2>2 DEF W
  <2>4. ASSUME NEW i \in 1..Len(t)
        PROVE  \E k \in 1..n : list[k] \in wanted /\ t[i] = list[k]
    <3>1. CASE i = Len(s) + 1
      BY <1>1, <1>7, <2>2, <3>1
    <3>2. CASE i \in 1..Len(s)
      <4>1. PICK k \in 1..(n - 1) : list[k] \in wanted /\ s[i] = list[k]
        BY <1>4, <3>2
      <4> QED
        BY <1>3, <2>2, <3>2, <4>1
    <3> QED
      BY <2>2, <3>1, <3>2
  <2>5. ASSUME NEW k \in 1..n, list[k] \in wanted
        PROVE  \E i \in 1..Len(t) : t[i] = list[k]
    <3>1. CASE k = n
      <4>1. Len(s) + 1 \in 1..Len(t)
        BY <1>1, <2>2
      <4> QED
        BY <2>2, <3>1, <4>1
    <3>2. CASE k # n
      BY <1>2, <1>4, <2>2, <2>5, <3>2
    <3> QED
      BY <3>1, <3>2
  <2>6. \E k \in 1..n : list[k] \in wanted /\ t[1] = list[k]
                        /\ \A m \in 1..(k - 1) : list[m] \notin wanted
    <3>1. CASE Len(s) > 0
      <4>1. t[1] = s[1]
        BY <1>1, <2>2, <3>1
      <4> QED
        BY <1>3, <1>4, <3>1, <4>1
    <3>2. CASE Len(s) = 0
      <4>1. t[1] = list[n]
        BY <2>2, <3>2
      <4>2. \A m \in 1..(n - 1) : list[m] \notin wanted
        BY <1>4, <3>2
      <4> QED
        BY <1>1, <1>7, <4>1, <4>2
    <3> QED
      BY <1>1, <3>1, <3>2
  <2> QED
    BY <1>7, <2>3, <2>4, <2>5, <2>6 DEF KeptSoFar, t, x
<1> QED
  BY <1>6, <1>7

\* And so it is in the end.
LEMMA KeptIs ==
  ASSUME NEW A, NEW list \in Seq(A), NEW wanted
  PROVE  Kept(list, wanted) \in Seq(A) /\ KeptSoFar(list, wanted, Len(list), Kept(list, wanted))
<1> DEFINE N == Len(list)
           after == KeptAfter(list, wanted)
           S == {n \in 0..N : KeptSoFar(list, wanted, n, after[n])}
<1>1. /\ N \in Nat /\ after \in [0..N -> Seq(A)] /\ after[0] = <<>>
      /\ Kept(list, wanted) = after[N]
      /\ \A n \in 1..N :
           /\ n - 1 \in 0..N
           /\ after[n] = IF list[n] \in wanted THEN Append(after[n - 1], list[n]) ELSE after[n - 1]
  BY KeptTurn
<1>2. 0 \in S
  <2>1. Len(<<>>) = 0 /\ 0 \in 0..N
    BY <1>1
  <2>2. {k \in 1..0 : list[k] \in wanted} = {}
    OBVIOUS
  <2>3. KeptSoFar(list, wanted, 0, <<>>)
    BY <2>1, <2>2, FS_EmptySet DEF KeptSoFar
  <2> QED
    BY <1>1, <2>1, <2>3
<1>3. ASSUME NEW n \in 1..N, n - 1 \in S
      PROVE  n \in S
  <2>1. n \in 0..N /\ n - 1 \in 0..N /\ KeptSoFar(list, wanted, n - 1, after[n - 1])
    BY <1>1, <1>3
  <2>2. after[n - 1] \in Seq(A)
    BY <1>1, <2>1
  <2>3. /\ list[n] \in wanted => KeptSoFar(list, wanted, n, Append(after[n - 1], list[n]))
        /\ list[n] \notin wanted => KeptSoFar(list, wanted, n, after[n - 1])
    <3> HIDE DEF after
    <3> QED
      BY <2>1, <2>2, KeepOneMore
  <2>4. after[n] = IF list[n] \in wanted THEN Append(after[n - 1], list[n]) ELSE after[n - 1]
    BY <1>1
  <2>5. KeptSoFar(list, wanted, n, after[n])
    BY <2>3, <2>4, Zenon
  <2> QED
    BY <2>1, <2>5
<1>4. N \in S
  <2> HIDE DEF S, N
  <2>1. \A n \in 0..N : n \in S
    BY <1>1, <1>2, <1>3, EveryTurn
  <2> QED
    BY <1>1, <2>1
<1> QED
  BY <1>1, <1>4

\* All of a list is kept if all of it is wanted.
LEMMA AllIsKept ==
  ASSUME NEW A, NEW list \in Seq(A), NEW wanted, \A n \in 1..Len(list) : list[n] \in wanted
  PROVE  Kept(list, wanted) = list
<1> DEFINE N == Len(list)
           after == KeptAfter(list, wanted)
           S == {n \in 0..N : Len(after[n]) = n /\ \A i \in 1..n : after[n][i] = list[i]}
<1>1. /\ N \in Nat /\ after \in [0..N -> Seq(A)] /\ after[0] = <<>>
      /\ Kept(list, wanted) = after[N]
      /\ \A n \in 1..N : n - 1 \in 0..N /\ list[n] \in A /\ after[n] = Append(after[n - 1], list[n])
  <2>1. /\ after \in [0..N -> Seq(A)] /\ after[0] = <<>>
        /\ Kept(list, wanted) = after[N]
        /\ \A n \in 1..N :
             /\ n - 1 \in 0..N /\ list[n] \in A
             /\ after[n] = IF list[n] \in wanted THEN Append(after[n - 1], list[n]) ELSE after[n - 1]
    BY KeptTurn
  <2>2. N \in Nat
    OBVIOUS
  <2> HIDE DEF after, N
  <2>3. \A n \in 1..N : list[n] \in wanted
    BY DEF N
  <2> QED
    BY <2>1, <2>2, <2>3
<1> HIDE DEF after
<1>2. 0 \in S
  BY <1>1
<1>3. ASSUME NEW n \in 1..N, n - 1 \in S
      PROVE  n \in S
  <2>1. /\ n \in 0..N /\ n - 1 \in 0..N /\ Len(after[n - 1]) = n - 1
        /\ \A i \in 1..(n - 1) : after[n - 1][i] = list[i]
    BY <1>1, <1>3
  <2>2. PICK s : s = after[n - 1] /\ s \in Seq(A)
    BY <1>1, <2>1, Zenon
  <2>3. PICK x : x = list[n] /\ x \in A
    BY <1>1, Zenon
  <2>4. /\ Len(Append(s, x)) = n /\ Append(s, x)[n] = x
        /\ \A i \in 1..(n - 1) : Append(s, x)[i] = s[i]
    BY <2>1, <2>2, <2>3
  <2>5. after[n] = Append(s, x)
    BY <1>1, <2>2, <2>3, Zenon
  <2>6. \A i \in 1..n : i = n \/ i \in 1..(n - 1)
    OBVIOUS
  <2>7. ASSUME NEW i \in 1..n
        PROVE  after[n][i] = list[i]
    BY <2>1, <2>2, <2>3, <2>4, <2>5, <2>6
  <2> QED
    BY <2>1, <2>4, <2>5, <2>7
<1>4. N \in S
  <2> HIDE DEF S
  <2>1. \A n \in 0..N : n \in S
    BY <1>1, <1>2, <1>3, EveryTurn
  <2> QED
    BY <1>1, <2>1
<1>5. PICK s : s = after[N] /\ s \in Seq(A)
  <2>1. N \in 0..N
    BY <1>1
  <2> QED
    BY <1>1, <2>1, Zenon
<1>6. Len(s) = N /\ \A i \in 1..N : s[i] = list[i]
  BY <1>4, <1>5
<1>7. s = [i \in 1..N |-> s[i]] /\ list = [i \in 1..N |-> list[i]]
  BY <1>5, <1>6
<1>8. s = list
  BY <1>6, <1>7
<1> QED
  BY <1>1, <1>5, <1>8

----------------------------------------------------------------------------
(* Loops: what is sorted *)

\* An order of the items, in which each has its number: as many as come before
\* it.
IsOrder(items, before) ==
  /\ \A x \in items : <<x, x>> \notin before
  /\ \A x, y \in items : x # y => <<x, y>> \in before \/ <<y, x>> \in before
  /\ \A x, y, z \in items : <<x, y>> \in before /\ <<y, z>> \in before => <<x, z>> \in before

Ahead(items, before, x) == {y \in items : <<y, x>> \in before}

\* The n-th item has n - 1 before it, and every item is the n-th of some n.
LEMMA EachHasItsPlace ==
  ASSUME NEW items, IsFiniteSet(items), NEW before, IsOrder(items, before)
  PROVE  /\ Cardinality(items) \in Nat
         /\ \A n \in 1..Cardinality(items) :
              /\ Sorted(items, before)[n] \in items
              /\ Cardinality(Ahead(items, before, Sorted(items, before)[n])) = n - 1
         /\ \A x \in items : \E n \in 1..Cardinality(items) :
              x = Sorted(items, before)[n] /\ Cardinality(Ahead(items, before, x)) = n - 1
         /\ \A m, n \in 1..Cardinality(items) :
              m < n => <<Sorted(items, before)[m], Sorted(items, before)[n]>> \in before
<1> DEFINE N == Cardinality(items)
           rank == [x \in items |-> Cardinality(Ahead(items, before, x))]
           sorted == Sorted(items, before)
<1>1. N \in Nat
  BY FS_CardinalityType
<1>2. ASSUME NEW x \in items
      PROVE  IsFiniteSet(Ahead(items, before, x)) /\ Cardinality(Ahead(items, before, x)) \in 0..(N - 1)
  <2>1. Ahead(items, before, x) \in SUBSET (items \ {x})
    BY DEF Ahead, IsOrder
  <2>2. IsFiniteSet(items \ {x}) /\ Cardinality(items \ {x}) = N - 1
    BY FS_RemoveElement
  <2>3. IsFiniteSet(Ahead(items, before, x)) /\ Cardinality(Ahead(items, before, x)) <= N - 1
    BY <2>1, <2>2, FS_Subset
  <2>4. Cardinality(Ahead(items, before, x)) \in Nat
    BY <2>3, FS_CardinalityType
  <2> QED
    BY <1>1, <2>3, <2>4
<1>3. ASSUME NEW x \in items, NEW y \in items, <<x, y>> \in before
      PROVE  rank[x] < rank[y]
  <2>1. Ahead(items, before, x) \in SUBSET Ahead(items, before, y)
    BY <1>3 DEF Ahead, IsOrder
  <2>2. x \in Ahead(items, before, y) /\ x \notin Ahead(items, before, x)
    BY <1>3 DEF Ahead, IsOrder
  <2>3. /\ Cardinality(Ahead(items, before, x)) <= Cardinality(Ahead(items, before, y))
        /\ Cardinality(Ahead(items, before, x)) # Cardinality(Ahead(items, before, y))
    BY <1>2, <2>1, <2>2, FS_Subset
  <2>4. Cardinality(Ahead(items, before, x)) \in 0..(N - 1) /\ Cardinality(Ahead(items, before, y)) \in 0..(N - 1)
    BY <1>2
  <2> QED
    BY <1>1, <2>3, <2>4
<1>4. rank \in [items -> 0..(N - 1)]
  BY <1>2
<1> HIDE DEF rank
<1>5. \A x, y \in items : x # y => rank[x] # rank[y]
  <2> SUFFICES ASSUME NEW x \in items, NEW y \in items, x # y
               PROVE  rank[x] # rank[y]
    OBVIOUS
  <2>1. <<x, y>> \in before \/ <<y, x>> \in before
    BY DEF IsOrder
  <2>2. rank[x] \in 0..(N - 1) /\ rank[y] \in 0..(N - 1)
    BY <1>4
  <2> QED
    BY <1>1, <1>3, <2>1, <2>2
<1>6. \A n \in 1..N : \E x \in items : rank[x] = n - 1
  <2>1. IsFiniteSet(0..(N - 1)) /\ Cardinality(0..(N - 1)) = N
    <3>1. 0 \in Int /\ N - 1 \in Int
      BY <1>1
    <3> QED
      BY <1>1, <3>1, FS_Interval
  <2>2. rank \in Injection(items, 0..(N - 1))
    BY <1>4, <1>5 DEF Injection, IsInjective
  <2>3. rank \in Surjection(items, 0..(N - 1))
    BY <2>1, <2>2, FS_Injection
  <2>4. \A n \in 1..N : n - 1 \in 0..(N - 1)
    BY <1>1
  <2> QED
    BY <2>3, <2>4 DEF Surjection
<1>7. ASSUME NEW n \in 1..N
      PROVE  sorted[n] \in items /\ rank[sorted[n]] = n - 1
  <2>1. sorted[n] = CHOOSE x \in items : Cardinality({y \in items : <<y, x>> \in before}) = n - 1
    BY DEF Sorted
  <2>2. \E x \in items : Cardinality({y \in items : <<y, x>> \in before}) = n - 1
    BY <1>6 DEF rank, Ahead
  <2>3. sorted[n] \in items /\ Cardinality({y \in items : <<y, sorted[n]>> \in before}) = n - 1
    <3> HIDE DEF sorted
    <3> QED
      BY <2>1, <2>2, Zenon
  <2> HIDE DEF sorted
  <2> QED
    BY <2>3 DEF rank, Ahead
<1> HIDE DEF sorted, N
<1>8. ASSUME NEW x \in items
      PROVE  \E n \in 1..N : x = sorted[n] /\ rank[x] = n - 1
  <2>1. rank[x] + 1 \in 1..N /\ (rank[x] + 1) - 1 = rank[x]
    <3>1. rank[x] \in 0..(N - 1)
      BY <1>4
    <3> QED
      BY <1>1, <3>1
  <2>2. sorted[rank[x] + 1] \in items /\ rank[sorted[rank[x] + 1]] = rank[x]
    BY <1>7, <2>1
  <2>3. sorted[rank[x] + 1] = x
    BY <1>5, <2>2
  <2> QED
    BY <2>1, <2>3
<1>9. ASSUME NEW m \in 1..N, NEW n \in 1..N, m < n
      PROVE  <<sorted[m], sorted[n]>> \in before
  <2>1. sorted[m] # sorted[n]
    BY <1>1, <1>7, <1>9
  <2>2. ~(<<sorted[n], sorted[m]>> \in before)
    <3> SUFFICES ASSUME <<sorted[n], sorted[m]>> \in before
                 PROVE  FALSE
      OBVIOUS
    <3>1. rank[sorted[n]] < rank[sorted[m]]
      BY <1>3, <1>7
    <3> QED
      BY <1>1, <1>7, <1>9, <3>1
  <2> QED
    BY <1>7, <2>1, <2>2 DEF IsOrder
<1>10. \A x \in items : Cardinality(Ahead(items, before, x)) = rank[x]
  BY DEF rank
<1> QED
  BY <1>1, <1>7, <1>8, <1>9, <1>10 DEF N, sorted

----------------------------------------------------------------------------
(* Loops: sums *)

LEMMA SumOfNothing == <<>> \in Seq(Int) /\ SumOf(<<>>) = 0
<1>1. <<>> \in Seq(Int) /\ Len(<<>>) = 0
  OBVIOUS
<1> QED
  BY <1>1, SumTurn

\* A number more adds that number.
LEMMA SumOfMore ==
  ASSUME NEW s \in Seq(Int), NEW x \in Int
  PROVE  SumOf(Append(s, x)) = SumOf(s) + x
<1> DEFINE N == Len(s)
           t == Append(s, x)
           f == SumAfter(s)
           g == SumAfter(t)
           S == {n \in 0..N : g[n] = f[n]}
<1>1. /\ N \in Nat /\ t \in Seq(Int) /\ Len(t) = N + 1 /\ t[N + 1] = x
      /\ \A n \in 1..N : t[n] = s[n]
  OBVIOUS
<1>2. /\ f \in [0..N -> Int] /\ f[0] = 0 /\ SumOf(s) = f[N]
      /\ \A n \in 1..N : n - 1 \in 0..N /\ s[n] \in Int /\ f[n] = f[n - 1] + s[n]
  BY SumTurn
<1>3. /\ g[0] = 0 /\ SumOf(t) = g[N + 1]
      /\ \A n \in 1..(N + 1) : g[n] = g[n - 1] + t[n]
  <2> HIDE DEF t
  <2> QED
    BY <1>1, SumTurn
<1> HIDE DEF f, g, t, N
<1>4. 0 \in S
  BY <1>1, <1>2, <1>3
<1>5. ASSUME NEW n \in 1..N, n - 1 \in S
      PROVE  n \in S
  <2>1. n \in 1..(N + 1) /\ n \in 0..N /\ g[n - 1] = f[n - 1] /\ t[n] = s[n]
    BY <1>1, <1>5
  <2> QED
    BY <1>2, <1>3, <2>1
<1>6. N \in S
  <2> HIDE DEF S
  <2>1. \A n \in 0..N : n \in S
    BY <1>1, <1>4, <1>5, EveryTurn
  <2> QED
    BY <1>1, <2>1
<1>7. N + 1 \in 1..(N + 1) /\ (N + 1) - 1 = N
  BY <1>1
<1>8. g[N + 1] = g[N] + x
  BY <1>1, <1>3, <1>7
<1> QED
  BY <1>2, <1>3, <1>6, <1>8 DEF t

\* One number that grows by v adds v.
LEMMA OneGrows ==
  ASSUME NEW K \in Nat, NEW s \in [1..K -> Int], NEW t \in [1..K -> Int], NEW i \in 1..K, NEW v \in Int,
         t[i] = s[i] + v, \A j \in 1..K : j # i => t[j] = s[j]
  PROVE  SumOf(t) = SumOf(s) + v
<1> DEFINE f == SumAfter(s)
           g == SumAfter(t)
           S == {n \in 0..K : g[n] = f[n] + IF i <= n THEN v ELSE 0}
<1>1. s \in Seq(Int) /\ t \in Seq(Int) /\ Len(s) = K /\ Len(t) = K
  <2>1. s \in Seq(Int) /\ t \in Seq(Int)
    BY SeqDef
  <2> QED
    BY <2>1
<1>2. /\ f \in [0..K -> Int] /\ f[0] = 0 /\ SumOf(s) = f[K]
      /\ \A n \in 1..K : n - 1 \in 0..K /\ f[n] = f[n - 1] + s[n]
  BY <1>1, SumTurn
<1>3. /\ g[0] = 0 /\ SumOf(t) = g[K]
      /\ \A n \in 1..K : g[n] = g[n - 1] + t[n]
  BY <1>1, SumTurn
<1> HIDE DEF f, g
<1>4. 0 \in S
  <2>1. ~(i <= 0) /\ 0 \in 0..K
    OBVIOUS
  <2>2. g[0] = f[0] + IF i <= 0 THEN v ELSE 0
    BY <1>2, <1>3, <2>1
  <2> QED
    BY <2>1, <2>2
<1>5. ASSUME NEW n \in 1..K, n - 1 \in S
      PROVE  n \in S
  <2>1. /\ n \in 0..K /\ n - 1 \in 0..K /\ n \in Nat /\ i \in Nat /\ s[n] \in Int
        /\ (i <= n <=> i = n \/ i <= n - 1)
        /\ (i = n => ~(i <= n - 1))
    OBVIOUS
  <2>2. f[n - 1] \in Int /\ f[n] = f[n - 1] + s[n] /\ g[n] = g[n - 1] + t[n]
    BY <1>2, <1>3, <2>1
  <2>3. g[n - 1] = f[n - 1] + IF i <= n - 1 THEN v ELSE 0
    BY <1>5
  <2>4. t[n] = s[n] + IF i = n THEN v ELSE 0
    BY <2>1
  <2>5. g[n] = f[n] + IF i <= n THEN v ELSE 0
    BY <2>1, <2>2, <2>3, <2>4
  <2> QED
    BY <2>1, <2>5
<1>6. K \in S
  <2> HIDE DEF S
  <2>1. \A n \in 0..K : n \in S
    BY <1>4, <1>5, EveryTurn
  <2> QED
    BY <2>1
<1> QED
  BY <1>2, <1>3, <1>6

\* Numbers that are all at least m, or all at most m.
LEMMA SumBounds ==
  ASSUME NEW s \in Seq(Int), NEW m \in Int
  PROVE  /\ (\A n \in 1..Len(s) : s[n] >= m) => SumOf(s) >= Len(s) * m
         /\ (\A n \in 1..Len(s) : s[n] <= m) => SumOf(s) <= Len(s) * m
<1> DEFINE N == Len(s)
           f == SumAfter(s)
           S == {n \in 0..N : f[n] >= n * m}
           T == {n \in 0..N : f[n] <= n * m}
<1>1. /\ N \in Nat /\ f \in [0..N -> Int] /\ f[0] = 0 /\ SumOf(s) = f[N]
      /\ \A n \in 1..N : n - 1 \in 0..N /\ s[n] \in Int /\ f[n] = f[n - 1] + s[n]
  BY SumTurn
<1> HIDE DEF f, N
<1>2. \A n \in 1..N : n * m = (n - 1) * m + m /\ (n - 1) * m \in Int /\ n \in 0..N
  BY <1>1
<1>3. 0 \in S /\ 0 \in T
  BY <1>1
<1>4. ASSUME \A n \in 1..N : s[n] >= m
      PROVE  f[N] >= N * m
  <2>1. ASSUME NEW n \in 1..N, n - 1 \in S
        PROVE  n \in S
    <3>1. f[n - 1] \in Int /\ s[n] \in Int /\ s[n] >= m /\ f[n] = f[n - 1] + s[n] /\ f[n - 1] >= (n - 1) * m
      BY <1>1, <1>4, <2>1
    <3>2. PICK p \in Int : p = (n - 1) * m
      BY <1>2
    <3>3. n * m = p + m /\ f[n - 1] >= p
      BY <1>2, <3>1, <3>2
    <3>4. f[n] >= n * m
      BY <3>1, <3>3
    <3> QED
      BY <1>2, <3>4
  <2> HIDE DEF S
  <2>2. \A n \in 0..N : n \in S
    BY <1>1, <1>3, <2>1, EveryTurn
  <2> QED
    BY <1>1, <2>2 DEF S
<1>5. ASSUME \A n \in 1..N : s[n] <= m
      PROVE  f[N] <= N * m
  <2>1. ASSUME NEW n \in 1..N, n - 1 \in T
        PROVE  n \in T
    <3>1. f[n - 1] \in Int /\ s[n] \in Int /\ s[n] <= m /\ f[n] = f[n - 1] + s[n] /\ f[n - 1] <= (n - 1) * m
      BY <1>1, <1>5, <2>1
    <3>2. PICK p \in Int : p = (n - 1) * m
      BY <1>2
    <3>3. n * m = p + m /\ f[n - 1] <= p
      BY <1>2, <3>1, <3>2
    <3>4. f[n] <= n * m
      BY <3>1, <3>3
    <3> QED
      BY <1>2, <3>4
  <2> HIDE DEF T
  <2>2. \A n \in 0..N : n \in T
    BY <1>1, <1>3, <2>1, EveryTurn
  <2> QED
    BY <1>1, <2>2 DEF T
<1> QED
  BY <1>1, <1>4, <1>5 DEF N

\* A whole that is added up in N turns, each of which adds its number to one of
\* K parts: the parts add up to the whole.
Spread(part, whole, row, v, N, K) ==
  /\ part \in [0..N -> [1..K -> Int]] /\ whole \in [0..N -> Int]
  /\ row \in [1..N -> 1..K] /\ v \in [1..N -> Int]
  /\ whole[0] = 0 /\ \A i \in 1..K : part[0][i] = 0
  /\ \A n \in 1..N : whole[n] = whole[n - 1] + v[n]
  /\ \A n \in 1..N, i \in 1..K : part[n][i] = part[n - 1][i] + IF i = row[n] THEN v[n] ELSE 0

\* They do, by induction over the turns.
LEMMA PartsAddUp ==
  ASSUME NEW N \in Nat, NEW K \in Nat, NEW part, NEW whole, NEW row, NEW v,
         Spread(part, whole, row, v, N, K)
  PROVE  SumOf(part[N]) = whole[N]
<1> DEFINE S == {n \in 0..N : SumOf(part[n]) = whole[n]}
<1>1. 0 \in S
  <2>1. part[0] \in [1..K -> Int] /\ \A i \in 1..K : part[0][i] = 0
    BY DEF Spread
  <2>2. part[0] \in Seq(Int) /\ Len(part[0]) = K
    <3>1. part[0] \in Seq(Int)
      BY <2>1, SeqDef
    <3> QED
      BY <2>1, <3>1
  <2>3. SumOf(part[0]) >= 0 /\ SumOf(part[0]) <= 0
    <3>1. PICK m \in Int : m = 0
      OBVIOUS
    <3>2. PICK s \in Seq(Int) : s = part[0]
      BY <2>2
    <3>3. (\A n \in 1..Len(s) : s[n] >= m) /\ (\A n \in 1..Len(s) : s[n] <= m)
      BY <2>1, <2>2, <3>1, <3>2
    <3>4. SumOf(s) >= Len(s) * m /\ SumOf(s) <= Len(s) * m
      BY <3>3, SumBounds
    <3> QED
      BY <2>2, <3>1, <3>2, <3>4
  <2>4. SumOf(part[0]) \in Int
    BY <2>2, SumTurn
  <2>5. SumOf(part[0]) = 0
    BY <2>3, <2>4
  <2> QED
    BY <2>5 DEF Spread
<1>2. ASSUME NEW n \in 1..N, n - 1 \in S
      PROVE  n \in S
  <2>1. n \in 0..N /\ n - 1 \in 0..N
    OBVIOUS
  <2>2. /\ part[n] \in [1..K -> Int] /\ part[n - 1] \in [1..K -> Int] /\ row[n] \in 1..K /\ v[n] \in Int
        /\ part[n][row[n]] = part[n - 1][row[n]] + v[n]
        /\ whole[n] = whole[n - 1] + v[n]
    BY <2>1 DEF Spread
  <2>3. \A j \in 1..K : j # row[n] => part[n][j] = part[n - 1][j]
    <3> SUFFICES ASSUME NEW j \in 1..K, j # row[n]
                 PROVE  part[n][j] = part[n - 1][j]
      OBVIOUS
    <3>1. part[n][j] = part[n - 1][j] + IF j = row[n] THEN v[n] ELSE 0
      BY DEF Spread
    <3>2. part[n - 1][j] \in Int
      BY <2>2
    <3> QED
      BY <3>1, <3>2
  <2>4. SumOf(part[n]) = SumOf(part[n - 1]) + v[n]
    BY <2>2, <2>3, OneGrows
  <2> QED
    BY <1>2, <2>1, <2>2, <2>4
<1>3. N \in S
  <2> HIDE DEF S
  <2>1. \A n \in 0..N : n \in S
    BY <1>1, <1>2, EveryTurn
  <2> QED
    BY <2>1
<1> QED
  BY <1>3

\* An average lies among what it is of.
LEMMA AverageLies ==
  ASSUME NEW s \in Seq(Int), Len(s) > 0, \A i \in 1..Len(s) : s[i] \in Nat
  PROVE  LET average == SumOf(s) \div Len(s)
         IN  (\E i \in 1..Len(s) : s[i] <= average) /\ (\E i \in 1..Len(s) : s[i] >= average)
<1>1. PICK N : N = Len(s) /\ N \in Nat /\ N > 0
  OBVIOUS
<1>2. PICK sum : sum = SumOf(s) /\ sum \in Int
  <2>1. SumAfter(s) \in [0..N -> Int] /\ SumOf(s) = SumAfter(s)[N]
    BY <1>1, SumTurn
  <2>2. SumOf(s) \in Int
    BY <1>1, <2>1
  <2> QED
    BY <2>2, Zenon
<1>3. PICK q : q = sum \div N /\ q \in Int /\ N * q <= sum /\ sum < N * q + N
  <2>1. sum \div N \in Int
    BY <1>1, <1>2
  <2>2. N * (sum \div N) <= sum
    BY <1>1, <1>2
  <2>3. sum < N * (sum \div N) + N
    BY <1>1, <1>2
  <2> QED
    BY <2>1, <2>2, <2>3, Zenon
<1>4. ASSUME \A i \in 1..N : s[i] >= q + 1
      PROVE  FALSE
  <2>1. PICK m \in Int : m = q + 1
    BY <1>3
  <2>2. \A i \in 1..Len(s) : s[i] >= m
    BY <1>1, <1>4, <2>1
  <2>3. SumOf(s) >= Len(s) * m
    BY <2>2, SumBounds
  <2>4. N * (q + 1) = N * q + N /\ N * q \in Int
    BY <1>1, <1>3
  <2>5. sum >= N * q + N
    BY <1>1, <1>2, <2>1, <2>3, <2>4
  <2> QED
    BY <1>1, <1>2, <1>3, <2>4, <2>5
<1>5. ASSUME \A i \in 1..N : s[i] <= q - 1
      PROVE  FALSE
  <2>1. PICK m \in Int : m = q - 1
    BY <1>3
  <2>2. \A i \in 1..Len(s) : s[i] <= m
    BY <1>1, <1>5, <2>1
  <2>3. SumOf(s) <= Len(s) * m
    BY <2>2, SumBounds
  <2>4. N * (q - 1) = N * q - N /\ N * q \in Int
    BY <1>1, <1>3
  <2>5. sum <= N * q - N
    BY <1>1, <1>2, <2>1, <2>3, <2>4
  <2>6. PICK p : p = N * q /\ p \in Int
    BY <2>4, Zenon
  <2>7. sum <= p - N /\ p <= sum
    BY <1>3, <2>5, <2>6, Zenon
  <2> QED
    BY <1>1, <1>2, <2>6, <2>7
<1>6. \A i \in 1..N : s[i] \in Int
  BY <1>1
<1>7. (\E i \in 1..N : s[i] <= q) /\ (\E i \in 1..N : s[i] >= q)
  BY <1>3, <1>4, <1>5, <1>6
<1> QED
  BY <1>1, <1>2, <1>3, <1>7

=============================================================================
