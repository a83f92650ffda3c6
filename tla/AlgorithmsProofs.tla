-------------------------- MODULE AlgorithmsProofs --------------------------
(***************************************************************************)
(* The pure functions of bwg over inputs of any size: what a loop over the *)
(* rows of a file or the objects of a listing keeps is proved turn by turn *)
(* (see LoopsProofs), what they return from what it keeps in the end.      *)
(***************************************************************************)
EXTENDS Algorithms, FleetConfigProofs

(* Standing: alerts *)

\* A comparison does not change when both sides are scaled.
LEMMA Scaled ==
  ASSUME NEW x \in Int, NEW y \in Int, NEW m \in Nat, m > 0
  PROVE  x >= y <=> x * m >= y * m
<1>1. x >= y => (x - y) * m >= 0
  BY Z3
<1>2. x < y => (y - x) * m >= 1
  <2>1. \A d \in Nat : d >= 1 => d * m >= 1
    BY Z3
  <2>2. x < y => y - x \in Nat /\ y - x >= 1
    OBVIOUS
  <2> QED
    BY <2>1, <2>2
<1>3. (x - y) * m = x * m - y * m /\ (y - x) * m = y * m - x * m
  BY Z3
<1>4. x * m \in Int /\ y * m \in Int
  OBVIOUS
<1> QED
  BY <1>1, <1>2, <1>3, <1>4

LEMMA ScaledShare ==
  ASSUME NEW percent \in Nat, NEW part \in Int, NEW whole \in Int, NEW m \in Nat, m > 0
  PROVE  AtLeast(percent, part * m, whole * m) <=> AtLeast(percent, part, whole)
<1>1. /\ part * 100 \in Int /\ percent * whole \in Int /\ whole * m \in Int /\ part * m \in Int
      /\ 0 \in Int /\ 1 \in Int
  OBVIOUS
<1>2. whole * m > 0 <=> whole > 0
  <2>1. whole >= 1 <=> whole * m >= 1 * m
    BY <1>1, Scaled
  <2>2. 0 >= whole <=> 0 * m >= whole * m
    BY <1>1, Scaled
  <2>3. 0 * m = 0
    OBVIOUS
  <2> QED
    BY <1>1, <2>2, <2>3
<1>3. part * 100 >= percent * whole <=> (part * 100) * m >= (percent * whole) * m
  BY <1>1, Scaled
<1>4. (part * 100) * m = (part * m) * 100 /\ (percent * whole) * m = percent * (whole * m)
  BY Z3
<1> QED
  BY <1>2, <1>3, <1>4 DEF AtLeast

\* The multiplier that counts.
Mult(info) == IF info.multiplier <= 0 THEN 1 ELSE info.multiplier

LEMMA Figures ==
  ASSUME NEW addresses, NEW info \in Info(addresses)
  PROVE  /\ Mult(info) \in Nat /\ Mult(info) > 0
         /\ info.counter \in Int /\ info.plan \in Int
         /\ Bandwidth(info).used = info.counter * Mult(info)
         /\ Bandwidth(info).total = info.plan * Mult(info)
         /\ Bandwidth(info).free = IF info.plan * Mult(info) > info.counter * Mult(info)
                                   THEN info.plan * Mult(info) - info.counter * Mult(info) ELSE 0
BY DEF Info, Mult, Bandwidth

LEMMA ShareOfUsed ==
  ASSUME NEW addresses, NEW info \in Info(addresses), NEW percent \in Nat
  PROVE  AtLeast(percent, Bandwidth(info).used, Bandwidth(info).total)
         <=> AtLeast(percent, info.counter, info.plan)
<1>1. AtLeast(percent, info.counter * Mult(info), info.plan * Mult(info))
      <=> AtLeast(percent, info.counter, info.plan)
  BY Figures, ScaledShare
<1> QED
  BY <1>1, Figures, Zenon

\* For every VPS, whatever KiwiVM's figures are.
LEMMA TroubleIsShown ==
  ASSUME NEW addresses, NEW info \in Info(addresses), NEW state
  PROVE  AlertingHidesNoTrouble(info, state)
<1>1. ~Healthy(info) => AlertsFor(info, state) # {}
  <2>1. info.suspended \in BOOLEAN /\ info.violation \in BOOLEAN
    BY DEF Info
  <2>2. info.suspended => "suspended" \in AlertsFor(info, state)
    BY DEF AlertsFor
  <2>3. info.violation => "violation" \in AlertsFor(info, state)
    BY DEF AlertsFor
  <2>4. info.nullrouted # {} => "nullrouted" \in AlertsFor(info, state)
    BY DEF AlertsFor
  <2> QED
    BY <2>1, <2>2, <2>3, <2>4 DEF Healthy
<1>2. ASSUME info.plan > 0, Bandwidth(info).free = 0
      PROVE  "exhausted" \in AlertsFor(info, state)
  <2>1. AtLeast(100, info.counter, info.plan)
    <3>1. info.plan * Mult(info) \in Int /\ info.counter * Mult(info) \in Int
      BY Figures
    <3>2. info.counter * Mult(info) >= info.plan * Mult(info)
      BY <1>2, <3>1, Figures
    <3>3. info.counter >= info.plan
      BY <3>2, Figures, Scaled
    <3> QED
      BY <1>2, <3>3, Figures DEF AtLeast
  <2>2. AtLeast(100, Bandwidth(info).used, Bandwidth(info).total)
    <3>1. 100 \in Nat
      OBVIOUS
    <3> QED
      BY <2>1, <3>1, ShareOfUsed
  <2> QED
    BY <2>2 DEF AlertsFor
<1> QED
  BY <1>1, <1>2 DEF AlertingHidesNoTrouble

LEMMA ScaleNeverMatters ==
  ASSUME NEW addresses, NEW info \in Info(addresses), NEW state
  PROVE  ScaleIsNoMatter(info, state)
<1> DEFINE one == [info EXCEPT !.multiplier = 1]
<1>1. /\ one \in Info(addresses) /\ one.counter = info.counter /\ one.plan = info.plan
      /\ one.suspended = info.suspended /\ one.violation = info.violation
      /\ one.nullrouted = info.nullrouted /\ one.points = info.points
      /\ one.maxPoints = info.maxPoints /\ Mult(one) = 1
  BY DEF Info, Mult
<1> HIDE DEF one
<1>2. \A percent \in {90, 100} :
        AtLeast(percent, Bandwidth(info).used, Bandwidth(info).total)
        <=> AtLeast(percent, Bandwidth(one).used, Bandwidth(one).total)
  <2> SUFFICES ASSUME NEW percent \in {90, 100}
               PROVE  AtLeast(percent, Bandwidth(info).used, Bandwidth(info).total)
                      <=> AtLeast(percent, Bandwidth(one).used, Bandwidth(one).total)
    OBVIOUS
  <2>1. percent \in Nat
    OBVIOUS
  <2>2. AtLeast(percent, Bandwidth(info).used, Bandwidth(info).total)
        <=> AtLeast(percent, info.counter, info.plan)
    BY <2>1, ShareOfUsed
  <2>3. AtLeast(percent, Bandwidth(one).used, Bandwidth(one).total)
        <=> AtLeast(percent, one.counter, one.plan)
    BY <1>1, <2>1, ShareOfUsed
  <2> QED
    BY <1>1, <2>2, <2>3
<1>3. AlertsFor(info, state) = AlertsFor(one, state)
  BY <1>1, <1>2, Zenon DEF AlertsFor
<1>4. Bandwidth(info).used + Bandwidth(info).free
        = IF Bandwidth(info).used > Bandwidth(info).total THEN Bandwidth(info).used ELSE Bandwidth(info).total
  <2>1. info.plan * Mult(info) \in Int /\ info.counter * Mult(info) \in Int
    BY Figures
  <2> QED
    BY <2>1, Figures
<1> QED
  BY <1>3, <1>4 DEF ScaleIsNoMatter, one

----------------------------------------------------------------------------
(* References: what is seen of a listing *)

Text == Seq(Letter)
Objects == [name : Text, about : Text]
Sight == [exact : BOOLEAN, names : SUBSET Text]

LEMMA LookTyped ==
  ASSUME NEW kind, NEW ref \in Text, NEW seen \in Sight, NEW o \in Objects
  PROVE  Look(kind, ref, seen, o) \in Sight
<1>1. seen.exact \in BOOLEAN /\ seen.names \in SUBSET Text /\ o.name \in Text
  BY DEF Sight, Objects
<1>2. [exact |-> TRUE, names |-> {o.name}] \in Sight
  BY <1>1 DEF Sight
<1>3. [exact |-> FALSE, names |-> seen.names \cup {o.name}] \in Sight
  BY <1>1 DEF Sight
<1> QED
  BY <1>2, <1>3, Zenon DEF Look

LookAt(kind, list, ref) == [n \in 1..Len(list) |-> [seen \in Sight |-> Look(kind, ref, seen, list[n])]]

LEMMA Looking ==
  ASSUME NEW kind, NEW ref \in Text, NEW list \in Seq(Objects)
  PROVE  \E f \in [0..Len(list) -> Sight] :
            f[0] = Nothing /\ \A n \in 1..Len(list) : f[n] = Look(kind, ref, f[n - 1], list[n])
<1>1. Nothing \in Sight
  BY DEF Sight, Nothing
<1>2. Len(list) \in Nat /\ \A n \in 1..Len(list) : list[n] \in Objects
  OBVIOUS
<1>3. StepsIn(LookAt(kind, list, ref), Sight, Len(list))
  BY <1>2, LookTyped DEF LookAt, StepsIn
<1>4. PICK f : RunsAs(f, Nothing, LookAt(kind, list, ref), Sight, Len(list))
  BY <1>1, <1>2, <1>3, LoopRuns
<1>5. \A n \in 1..Len(list) : n - 1 \in 0..Len(list)
  BY <1>2
<1>6. \A n \in 1..Len(list) : f[n] = Look(kind, ref, f[n - 1], list[n])
  BY <1>4, <1>5 DEF LookAt, RunsAs
<1> QED
  BY <1>4, <1>6 DEF RunsAs

LEMMA SeenTurns ==
  ASSUME NEW kind, NEW ref \in Text, NEW list \in Seq(Objects)
  PROVE  /\ Seen(kind, list, ref)[0] = Nothing
         /\ \A n \in 1..Len(list) :
              Seen(kind, list, ref)[n] = Look(kind, ref, Seen(kind, list, ref)[n - 1], list[n])
<1> DEFINE seen == Seen(kind, list, ref)
           start == Nothing
<1>1. Len(list) \in Nat
  OBVIOUS
<1>2. \E f : f = [n \in 0..Len(list) |-> IF n = 0 THEN start ELSE Look(kind, ref, f[n - 1], list[n])]
  <2> HIDE DEF start
  <2>1. PICK f \in [0..Len(list) -> Sight] :
          f[0] = start /\ \A n \in 1..Len(list) : f[n] = Look(kind, ref, f[n - 1], list[n])
    BY Looking DEF start
  <2>2. \A n \in 0..Len(list) : n = 0 \/ n \in 1..Len(list)
    BY <1>1
  <2> QED
    BY <2>1, <2>2
<1>3. seen = [n \in 0..Len(list) |-> IF n = 0 THEN start ELSE Look(kind, ref, seen[n - 1], list[n])]
  BY <1>2 DEF Seen
<1> HIDE DEF seen, start
<1>4. seen[0] = start
  BY <1>1, <1>3
<1>5. \A n \in 1..Len(list) : n \in 0..Len(list) /\ n # 0
  BY <1>1
<1>6. \A n \in 1..Len(list) : seen[n] = Look(kind, ref, seen[n - 1], list[n])
  BY <1>3, <1>5
<1> QED
  BY <1>4, <1>6 DEF seen, start

\* What the loop has seen after n objects.
Fitting(kind, list, ref, n) == {list[m].name : m \in {k \in 1..n : Fits(kind, list[k], ref)}}
Exactly(list, ref, n) == \E m \in 1..n : list[m].name = ref
SeenSoFar(kind, list, ref, n, seen) ==
  IF Exactly(list, ref, n) THEN seen = [exact |-> TRUE, names |-> {ref}]
  ELSE seen = [exact |-> FALSE, names |-> Fitting(kind, list, ref, n)]

LEMMA OneMore ==
  ASSUME NEW kind, NEW ref \in Text, NEW list \in Seq(Objects), NEW n \in 1..Len(list),
         NEW seen, SeenSoFar(kind, list, ref, n - 1, seen)
  PROVE  SeenSoFar(kind, list, ref, n, Look(kind, ref, seen, list[n]))
<1>1. n \in Nat /\ \A m : m \in 1..n <=> m \in 1..(n - 1) \/ m = n
  OBVIOUS
<1>2. Exactly(list, ref, n) <=> Exactly(list, ref, n - 1) \/ list[n].name = ref
  BY <1>1 DEF Exactly
<1>3. Fitting(kind, list, ref, n) =
        Fitting(kind, list, ref, n - 1) \cup (IF Fits(kind, list[n], ref) THEN {list[n].name} ELSE {})
  BY <1>1 DEF Fitting
<1>4. CASE Exactly(list, ref, n - 1)
  <2>1. seen.exact
    BY <1>4 DEF SeenSoFar
  <2> QED
    BY <1>2, <1>4, <2>1, Zenon DEF SeenSoFar, Look
<1>5. CASE ~Exactly(list, ref, n - 1) /\ list[n].name = ref
  <2>1. ~seen.exact
    BY <1>5 DEF SeenSoFar
  <2> QED
    BY <1>2, <1>5, <2>1, Zenon DEF SeenSoFar, Look
<1>6. CASE ~Exactly(list, ref, n - 1) /\ list[n].name # ref
  <2>1. seen = [exact |-> FALSE, names |-> Fitting(kind, list, ref, n - 1)] /\ ~Exactly(list, ref, n)
    BY <1>2, <1>6, Zenon DEF SeenSoFar
  <2>2. ~seen.exact /\ seen.names = Fitting(kind, list, ref, n - 1)
    BY <2>1
  <2>3. CASE Fits(kind, list[n], ref)
    <3>1. Look(kind, ref, seen, list[n])
            = [exact |-> FALSE, names |-> Fitting(kind, list, ref, n - 1) \cup {list[n].name}]
      BY <1>6, <2>2, <2>3, Zenon DEF Look
    <3>2. Fitting(kind, list, ref, n) = Fitting(kind, list, ref, n - 1) \cup {list[n].name}
      BY <1>3, <2>3
    <3> QED
      BY <2>1, <3>1, <3>2, Zenon DEF SeenSoFar
  <2>4. CASE ~Fits(kind, list[n], ref)
    <3>1. Look(kind, ref, seen, list[n]) = seen
      BY <1>6, <2>2, <2>4, Zenon DEF Look
    <3>2. Fitting(kind, list, ref, n) = Fitting(kind, list, ref, n - 1)
      BY <1>3, <2>4
    <3> QED
      BY <2>1, <3>1, <3>2, Zenon DEF SeenSoFar
  <2> QED
    BY <2>3, <2>4
<1> QED
  BY <1>4, <1>5, <1>6

\* What Find returns: the object of that name, or else all that fit.
LEMMA Found ==
  ASSUME NEW kind, NEW ref \in Text, NEW list \in Seq(Objects)
  PROVE  Find(kind, list, ref) = IF Exactly(list, ref, Len(list)) THEN {ref}
                                 ELSE Fitting(kind, list, ref, Len(list))
<1> DEFINE seen == Seen(kind, list, ref)
           N == Len(list)
           S == {n \in 0..N : SeenSoFar(kind, list, ref, n, seen[n])}
<1>1. N \in Nat
  OBVIOUS
<1>2. /\ seen[0] = Nothing
      /\ \A n \in 1..N : seen[n] = Look(kind, ref, seen[n - 1], list[n])
  BY SeenTurns
<1> HIDE DEF seen
<1>3. 0 \in S
  <2>1. ~Exactly(list, ref, 0) /\ Fitting(kind, list, ref, 0) = {}
    BY DEF Exactly, Fitting
  <2>2. SeenSoFar(kind, list, ref, 0, seen[0])
    BY <1>2, <2>1, Zenon DEF SeenSoFar, Nothing
  <2> QED
    BY <1>1, <2>2
<1>4. ASSUME NEW n \in 1..N, n - 1 \in S
      PROVE  n \in S
  <2>1. SeenSoFar(kind, list, ref, n - 1, seen[n - 1]) /\ n \in 0..N
    BY <1>1, <1>4
  <2>2. SeenSoFar(kind, list, ref, n, Look(kind, ref, seen[n - 1], list[n]))
    BY <2>1, OneMore
  <2> QED
    BY <1>2, <2>1, <2>2
<1>5. SeenSoFar(kind, list, ref, N, seen[N])
  <2>0. N \in 0..N
    BY <1>1
  <2> HIDE DEF S, N
  <2>1. \A n \in 0..N : n \in S
    BY <1>1, <1>3, <1>4, EveryTurn
  <2> QED
    BY <2>0, <2>1 DEF S
<1>6. Find(kind, list, ref) = seen[N].names
  BY DEF Find, seen
<1>7. CASE Exactly(list, ref, N)
  <2>1. seen[N] = [exact |-> TRUE, names |-> {ref}]
    BY <1>5, <1>7, Zenon DEF SeenSoFar
  <2> QED
    BY <1>6, <1>7, <2>1
<1>8. CASE ~Exactly(list, ref, N)
  <2>1. seen[N] = [exact |-> FALSE, names |-> Fitting(kind, list, ref, N)]
    BY <1>5, <1>8, Zenon DEF SeenSoFar
  <2> QED
    BY <1>6, <1>8, <2>1
<1> QED
  BY <1>7, <1>8

----------------------------------------------------------------------------
(* Parts of texts *)

\* A prefix, and a part, letter by letter.
Begins(p, s) == Len(p) <= Len(s) /\ \A j \in 1..Len(p) : s[j] = p[j]
At(s, i, p) == \A j \in 1..Len(p) : s[i + j] = p[j]

LEMMA PartByLetter ==
  ASSUME NEW A, NEW s \in Seq(A), NEW p \in Seq(A), NEW i \in Nat, i + Len(p) <= Len(s)
  PROVE  SubSeq(s, i + 1, i + Len(p)) = p <=> At(s, i, p)
<1> DEFINE part == SubSeq(s, i + 1, i + Len(p))
<1>1. part \in Seq(A) /\ Len(part) = Len(p) /\ \A j \in 1..Len(p) : part[j] = s[i + j]
  <2>1. Len(s) \in Nat /\ Len(p) \in Nat
    OBVIOUS
  <2>2. \A j \in 1..Len(p) : i + 1 + j - 1 = i + j /\ i + j \in 1..Len(s)
    BY <2>1
  <2>3. i + 1 + 0 - 1 = i /\ i + Len(p) - (i + 1) + 1 = Len(p)
    BY <2>1
  <2>4. i + 1 \in 1..Len(s) + 1 /\ i + Len(p) \in (i + 1) - 1..Len(s)
    BY <2>1
  <2> QED
    BY <2>1, <2>2, <2>3, <2>4, SubSeqProperties
<1> HIDE DEF part
<1>2. ASSUME At(s, i, p)
      PROVE  part = p
  <2>1. \A j \in 1..Len(p) : part[j] = p[j]
    BY <1>1, <1>2 DEF At
  <2> QED
    BY <1>1, <2>1
<1>3. ASSUME part = p
      PROVE  At(s, i, p)
  BY <1>1, <1>3 DEF At
<1> QED
  BY <1>2, <1>3 DEF part

LEMMA PrefixByLetter ==
  ASSUME NEW A, NEW s \in Seq(A), NEW p \in Seq(A)
  PROVE  Letters!IsPrefix(p, s) <=> Begins(p, s)
<1>1. SubSeq(p, 1, Len(p)) = p
  OBVIOUS
<1>2. ASSUME Len(p) <= Len(s)
      PROVE  SubSeq(s, 1, Len(p)) = p <=> At(s, 0, p)
  <2>1. 0 \in Nat /\ 0 + Len(p) <= Len(s) /\ 0 + 1 = 1 /\ 0 + Len(p) = Len(p)
    BY <1>2
  <2> QED
    BY <2>1, PartByLetter
<1>3. At(s, 0, p) <=> \A j \in 1..Len(p) : s[j] = p[j]
  <2>1. \A j \in 1..Len(p) : 0 + j = j
    OBVIOUS
  <2> QED
    BY <2>1, Zenon DEF At
<1> QED
  BY <1>1, <1>2, <1>3 DEF Letters!IsPrefix, Begins

LEMMA HasPartByLetter ==
  ASSUME NEW A, NEW s \in Seq(A), NEW p \in Seq(A)
  PROVE  HasPart(s, p) <=> \E i \in Nat : i + Len(p) <= Len(s) /\ At(s, i, p)
<1>1. Len(s) \in Nat /\ Len(p) \in Nat
  OBVIOUS
<1>2. \A i : i \in 0..Len(s) - Len(p) <=> i \in Nat /\ i + Len(p) <= Len(s)
  BY <1>1
<1>3. \A i \in 0..Len(s) - Len(p) : SubSeq(s, i + 1, i + Len(p)) = p <=> At(s, i, p)
  BY <1>2, PartByLetter
<1> QED
  BY <1>2, <1>3 DEF HasPart

\* What has a text as its part, or its beginning, has each beginning of that.
LEMMA ShorterPart ==
  ASSUME NEW A, NEW s \in Seq(A), NEW p \in Seq(A), NEW q \in Seq(A), Begins(p, q), HasPart(s, q)
  PROVE  HasPart(s, p)
<1>1. PICK i \in Nat : i + Len(q) <= Len(s) /\ At(s, i, q)
  BY HasPartByLetter
<1>2. Len(p) \in Nat /\ Len(q) \in Nat /\ Len(s) \in Nat /\ Len(p) <= Len(q)
  BY DEF Begins
<1>3. i + Len(p) <= Len(s)
  BY <1>1, <1>2
<1>4. \A j \in 1..Len(p) : j \in 1..Len(q)
  BY <1>2
<1>5. At(s, i, p)
  BY <1>1, <1>4 DEF At, Begins
<1> QED
  BY <1>3, <1>5, HasPartByLetter

LEMMA BeginningIsPart ==
  ASSUME NEW A, NEW s \in Seq(A), NEW p \in Seq(A), Begins(p, s)
  PROVE  HasPart(s, p)
<1>1. 0 \in Nat /\ 0 + Len(p) <= Len(s)
  BY DEF Begins
<1>2. \A j \in 1..Len(p) : 0 + j = j
  OBVIOUS
<1>3. At(s, 0, p)
  BY <1>2 DEF At, Begins
<1> QED
  BY <1>1, <1>3, HasPartByLetter

LEMMA BeginsAgain ==
  ASSUME NEW A, NEW s \in Seq(A), NEW p \in Seq(A), NEW q \in Seq(A), Begins(p, q), Begins(q, s)
  PROVE  Begins(p, s)
<1>1. Len(p) \in Nat /\ Len(q) \in Nat /\ Len(s) \in Nat
  OBVIOUS
<1> QED
  BY <1>1 DEF Begins

Lowered == Letter \cup {"a"}

LEMMA LowerText ==
  ASSUME NEW s \in Text
  PROVE  /\ Lower(s) \in Seq(Lowered) /\ Len(Lower(s)) = Len(s)
         /\ \A j \in 1..Len(s) : Lower(s)[j] = IF s[j] = "A" THEN "a" ELSE s[j]
<1>1. Len(s) \in Nat /\ \A j \in 1..Len(s) : s[j] \in Letter
  BY DEF Text
<1>2. \A j \in 1..Len(s) : (IF s[j] = "A" THEN "a" ELSE s[j]) \in Lowered
  BY <1>1 DEF Lowered
<1>3. Lower(s) \in [1..Len(s) -> Lowered]
  BY <1>2 DEF Lower
<1>4. Lower(s) \in Seq(Lowered)
  BY <1>1, <1>3
<1>5. Len(Lower(s)) = Len(s)
  BY <1>1, <1>3, <1>4
<1> QED
  BY <1>4, <1>5 DEF Lower

LEMMA LowerBegins ==
  ASSUME NEW s \in Text, NEW p \in Text, Begins(p, s)
  PROVE  Begins(Lower(p), Lower(s))
<1>1. Len(p) \in Nat /\ Len(s) \in Nat /\ Len(p) <= Len(s) /\ \A j \in 1..Len(p) : s[j] = p[j]
  BY DEF Begins, Text
<1>2. \A j \in 1..Len(p) : j \in 1..Len(s)
  BY <1>1
<1>3. \A j \in 1..Len(p) : Lower(s)[j] = Lower(p)[j]
  BY <1>1, <1>2, LowerText
<1> QED
  BY <1>1, <1>3, LowerText DEF Begins

----------------------------------------------------------------------------
(* References *)

LEMMA Listed ==
  ASSUME NEW list \in Seq(Objects), NEW i \in 1..Len(list)
  PROVE  list[i].name \in Text /\ list[i].about \in Text
<1>1. list[i] \in Objects
  OBVIOUS
<1> QED
  BY <1>1 DEF Objects

\* An object that fits a reference fits the beginnings of it.
LEMMA LongerFitsLess ==
  ASSUME NEW kind, NEW o, o.name \in Text, o.about \in Text, NEW ref \in Text, NEW longer \in Text,
         Begins(ref, longer), Fits(kind, o, longer)
  PROVE  Fits(kind, o, ref)
<1>1. Lower(ref) \in Seq(Lowered) /\ Lower(longer) \in Seq(Lowered) /\ Begins(Lower(ref), Lower(longer))
      /\ Lower(o.name) \in Seq(Lowered) /\ Lower(o.about) \in Seq(Lowered)
  BY LowerText, LowerBegins
<1>2. Letters!IsPrefix(longer, o.name) => Letters!IsPrefix(ref, o.name)
  BY PrefixByLetter, BeginsAgain DEF Text
<1>3. HasPart(Lower(o.name), Lower(longer)) => HasPart(Lower(o.name), Lower(ref))
  BY <1>1, ShorterPart
<1>4. HasPart(Lower(o.about), Lower(longer)) => HasPart(Lower(o.about), Lower(ref))
  BY <1>1, ShorterPart
<1>5. HasPart(o.name, longer) => HasPart(o.name, ref)
  BY ShorterPart DEF Text
<1> QED
  BY <1>2, <1>3, <1>4, <1>5, Zenon DEF Fits

\* An object fits the beginnings of its name.
LEMMA NameFitsLess ==
  ASSUME NEW kind \in Kinds, NEW o, o.name \in Text, NEW ref \in Text, Begins(ref, o.name)
  PROVE  Fits(kind, o, ref)
<1>1. Lower(ref) \in Seq(Lowered) /\ Begins(Lower(ref), Lower(o.name)) /\ Lower(o.name) \in Seq(Lowered)
  BY LowerText, LowerBegins
<1>2. Letters!IsPrefix(ref, o.name)
  BY PrefixByLetter DEF Text
<1>3. HasPart(Lower(o.name), Lower(ref))
  BY <1>1, BeginningIsPart
<1>4. HasPart(o.name, ref)
  BY BeginningIsPart DEF Text
<1>5. kind = "backup" \/ kind = "template" \/ kind = "snapshot"
  BY DEF Kinds
<1> QED
  BY <1>2, <1>3, <1>4, <1>5, Zenon DEF Fits

\* A name in full is that object's.
LEMMA FullNames ==
  ASSUME NEW kind, NEW list \in Seq(Objects)
  PROVE  FullNameIsUnmistakable(kind, list)
<1> SUFFICES ASSUME NEW i \in DOMAIN list
             PROVE  Find(kind, list, list[i].name) = {list[i].name}
  BY DEF FullNameIsUnmistakable
<1>1. i \in 1..Len(list)
  OBVIOUS
<1>2. Exactly(list, list[i].name, Len(list))
  BY <1>1 DEF Exactly
<1> QED
  BY <1>1, <1>2, Listed, Found

\* The other way round the listing is the same.
LEMMA TheOtherWay ==
  ASSUME NEW kind, NEW list \in Seq(Objects), NEW ref \in Text
  PROVE  OrderIsNoMatter(kind, list, ref)
<1> DEFINE back == Letters!Reverse(list)
           N == Len(list)
<1>1. N \in Nat /\ \A i \in 1..N : N - i + 1 \in 1..N /\ N - (N - i + 1) + 1 = i
  OBVIOUS
<1>2. back \in Seq(Objects) /\ Len(back) = N /\ \A i \in 1..N : back[i] = list[N - i + 1]
  <2>1. back = [i \in 1..N |-> list[N - i + 1]]
    BY DEF Letters!Reverse
  <2>2. back \in [1..N -> Objects]
    BY <1>1, <2>1
  <2> QED
    BY <1>1, <2>1, <2>2
<1> HIDE DEF back
<1>3. \A o : (\E i \in 1..N : back[i] = o) <=> (\E i \in 1..N : list[i] = o)
  BY <1>1, <1>2
<1> HIDE DEF N
<1>4. Exactly(back, ref, N) <=> Exactly(list, ref, N)
  BY <1>3 DEF Exactly
<1>5. Fitting(kind, back, ref, N) = Fitting(kind, list, ref, N)
  <2>1. \A x : x \in Fitting(kind, back, ref, N) <=>
                 \E i \in 1..N : Fits(kind, back[i], ref) /\ x = back[i].name
    BY DEF Fitting
  <2>2. \A x : x \in Fitting(kind, list, ref, N) <=>
                 \E i \in 1..N : Fits(kind, list[i], ref) /\ x = list[i].name
    BY DEF Fitting
  <2>3. /\ \A i \in 1..N : \E k \in 1..N : list[k] = back[i]
        /\ \A i \in 1..N : \E k \in 1..N : back[k] = list[i]
    BY <1>3, Zenon
  <2>4. \A x : (\E i \in 1..N : Fits(kind, back[i], ref) /\ x = back[i].name)
            <=> (\E i \in 1..N : Fits(kind, list[i], ref) /\ x = list[i].name)
    BY <2>3, Zenon
  <2>5. \A x : x \in Fitting(kind, back, ref, N) <=> x \in Fitting(kind, list, ref, N)
    BY <2>1, <2>2, <2>4, Zenon
  <2> QED
    BY <2>5
<1>6. Find(kind, list, ref) = IF Exactly(list, ref, N) THEN {ref} ELSE Fitting(kind, list, ref, N)
  BY Found DEF N
<1>7. Find(kind, back, ref) = IF Exactly(back, ref, N) THEN {ref} ELSE Fitting(kind, back, ref, N)
  BY <1>2, Found
<1> QED
  BY <1>4, <1>5, <1>6, <1>7 DEF OrderIsNoMatter, back

\* What is typed in addition leads to no other object.
LEMMA MoreTyped ==
  ASSUME NEW kind \in Kinds, NEW list \in Seq(Objects), NEW ref \in Text, NEW longer \in Text
  PROVE  MoreSpecificIsSafe(kind, list, ref, longer)
<1> SUFFICES ASSUME Letters!IsPrefix(ref, longer), \A i \in DOMAIN list : list[i].name # ref,
                    NEW x \in Find(kind, list, longer)
             PROVE  x \in Find(kind, list, ref)
  BY DEF MoreSpecificIsSafe
<1> DEFINE N == Len(list)
<1>1. N \in Nat /\ DOMAIN list = 1..N /\ Begins(ref, longer)
  BY PrefixByLetter DEF Text
<1>2. Find(kind, list, ref) = Fitting(kind, list, ref, N)
  BY <1>1, Found DEF Exactly
<1>3. \E i \in 1..N : x = list[i].name /\ (x = longer \/ Fits(kind, list[i], longer))
  <2>1. CASE Exactly(list, longer, N)
    BY <2>1, Found DEF Exactly
  <2>2. CASE ~Exactly(list, longer, N)
    <3>1. Find(kind, list, longer) = Fitting(kind, list, longer, N)
      BY <2>2, Found
    <3>2. \E i \in 1..N : Fits(kind, list[i], longer) /\ x = list[i].name
      BY <3>1 DEF Fitting
    <3> QED
      BY <3>2, Zenon
  <2> QED
    BY <2>1, <2>2
<1>4. PICK i \in 1..N : x = list[i].name /\ (x = longer \/ Fits(kind, list[i], longer))
  BY <1>3
<1>5. list[i].name \in Text /\ list[i].about \in Text
  BY Listed
<1>6. Fits(kind, list[i], ref)
  <2>1. CASE x = longer
    BY <1>1, <1>4, <1>5, <2>1, NameFitsLess
  <2>2. CASE Fits(kind, list[i], longer)
    BY <1>1, <1>5, <2>2, LongerFitsLess
  <2> QED
    BY <1>4, <2>1, <2>2
<1> QED
  BY <1>2, <1>4, <1>6 DEF Fitting

----------------------------------------------------------------------------
(* PortalCsv: the billing portal's export *)

(* Free names *)

LEMMA FirstIsIn ==
  ASSUME NEW S \in SUBSET Nat, S # {}
  PROVE  FirstOf(S) \in S
<1>1. \E c \in S : \A d \in S : c <= d
  BY LeastNumber
<1> QED
  BY <1>1 DEF FirstOf

\* A finite sequence is one over any set that holds what it is made of.
LEMMA SeqOver ==
  ASSUME NEW s
  PROVE  /\ \A A : s \in Seq(A) => IsSeq(s)
         /\ IsSeq(s) => \A A : (\A i \in 1..Len(s) : s[i] \in A) => s \in Seq(A)
<1>1. ASSUME NEW A, s \in Seq(A)
      PROVE  IsSeq(s)
  <2>1. Len(s) \in Nat /\ s \in [1..Len(s) -> A]
    BY <1>1
  <2> QED
    BY <2>1 DEF IsSeq
<1>2. ASSUME NEW A, IsSeq(s), \A i \in 1..Len(s) : s[i] \in A
      PROVE  s \in Seq(A)
  <2>1. PICK N : N = Len(s)
    OBVIOUS
  <2>2. N \in Nat /\ s = [i \in 1..N |-> s[i]] /\ \A i \in 1..N : s[i] \in A
    BY <1>2, <2>1, Zenon DEF IsSeq
  <2>3. s \in [1..N -> A]
    BY <2>2
  <2> QED
    BY <2>2, <2>3, SeqDef
<1> QED
  BY <1>1, <1>2

LEMMA Longer ==
  ASSUME NEW name, IsSeq(name), NEW i
  PROVE  /\ IsSeq(Append(name, i)) /\ Len(Append(name, i)) = Len(name) + 1
         /\ Append(name, i)[Len(name) + 1] = i
<1> DEFINE A == {name[m] : m \in 1..Len(name)} \cup {i}
           N == Len(name)
<1>1. N \in Nat /\ name = [m \in 1..N |-> name[m]] /\ \A m \in 1..N : name[m] \in A
  BY DEF IsSeq
<1>2. name \in Seq(A) /\ i \in A
  BY <1>1, SeqOver
<1> HIDE DEF A
<1>3. Append(name, i) \in Seq(A) /\ Len(Append(name, i)) = N + 1 /\ Append(name, i)[N + 1] = i
  BY <1>2
<1>4. IsSeq(Append(name, i))
  BY <1>3, SeqOver
<1> QED
  BY <1>3, <1>4

\* Of n + 1 numbers, one makes a name that none of n others is.
LEMMA OneIsFree ==
  ASSUME NEW name, IsSeq(name), NEW used, IsFiniteSet(used)
  PROVE  \E n \in 2..Cardinality(used) + 2 : Append(name, n) \notin used
<1> DEFINE C == Cardinality(used)
           f == [n \in 2..C + 2 |-> Append(name, n)]
<1>1. C \in Nat
  BY FS_CardinalityType
<1>2. IsFiniteSet(2..C + 2) /\ Cardinality(2..C + 2) = C + 1
  BY <1>1, FS_Interval
<1>3. SUFFICES ASSUME \A n \in 2..C + 2 : Append(name, n) \in used
               PROVE  FALSE
  OBVIOUS
<1>4. f \in [2..C + 2 -> used]
  BY <1>3
<1>5. \E x, y \in 2..C + 2 : x # y /\ f[x] = f[y]
  <2> HIDE DEF f, C
  <2>1. C < C + 1
    BY <1>1
  <2> QED
    BY <1>2, <1>4, <2>1, FS_PigeonHole DEF C
<1>6. \A x, y \in 2..C + 2 : Append(name, x) = Append(name, y) => x = y
  BY Longer
<1> QED
  BY <1>5, <1>6

LEMMA FreeNames ==
  ASSUME NEW name, NEW rows \in Nat, Nameable(name, rows), NEW used, IsFiniteSet(used),
         Cardinality(used) < rows
  PROVE  FreeName(name, used) \in Name \ used
<1> DEFINE S == {n \in 2..Cardinality(used) + 2 : Append(name, n) \notin used}
<1>1. Cardinality(used) \in Nat /\ IsSeq(name) /\ name \in Name
      /\ \A i \in 2..rows + 1 : Append(name, i) \in Name
  BY FS_CardinalityType DEF Nameable
<1>2. S # {} /\ S \in SUBSET Nat
  BY <1>1, OneIsFree
<1>3. FirstOf(S) \in S
  BY <1>2, FirstIsIn
<1>4. FirstOf(S) \in 2..rows + 1 /\ Append(name, FirstOf(S)) \notin used
  BY <1>1, <1>3
<1> QED
  BY <1>1, <1>4 DEF FreeName

----------------------------------------------------------------------------
(* Columns *)

LEMMA FirstOfOne ==
  ASSUME NEW c
  PROVE  /\ c \in Nat => FirstOf({c}) = c /\ LastOf({c}) = c
         /\ FirstOf({}) = 0 /\ LastOf({}) = 0
<1>1. ASSUME c \in Nat
      PROVE  FirstOf({c}) = c /\ LastOf({c}) = c
  <2>1. c <= c /\ c >= c
    BY <1>1
  <2> QED
    BY <2>1 DEF FirstOf, LastOf
<1> QED
  BY <1>1 DEF FirstOf, LastOf

\* Where a row has cells of a look, if there is one column for them.
LEMMA CellsOfOneLook ==
  ASSUME NEW row, NEW look, NEW v, \A c \in DOMAIN row : row[c].is = look => c = v
  PROVE  {c \in DOMAIN row : row[c].is = look}
           = IF v \in DOMAIN row /\ row[v].is = look THEN {v} ELSE {}
OBVIOUS

\* Rows in which cells of a look are in one column only.
OnlyIn(rows, look, v) == \A r \in 1..Len(rows) : \A c \in DOMAIN rows[r] : rows[r][c].is = look => c = v
None(rows, look)      == \A r \in 1..Len(rows) : \A c \in DOMAIN rows[r] : rows[r][c].is # look

LEMMA DetectedIsRight ==
  ASSUME NEW rows, IsSeq(rows), NEW look, NEW v \in Nat, OnlyIn(rows, look, v)
  PROVE  Detected(rows, look) = v \/ (Detected(rows, look) = 0 /\ None(rows, look))
<1> DEFINE at == {r \in DOMAIN rows : \E c \in DOMAIN rows[r] : rows[r][c].is = look}
           r  == FirstOf(at)
<1>1. Len(rows) \in Nat /\ DOMAIN rows = 1..Len(rows)
  BY DEF IsSeq
<1>2. CASE at = {}
  BY <1>1, <1>2 DEF Detected, None
<1>3. CASE at # {}
  <2>1. at \in SUBSET Nat
    BY <1>1
  <2>2. r \in at
    BY <1>3, <2>1, FirstIsIn
  <2>3. r \in 1..Len(rows) /\ \E c \in DOMAIN rows[r] : rows[r][c].is = look
    BY <1>1, <2>2
  <2>4. Detected(rows, look) = FirstOf({c \in DOMAIN rows[r] : rows[r][c].is = look})
    BY <1>3 DEF Detected
  <2> HIDE DEF r, at
  <2>5. {c \in DOMAIN rows[r] : rows[r][c].is = look} = {v}
    BY <2>3 DEF OnlyIn
  <2> QED
    BY <2>4, <2>5, FirstOfOne
<1> QED
  BY <1>2, <1>3

LEMMA HeadsOfOne ==
  ASSUME NEW row, NEW words, NEW v \in Nat, \A c \in DOMAIN row : row[c].of \in words => c = v
  PROVE  LastOf(Heads(row, words)) \in {0, v}
<1>1. Heads(row, words) = {} \/ Heads(row, words) = {v}
  BY DEF Heads
<1> QED
  BY <1>1, FirstOfOne

(* What a portal file says *)

LEMMA FirstAndRest ==
  ASSUME NEW s, IsSeq(s), s # <<>>
  PROVE  /\ Len(s) \in Nat \ {0}
         /\ IsSeq(Tail(s)) /\ Len(Tail(s)) = Len(s) - 1
         /\ \A i \in 1..Len(s) - 1 : Tail(s)[i] = s[i + 1]
<1> DEFINE A == {s[i] : i \in 1..Len(s)}
<1>1. s \in Seq(A)
  <2>1. \A i \in 1..Len(s) : s[i] \in A
    OBVIOUS
  <2> HIDE DEF A
  <2> QED
    BY <2>1, SeqOver
<1> HIDE DEF A
<1>2. Len(s) \in Nat /\ Len(s) # 0
  BY <1>1
<1>3. Tail(s) \in Seq(A) /\ Len(Tail(s)) = Len(s) - 1 /\ \A i \in 1..Len(Tail(s)) : Tail(s)[i] = s[i + 1]
  BY <1>1, HeadTailProperties
<1> QED
  BY <1>2, <1>3, SeqOver

\* The rows under the header, if there is one.
PlainRows(rows, v, k, n) == \A i \in 1..Len(rows) : PlainRow(rows[i], v, k, n)

LEMMA BodyIsPlain ==
  ASSUME NEW file, NEW v, NEW k, PortalFile(file, v, k)
  PROVE  /\ IsSeq(Body(file)) /\ PlainRows(Body(file), v, k, Len(file))
         /\ Len(file) \in Nat \ {0}
         /\ IF LooksLikeHeader(file[1])
            THEN /\ Len(Body(file)) = Len(file) - 1
                 /\ \A i \in 1..Len(file) - 1 : Body(file)[i] = file[i + 1]
            ELSE Body(file) = file
<1>1. IsSeq(file) /\ file # <<>> /\ \A r \in 2..Len(file) : PlainRow(file[r], v, k, Len(file))
  BY DEF PortalFile
<1>2. /\ Len(file) \in Nat \ {0}
      /\ IsSeq(Tail(file)) /\ Len(Tail(file)) = Len(file) - 1
      /\ \A i \in 1..Len(file) - 1 : Tail(file)[i] = file[i + 1]
  BY <1>1, FirstAndRest
<1>3. CASE LooksLikeHeader(file[1])
  <2>1. Body(file) = Tail(file)
    BY <1>3 DEF Body
  <2>2. \A i \in 1..Len(file) - 1 : i + 1 \in 2..Len(file)
    BY <1>2
  <2>3. \A i \in 1..Len(file) - 1 : PlainRow(Tail(file)[i], v, k, Len(file))
    BY <1>1, <1>2, <2>2
  <2> QED
    BY <1>2, <1>3, <2>1, <2>3 DEF PlainRows
<1>4. CASE ~LooksLikeHeader(file[1])
  <2>1. Body(file) = file
    BY <1>4 DEF Body
  <2>2. PlainRow(file[1], v, k, Len(file))
    BY <1>4, Zenon DEF PortalFile
  <2>3. \A i \in 1..Len(file) : i = 1 \/ i \in 2..Len(file)
    BY <1>2
  <2>4. PlainRows(file, v, k, Len(file))
    BY <1>1, <2>2, <2>3, Zenon DEF PlainRows
  <2> QED
    BY <1>1, <1>2, <1>4, <2>1, <2>4, Zenon
<1> QED
  BY <1>3, <1>4

\* The columns are the right ones, or there is nothing in them.
RightColumn(rows, look, c, v) == c = v \/ (c = 0 /\ None(rows, look))

LEMMA ColumnsAreRight ==
  ASSUME NEW file, NEW v \in Nat, NEW k \in Nat, PortalFile(file, v, k)
  PROVE  /\ RightColumn(Body(file), "veid", Columns(file).veid, v)
         /\ RightColumn(Body(file), "key", Columns(file).key, k)
<1>1. IsSeq(Body(file)) /\ PlainRows(Body(file), v, k, Len(file))
  BY BodyIsPlain
<1>2. /\ RightColumn(Body(file), "veid", Detected(Body(file), "veid"), v)
      /\ RightColumn(Body(file), "key", Detected(Body(file), "key"), k)
  <2>1. OnlyIn(Body(file), "veid", v) /\ OnlyIn(Body(file), "key", k)
    BY <1>1 DEF OnlyIn, PlainRows, PlainRow
  <2> QED
    BY <1>1, <2>1, DetectedIsRight DEF RightColumn
<1>3. CASE LooksLikeHeader(file[1])
  <2> DEFINE hv == LastOf(Heads(file[1], {"veid", "id"}))
             hk == LastOf(Heads(file[1], {"apikey", "key"}))
  <2>1. hv \in {0, v} /\ hk \in {0, k}
    <3>1. HeaderRow(file[1], v, k)
      BY <1>3, Zenon DEF PortalFile
    <3> QED
      BY <3>1, HeadsOfOne DEF HeaderRow
  <2> HIDE DEF hv, hk
  <2>2. /\ Columns(file).veid = IF hv = 0 \/ hk = 0 THEN Detected(Body(file), "veid") ELSE hv
        /\ Columns(file).key = IF hv = 0 \/ hk = 0 THEN Detected(Body(file), "key") ELSE hk
    BY <1>3 DEF Columns, hv, hk
  <2>3. CASE hv = 0 \/ hk = 0
    BY <1>2, <2>2, <2>3
  <2>4. CASE ~(hv = 0 \/ hk = 0)
    BY <2>1, <2>2, <2>4 DEF RightColumn
  <2> QED
    BY <2>3, <2>4
<1>4. CASE ~LooksLikeHeader(file[1])
  <2>1. /\ Columns(file).veid = Detected(Body(file), "veid")
        /\ Columns(file).key = Detected(Body(file), "key")
    BY <1>4 DEF Columns
  <2> QED
    BY <1>2, <2>1
<1> QED
  BY <1>3, <1>4

\* A row that says no VEID, or no key, has no pair.
LEMMA NoPair ==
  ASSUME NEW row, (\A c \in DOMAIN row : row[c].is # "veid") \/ (\A c \in DOMAIN row : row[c].is # "key")
  PROVE  Pairs(row) = <<>>
BY DEF Pairs

LEMMA HeaderHasNone ==
  ASSUME NEW row, NEW v, NEW k, HeaderRow(row, v, k)
  PROVE  Pairs(row) = <<>>
BY NoPair DEF HeaderRow

\* What is read of a row.
Said(row, cols) == <<row[cols.veid].of, row[cols.key].of>>

LEMMA PairOfRow ==
  ASSUME NEW row, NEW v \in Nat, NEW k \in Nat, NEW n, PlainRow(row, v, k, n),
         NEW cols, cols.veid = v, cols.key = k
  PROVE  Pairs(row) = IF Readable(row, cols) THEN <<Said(row, cols)>> ELSE <<>>
<1> DEFINE veids == {c \in DOMAIN row : row[c].is = "veid"}
           keys  == {c \in DOMAIN row : row[c].is = "key"}
<1>1. /\ \A c \in DOMAIN row : row[c].is = "veid" => c = v
      /\ \A c \in DOMAIN row : row[c].is = "key" => c = k
      /\ k \in DOMAIN row => row[k].is \in {"key", "blank"}
  BY DEF PlainRow
<1>2. /\ veids = IF v \in DOMAIN row /\ row[v].is = "veid" THEN {v} ELSE {}
      /\ keys = IF k \in DOMAIN row /\ row[k].is = "key" THEN {k} ELSE {}
  BY <1>1
<1>3. Readable(row, cols) <=> v \in DOMAIN row /\ row[v].is = "veid" /\ k \in DOMAIN row /\ row[k].is = "key"
  BY <1>1 DEF Readable
<1>4. Pairs(row) = IF veids = {} \/ keys = {} THEN <<>>
                   ELSE << <<row[FirstOf(veids)].of, row[FirstOf(keys)].of>> >>
  BY DEF Pairs
<1> HIDE DEF veids, keys
<1>5. CASE Readable(row, cols)
  <2>1. veids = {v} /\ keys = {k} /\ veids # {} /\ keys # {}
    BY <1>2, <1>3, <1>5
  <2>2. FirstOf(veids) = v /\ FirstOf(keys) = k
    BY <2>1, FirstOfOne
  <2>3. Pairs(row) = << <<row[v].of, row[k].of>> >>
    BY <1>4, <2>1, <2>2
  <2> QED
    BY <1>5, <2>3 DEF Said
<1>6. CASE ~Readable(row, cols)
  BY <1>2, <1>3, <1>4, <1>6
<1> QED
  BY <1>5, <1>6

(* Reading row by row *)

Distinct(read) == \A i, j \in 1..Len(read) : read[i].name = read[j].name => i = j
PairsOf(read)  == [i \in 1..Len(read) |-> <<read[i].server.veid, read[i].server.key>>]
NamesOf(read)  == {read[i].name : i \in 1..Len(read)}

LEMMA NamesCounted ==
  ASSUME NEW read \in Seq(Row)
  PROVE  IsFiniteSet(NamesOf(read)) /\ Cardinality(NamesOf(read)) <= Len(read)
<1> DEFINE f == [i \in 1..Len(read) |-> read[i].name]
<1>1. f \in Surjection(1..Len(read), NamesOf(read))
  BY DEF Surjection, NamesOf
<1>2. Len(read) \in Nat /\ IsFiniteSet(1..Len(read)) /\ Cardinality(1..Len(read)) = Len(read)
  <2>1. 1 \in Int /\ Len(read) \in Int /\ Len(read) \in Nat
    OBVIOUS
  <2>2. /\ IsFiniteSet(1..Len(read))
        /\ Cardinality(1..Len(read)) = IF 1 > Len(read) THEN 0 ELSE Len(read) - 1 + 1
    BY <2>1, FS_Interval
  <2> QED
    BY <2>1, <2>2
<1> HIDE DEF f
<1> QED
  BY <1>1, <1>2, FS_Surjection

LEMMA WantedIsNameable ==
  ASSUME NEW row, NEW v, NEW k, NEW n, PlainRow(row, v, k, n), NEW cols, cols.veid = v, cols.key = k,
         Readable(row, cols)
  PROVE  /\ Nameable(Wanted(row, cols), n)
         /\ row[v].of \in Veid /\ row[k].of \in Key
<1>1. v \in DOMAIN row /\ row[v].is = "veid" /\ k \in DOMAIN row /\ row[k].is = "key"
  BY DEF Readable, PlainRow
<1>2. row[v].of \in Veid /\ Nameable(<<"vps", row[v].of>>, n) /\ row[k].of \in Key
  BY <1>1 DEF PlainRow
<1>3. \A c \in DOMAIN row : row[c].is = "host" /\ row[c].of # Env => Nameable(row[c].of, n)
  BY DEF PlainRow
<1> QED
  BY <1>2, <1>3 DEF Wanted

\* One more server that is read.
LEMMA OneMoreRead ==
  ASSUME NEW read \in Seq(Row), Distinct(read), NEW name \in Name, name \notin NamesOf(read),
         NEW s \in Server
  PROVE  LET more == Append(read, [name |-> name, server |-> s]) IN
           /\ more \in Seq(Row) /\ Len(more) = Len(read) + 1 /\ Distinct(more)
           /\ PairsOf(more) = PairsOf(read) \o << <<s.veid, s.key>> >>
<1> DEFINE row  == [name |-> name, server |-> s]
           more == Append(read, row)
           N    == Len(read)
<1>1. row \in Row /\ row.name = name /\ row.server = s
  BY DEF Row
<1> HIDE DEF row
<1>2. N \in Nat /\ more \in Seq(Row) /\ Len(more) = N + 1
      /\ (\A i \in 1..N : more[i] = read[i]) /\ more[N + 1] = row
  BY <1>1
<1> HIDE DEF more
<1>3. \A i \in 1..N + 1 : i \in 1..N \/ i = N + 1
  BY <1>2
<1>4. \A i \in 1..N : read[i].name \in NamesOf(read)
  BY DEF NamesOf
<1>5. Distinct(more)
  <2> SUFFICES ASSUME NEW i \in 1..N + 1, NEW j \in 1..N + 1, more[i].name = more[j].name
               PROVE  i = j
    BY <1>2 DEF Distinct
  <2>1. CASE i \in 1..N /\ j \in 1..N
    BY <1>2, <2>1 DEF Distinct
  <2>2. CASE i \in 1..N /\ j = N + 1
    BY <1>1, <1>2, <1>4, <2>2
  <2>3. CASE i = N + 1 /\ j \in 1..N
    BY <1>1, <1>2, <1>4, <2>3
  <2> QED
    BY <1>3, <2>1, <2>2, <2>3
<1>6. PairsOf(more) = PairsOf(read) \o << <<s.veid, s.key>> >>
  <2> DEFINE B == {<<read[i].server.veid, read[i].server.key>> : i \in 1..N} \cup { <<s.veid, s.key>> }
  <2>1. PairsOf(read) \in Seq(B) /\ Len(PairsOf(read)) = N
        /\ \A i \in 1..N : PairsOf(read)[i] = <<read[i].server.veid, read[i].server.key>>
    <3>1. PairsOf(read) \in [1..N -> B]
      BY DEF PairsOf
    <3> HIDE DEF B
    <3>2. PairsOf(read) \in Seq(B) /\ Len(PairsOf(read)) = N
      BY <1>2, <3>1
    <3> QED
      BY <3>2 DEF PairsOf
  <2>2. << <<s.veid, s.key>> >> \in Seq(B)
    OBVIOUS
  <2>3. Len(<< <<s.veid, s.key>> >>) = 1 /\ << <<s.veid, s.key>> >>[1] = <<s.veid, s.key>>
    OBVIOUS
  <2> DEFINE both == PairsOf(read) \o << <<s.veid, s.key>> >>
  <2>4. both \in Seq(B) /\ Len(both) = N + 1
        /\ \A i \in 1..N + 1 : both[i] = IF i <= N THEN PairsOf(read)[i] ELSE <<s.veid, s.key>>
    <3> HIDE DEF B
    <3>1. both \in Seq(B) /\ Len(both) = N + 1
          /\ \A i \in 1..N + 1 : both[i] = IF i <= N THEN PairsOf(read)[i]
                                           ELSE << <<s.veid, s.key>> >>[i - N]
      BY <2>1, <2>2, <2>3, ConcatProperties
    <3>2. \A i \in 1..N + 1 : ~(i <= N) => i - N = 1
      BY <1>2
    <3> QED
      BY <2>3, <3>1, <3>2
  <2> HIDE DEF both, B
  <2>5. \A i \in 1..N + 1 : both[i] = <<more[i].server.veid, more[i].server.key>>
    BY <1>1, <1>2, <1>3, <2>1, <2>4
  <2>6. both = [i \in 1..N + 1 |-> both[i]]
    BY <2>4
  <2>7. PairsOf(more) = [i \in 1..N + 1 |-> <<more[i].server.veid, more[i].server.key>>]
    BY <1>2 DEF PairsOf
  <2>8. PairsOf(more) = both
    BY <2>5, <2>6, <2>7
  <2> QED
    BY <2>8 DEF both
<1> QED
  BY <1>2, <1>5, <1>6 DEF more, row

\* One more row.
ReadSoFar(read, n) == read \in Seq(Row) /\ Distinct(read) /\ Len(read) <= n

LEMMA OneMoreRow ==
  ASSUME NEW row, NEW v \in Nat, NEW k \in Nat, NEW rows \in Nat, PlainRow(row, v, k, rows),
         NEW cols, cols.veid = v, cols.key = k,
         NEW read, NEW n \in Nat, n < rows, ReadSoFar(read, n)
  PROVE  /\ ReadSoFar(ParseRow(read, row, cols), n + 1)
         /\ PairsOf(ParseRow(read, row, cols)) = PairsOf(read) \o Pairs(row)
<1>1. read \in Seq(Row) /\ Distinct(read) /\ Len(read) <= n /\ Len(read) \in Nat
  BY DEF ReadSoFar
<1>2. CASE ~Readable(row, cols)
  <2>1. Pairs(row) = <<>>
    BY <1>2, PairOfRow
  <2>2. ParseRow(read, row, cols) = read
    BY <1>2 DEF ParseRow
  <2>3. PairsOf(read) \o <<>> = PairsOf(read)
    <3> DEFINE B == {<<read[i].server.veid, read[i].server.key>> : i \in 1..Len(read)}
    <3>1. PairsOf(read) \in [1..Len(read) -> B]
      BY DEF PairsOf
    <3> HIDE DEF B
    <3>2. PairsOf(read) \in Seq(B)
      BY <1>1, <3>1
    <3> QED
      BY <3>2, ConcatEmptySeq
  <2>4. ReadSoFar(read, n + 1)
    BY <1>1 DEF ReadSoFar
  <2> QED
    BY <2>1, <2>2, <2>3, <2>4
<1>3. CASE Readable(row, cols)
  <2> DEFINE name == FreeName(Wanted(row, cols), NamesOf(read))
             s == [veid |-> row[v].of, key |-> row[k].of, note |-> NoNote]
  <2>1. Nameable(Wanted(row, cols), rows) /\ row[v].of \in Veid /\ row[k].of \in Key
    BY <1>3, WantedIsNameable
  <2>2. IsFiniteSet(NamesOf(read)) /\ Cardinality(NamesOf(read)) < rows
    <3>1. IsFiniteSet(NamesOf(read)) /\ Cardinality(NamesOf(read)) <= Len(read)
      BY <1>1, NamesCounted
    <3>2. Cardinality(NamesOf(read)) \in Nat
      BY <3>1, FS_CardinalityType
    <3> QED
      BY <1>1, <3>1, <3>2
  <2>3. name \in Name \ NamesOf(read)
    BY <2>1, <2>2, FreeNames
  <2>4. s \in Server /\ s.veid = row[v].of /\ s.key = row[k].of
    BY <2>1 DEF Server
  <2>5. ParseRow(read, row, cols) = Append(read, [name |-> name, server |-> s])
    <3>1. DOMAIN read = 1..Len(read)
      BY <1>1
    <3> QED
      BY <1>3, <3>1 DEF ParseRow, NamesOf
  <2> HIDE DEF name, s
  <2>6. Pairs(row) = << <<s.veid, s.key>> >>
    BY <1>3, <2>4, PairOfRow DEF Said
  <2>7. LET more == Append(read, [name |-> name, server |-> s]) IN
          /\ more \in Seq(Row) /\ Len(more) = Len(read) + 1 /\ Distinct(more)
          /\ PairsOf(more) = PairsOf(read) \o << <<s.veid, s.key>> >>
    BY <1>1, <2>3, <2>4, OneMoreRead
  <2>8. PICK more : more = ParseRow(read, row, cols)
    OBVIOUS
  <2>9. /\ more \in Seq(Row) /\ Len(more) = Len(read) + 1 /\ Distinct(more)
        /\ PairsOf(more) = PairsOf(read) \o Pairs(row)
    BY <2>5, <2>6, <2>7, <2>8, Zenon
  <2>10. ReadSoFar(more, n + 1)
    BY <1>1, <2>9 DEF ReadSoFar
  <2> QED
    BY <2>8, <2>9, <2>10, Zenon
<1> QED
  BY <1>2, <1>3

\* The loop as a number of turns, each of them on rows that are read so far.
ReadAt(rows, cols) ==
  [n \in 1..Len(rows) |->
     [read \in Seq(Row) |-> IF ReadSoFar(read, n - 1) THEN ParseRow(read, rows[n], cols) ELSE <<>>]]

LEMMA NothingRead == <<>> \in Seq(Row) /\ ReadSoFar(<<>>, 0) /\ PairsOf(<<>>) = <<>>
<1>1. <<>> \in Seq(Row) /\ Len(<<>>) = 0
  OBVIOUS
<1>2. PairsOf(<<>>) = <<>>
  <2>1. PairsOf(<<>>) \in [1..0 -> {}]
    BY <1>1 DEF PairsOf
  <2>2. PairsOf(<<>>) \in Seq({}) /\ Len(PairsOf(<<>>)) = 0
    BY <2>1
  <2> QED
    BY <2>2
<1> QED
  BY <1>1, <1>2 DEF ReadSoFar, Distinct

LEMMA Reading ==
  ASSUME NEW rows, IsSeq(rows), NEW v \in Nat, NEW k \in Nat, NEW n \in Nat,
         PlainRows(rows, v, k, n), Len(rows) <= n, NEW cols, cols.veid = v, cols.key = k
  PROVE  \E f : /\ f[0] = <<>> /\ f = [m \in 0..Len(rows) |-> f[m]]
                /\ \A m \in 0..Len(rows) : ReadSoFar(f[m], m)
                /\ \A m \in 1..Len(rows) : f[m] = ParseRow(f[m - 1], rows[m], cols)
<1> DEFINE N == Len(rows)
           step == ReadAt(rows, cols)
           A == Seq(Row)
<1>1. N \in Nat /\ \A m \in 1..N : m - 1 \in Nat /\ m - 1 < n /\ m - 1 \in 0..N /\ (m - 1) + 1 = m
  BY DEF IsSeq
<1>2. \A m \in 1..N : PlainRow(rows[m], v, k, n)
  BY DEF PlainRows
<1>3. ASSUME NEW m \in 1..N, NEW read, ReadSoFar(read, m - 1)
      PROVE  ReadSoFar(ParseRow(read, rows[m], cols), m)
  <2>1. ReadSoFar(ParseRow(read, rows[m], cols), (m - 1) + 1)
    BY <1>1, <1>2, <1>3, OneMoreRow
  <2> QED
    BY <1>1, <2>1
<1>4. \A m \in 1..N, read \in A : step[m][read] =
        IF ReadSoFar(read, m - 1) THEN ParseRow(read, rows[m], cols) ELSE <<>>
  BY DEF ReadAt
<1> HIDE DEF step, A
<1>5. StepsIn(step, A, N)
  <2>1. ASSUME NEW m \in 1..N, NEW read \in A
        PROVE  step[m][read] \in A
    <3>1. CASE ReadSoFar(read, m - 1)
      BY <1>3, <1>4, <3>1 DEF ReadSoFar, A
    <3>2. CASE ~ReadSoFar(read, m - 1)
      BY <1>4, <3>2, NothingRead DEF A
    <3> QED
      BY <3>1, <3>2
  <2> QED
    BY <2>1 DEF StepsIn
<1>6. PICK f : RunsAs(f, <<>>, step, A, N)
  <2>1. <<>> \in A
    BY NothingRead DEF A
  <2> HIDE DEF N
  <2> QED
    BY <1>1, <1>5, <2>1, LoopRuns
<1>7. f \in [0..N -> A] /\ f[0] = <<>> /\ \A m \in 1..N : f[m] = step[m][f[m - 1]]
  BY <1>6 DEF RunsAs
<1> DEFINE S == {m \in 0..N : ReadSoFar(f[m], m)}
<1>8. 0 \in S
  BY <1>1, <1>7, NothingRead
<1>9. ASSUME NEW m \in 1..N, ReadSoFar(f[m - 1], m - 1)
      PROVE  f[m] = ParseRow(f[m - 1], rows[m], cols) /\ ReadSoFar(f[m], m)
  <2>1. f[m - 1] \in A
    BY <1>1, <1>7
  <2>2. f[m] = ParseRow(f[m - 1], rows[m], cols)
    BY <1>4, <1>7, <1>9, <2>1
  <2> QED
    BY <1>3, <1>9, <2>2
<1>10. \A m \in 1..N : m - 1 \in S => m \in S
  BY <1>1, <1>9
<1>11. \A m \in 0..N : ReadSoFar(f[m], m)
  <2> HIDE DEF S, N
  <2>1. \A m \in 0..N : m \in S
    BY <1>1, <1>8, <1>10, EveryTurn
  <2> QED
    BY <2>1 DEF S
<1>12. f = [m \in 0..N |-> f[m]]
  BY <1>7
<1> HIDE DEF N
<1>13. \A m \in 1..N : f[m] = ParseRow(f[m - 1], rows[m], cols)
  BY <1>1, <1>9, <1>11
<1> QED
  BY <1>7, <1>11, <1>12, <1>13 DEF N

LEMMA ReadTurns ==
  ASSUME NEW rows, IsSeq(rows), NEW v \in Nat, NEW k \in Nat, NEW n \in Nat,
         PlainRows(rows, v, k, n), Len(rows) <= n, NEW cols, cols.veid = v, cols.key = k
  PROVE  LET read == ReadRows(rows, cols) IN
           /\ read[0] = <<>>
           /\ \A m \in 0..Len(rows) : ReadSoFar(read[m], m)
           /\ \A m \in 1..Len(rows) : PairsOf(read[m]) = PairsOf(read[m - 1]) \o Pairs(rows[m])
<1> DEFINE read == ReadRows(rows, cols)
           N == Len(rows)
           start == <<>>
<1>1. N \in Nat /\ \A m \in 1..N : m - 1 \in Nat /\ m - 1 < n /\ m - 1 \in 0..N /\ (m - 1) + 1 = m
  BY DEF IsSeq
<1>2. \A m \in 1..N : PlainRow(rows[m], v, k, n)
  BY DEF PlainRows
<1>3. \E f : f = [m \in 0..N |-> IF m = 0 THEN start ELSE ParseRow(f[m - 1], rows[m], cols)]
  <2>1. PICK f : /\ f[0] = start /\ f = [m \in 0..N |-> f[m]]
                 /\ \A m \in 1..N : f[m] = ParseRow(f[m - 1], rows[m], cols)
    BY Reading
  <2>2. \A m \in 0..N : m = 0 \/ m \in 1..N
    BY <1>1
  <2> HIDE DEF N, start
  <2>3. \A m \in 0..N : f[m] = IF m = 0 THEN start ELSE ParseRow(f[m - 1], rows[m], cols)
    BY <2>1, <2>2
  <2>4. f = [m \in 0..N |-> IF m = 0 THEN start ELSE ParseRow(f[m - 1], rows[m], cols)]
    BY <2>1, <2>3
  <2> QED
    BY <2>4
<1>4. read = [m \in 0..N |-> IF m = 0 THEN start ELSE ParseRow(read[m - 1], rows[m], cols)]
  BY <1>3 DEF ReadRows
<1> HIDE DEF read, start
<1>5. read[0] = start /\ \A m \in 1..N : read[m] = ParseRow(read[m - 1], rows[m], cols)
  <2>1. 0 \in 0..N /\ \A m \in 1..N : m \in 0..N /\ m # 0
    BY <1>1
  <2> HIDE DEF N
  <2> QED
    BY <1>4, <2>1
<1>6. ASSUME NEW m \in 1..N, ReadSoFar(read[m - 1], m - 1)
      PROVE  ReadSoFar(read[m], m) /\ PairsOf(read[m]) = PairsOf(read[m - 1]) \o Pairs(rows[m])
  <2>1. /\ ReadSoFar(ParseRow(read[m - 1], rows[m], cols), (m - 1) + 1)
        /\ PairsOf(ParseRow(read[m - 1], rows[m], cols)) = PairsOf(read[m - 1]) \o Pairs(rows[m])
    BY <1>1, <1>2, <1>6, OneMoreRow
  <2> QED
    BY <1>1, <1>5, <2>1
<1> DEFINE S == {m \in 0..N : ReadSoFar(read[m], m)}
<1>7. 0 \in S
  BY <1>1, <1>5, NothingRead DEF start
<1>8. \A m \in 1..N : m - 1 \in S => m \in S
  BY <1>1, <1>6
<1>9. \A m \in 0..N : ReadSoFar(read[m], m)
  <2> HIDE DEF S, N
  <2>1. \A m \in 0..N : m \in S
    BY <1>1, <1>7, <1>8, EveryTurn
  <2> QED
    BY <2>1 DEF S
<1> HIDE DEF N
<1>10. \A m \in 1..N : PairsOf(read[m]) = PairsOf(read[m - 1]) \o Pairs(rows[m])
  BY <1>1, <1>6, <1>9
<1> QED
  BY <1>5, <1>9, <1>10 DEF read, N, start

(* What ParseCSV returns *)

Flat(seqs) == SeqOps!FlattenSeq(seqs)

Joins(g, seqs, N) ==
  N \in Nat \ {0} /\ Len(seqs) = N /\ g[1] = seqs[1] /\ \A m \in 2..N : g[m] = g[m - 1] \o seqs[m]

LEMMA Flattened ==
  ASSUME NEW N, NEW seqs, NEW g, Joins(g, seqs, N)
  PROVE  Flat(seqs) = g[N]
<1> USE DEF Joins
<1>1. \A m \in 1..N : m = 1 \/ (m \in 2..N /\ m - 1 \in 1..N /\ m # 1)
  OBVIOUS
<1>2. PICK flat :
        /\ flat = [i \in 1..N |-> IF i = 1 THEN seqs[i] ELSE flat[i - 1] \o seqs[i]]
        /\ Flat(seqs) = flat[N]
  <2> DEFINE f == [i \in 1..N |-> g[i]]
             flat == CHOOSE h : h = [i \in 1..N |-> IF i = 1 THEN seqs[i] ELSE h[i - 1] \o seqs[i]]
  <2>1. f = [i \in 1..N |-> IF i = 1 THEN seqs[i] ELSE f[i - 1] \o seqs[i]]
    <3>1. \A i \in 1..N : f[i] = IF i = 1 THEN seqs[i] ELSE f[i - 1] \o seqs[i]
      BY <1>1
    <3> QED
      BY <3>1
  <2>2. flat = [i \in 1..N |-> IF i = 1 THEN seqs[i] ELSE flat[i - 1] \o seqs[i]]
    <3> HIDE DEF f
    <3> QED
      BY <2>1, Zenon
  <2>3. Flat(seqs) = flat[N]
    <3>1. Len(seqs) # 0
      OBVIOUS
    <3> QED
      BY <3>1, Zenon DEF Flat, SeqOps!FlattenSeq
  <2> HIDE DEF flat
  <2> QED
    BY <2>2, <2>3, Zenon
<1> DEFINE S == {m \in 0..N : m # 0 => flat[m] = g[m]}
<1>3. 0 \in S
  OBVIOUS
<1>4. ASSUME NEW m \in 1..N, m - 1 \in S
      PROVE  m \in S
  <2>1. flat[m] = IF m = 1 THEN seqs[m] ELSE flat[m - 1] \o seqs[m]
    BY <1>2
  <2>2. m # 1 => flat[m - 1] = g[m - 1]
    BY <1>4
  <2>3. flat[m] = g[m]
    BY <1>1, <2>1, <2>2
  <2> QED
    BY <2>3
<1>5. N \in S
  <2> HIDE DEF S
  <2>1. \A m \in 0..N : m \in S
    BY <1>3, <1>4, EveryTurn
  <2> QED
    BY <2>1
<1> QED
  BY <1>2, <1>5

LEMMA NothingBefore ==
  ASSUME NEW row
  PROVE  <<>> \o Pairs(row) = Pairs(row) /\ <<>> \o <<>> = <<>>
<1>1. PICK x : Pairs(row) = <<>> \/ Pairs(row) = <<x>>
  BY DEF Pairs
<1>2. <<>> \in Seq({x}) /\ <<x>> \in Seq({x})
  OBVIOUS
<1> QED
  BY <1>1, <1>2, ConcatEmptySeq

PairsOfRows(file) == [r \in DOMAIN file |-> Pairs(file[r])]

LEMMA PairsCounted ==
  ASSUME NEW file, IsSeq(file)
  PROVE  /\ Len(PairsOfRows(file)) = Len(file)
         /\ \A r \in 1..Len(file) : PairsOfRows(file)[r] = Pairs(file[r])
<1> DEFINE A == {Pairs(file[r]) : r \in 1..Len(file)}
           N == Len(file)
           all == PairsOfRows(file)
<1>1. N \in Nat /\ DOMAIN file = 1..N
  BY DEF IsSeq
<1>2. \A r \in 1..N : Pairs(file[r]) \in A
  OBVIOUS
<1>3. all = [r \in 1..N |-> Pairs(file[r])]
  BY <1>1 DEF PairsOfRows
<1> HIDE DEF A, all, N
<1>4. all \in [1..N -> A]
  BY <1>2, <1>3
<1>5. all \in Seq(A) /\ Len(all) = N
  BY <1>1, <1>4
<1> QED
  BY <1>3, <1>5 DEF all, N

\* All its rows, and their pairs in order.
LEMMA CsvIsRead ==
  ASSUME NEW file, NEW v \in Nat, NEW k \in Nat, PortalFile(file, v, k)
  PROVE  /\ ParseCSV(file) \in Seq(Row) /\ Distinct(ParseCSV(file))
         /\ PairsOf(ParseCSV(file)) = Flat(PairsOfRows(file))
<1> DEFINE cols == Columns(file)
           rows == Body(file)
           N == Len(file)
           all == PairsOfRows(file)
           headed == LooksLikeHeader(file[1])
           read == ReadRows(rows, cols)
<1>1. /\ IsSeq(rows) /\ PlainRows(rows, v, k, N) /\ N \in Nat \ {0}
      /\ IF headed
         THEN Len(rows) = N - 1 /\ \A i \in 1..N - 1 : rows[i] = file[i + 1]
         ELSE rows = file
  BY BodyIsPlain
<1>2. RightColumn(rows, "veid", cols.veid, v) /\ RightColumn(rows, "key", cols.key, k)
  BY ColumnsAreRight
<1>3. Len(all) = N /\ \A r \in 1..N : all[r] = Pairs(file[r])
  <2>1. IsSeq(file)
    BY DEF PortalFile
  <2> QED
    BY <2>1, PairsCounted
<1>4. headed => Pairs(file[1]) = <<>>
  BY HeaderHasNone, Zenon DEF PortalFile
<1>5. ParseCSV(file) = IF cols.veid = 0 \/ cols.key = 0 THEN <<>> ELSE read[Len(rows)]
  BY DEF ParseCSV
<1>6. Len(rows) \in Nat /\ Len(rows) <= N /\ (headed => Len(rows) = N - 1) /\ (~headed => Len(rows) = N)
  BY <1>1
<1> HIDE DEF cols, rows, N, all, headed, read
<1>7. CASE cols.veid = 0 \/ cols.key = 0
  <2>1. \A i \in 1..Len(rows) : Pairs(rows[i]) = <<>>
    <3> SUFFICES ASSUME NEW i \in 1..Len(rows)
                 PROVE  Pairs(rows[i]) = <<>>
      OBVIOUS
    <3>0. PlainRow(rows[i], v, k, N)
      BY <1>1 DEF PlainRows
    <3>1. 0 \notin DOMAIN rows[i]
      BY <3>0 DEF PlainRow, IsSeq
    <3>2. CASE cols.veid = 0
      <4>1. \A c \in DOMAIN rows[i] : rows[i][c].is # "veid"
        BY <1>2, <3>0, <3>1, <3>2 DEF RightColumn, None, PlainRow
      <4> QED
        BY <4>1, NoPair
    <3>3. CASE cols.key = 0
      <4>1. \A c \in DOMAIN rows[i] : rows[i][c].is # "key"
        BY <1>2, <3>0, <3>1, <3>3 DEF RightColumn, None, PlainRow
      <4> QED
        BY <4>1, NoPair
    <3> QED
      BY <1>7, <3>2, <3>3
  <2>2. \A r \in 1..N : all[r] = <<>>
    <3>1. CASE headed
      <4>1. \A r \in 1..N : r = 1 \/ (r - 1 \in 1..N - 1 /\ (r - 1) + 1 = r)
        BY <1>1
      <4>2. \A i \in 1..N - 1 : Pairs(file[i + 1]) = <<>>
        BY <1>1, <1>6, <2>1, <3>1
      <4> QED
        BY <1>3, <1>4, <3>1, <4>1, <4>2
    <3>2. CASE ~headed
      BY <1>1, <1>3, <1>6, <2>1, <3>2
    <3> QED
      BY <3>1, <3>2
  <2> DEFINE g == [m \in 1..N |-> <<>>]
  <2>3. Flat(all) = g[N]
    <3>1. 1 \in 1..N /\ \A m \in 2..N : m \in 1..N /\ m - 1 \in 1..N
      BY <1>1
    <3>2. g[1] = all[1] /\ \A m \in 2..N : g[m] = g[m - 1] \o all[m]
      BY <2>2, <3>1, NothingBefore
    <3> HIDE DEF g
    <3>3. Joins(g, all, N)
      BY <1>1, <1>3, <3>2 DEF Joins
    <3> QED
      BY <3>3, Flattened
  <2>4. g[N] = <<>>
    BY <1>1
  <2>5. ParseCSV(file) = <<>>
    BY <1>5, <1>7
  <2> QED
    BY <2>3, <2>4, <2>5, NothingRead DEF ReadSoFar, all
<1>8. CASE ~(cols.veid = 0 \/ cols.key = 0)
  <2>1. cols.veid = v /\ cols.key = k
    BY <1>2, <1>8 DEF RightColumn
  <2>2. /\ read[0] = <<>>
        /\ \A m \in 0..Len(rows) : ReadSoFar(read[m], m)
        /\ \A m \in 1..Len(rows) : PairsOf(read[m]) = PairsOf(read[m - 1]) \o Pairs(rows[m])
    BY <1>1, <1>6, <2>1, ReadTurns DEF read
  <2>3. ReadSoFar(read[Len(rows)], Len(rows)) /\ ParseCSV(file) = read[Len(rows)]
    BY <1>5, <1>6, <1>8, <2>2
  <2>4. PairsOf(read[Len(rows)]) = Flat(all)
    <3>1. CASE headed
      <4> DEFINE g == [m \in 1..N |-> PairsOf(read[m - 1])]
      <4>1. 1 \in 1..N /\ N \in 1..N /\ 1 - 1 = 0
            /\ \A m \in 2..N : m \in 1..N /\ m - 1 \in 1..N /\ m - 1 \in 1..N - 1 /\ (m - 1) + 1 = m
        BY <1>1
      <4>2. g[1] = all[1]
        BY <1>3, <1>4, <2>2, <3>1, <4>1, NothingRead
      <4>3. ASSUME NEW m \in 2..N
            PROVE  g[m] = g[m - 1] \o all[m]
        <5>1. all[m] = Pairs(rows[m - 1])
          BY <1>1, <1>3, <3>1, <4>1
        <5>2. PairsOf(read[m - 1]) = PairsOf(read[(m - 1) - 1]) \o Pairs(rows[m - 1])
          BY <1>6, <2>2, <3>1, <4>1
        <5> QED
          BY <4>1, <5>1, <5>2
      <4>4. g[N] = PairsOf(read[Len(rows)])
        BY <1>6, <3>1, <4>1
      <4> HIDE DEF g
      <4>5. Flat(all) = g[N]
        <5>1. Joins(g, all, N)
          BY <1>1, <1>3, <4>2, <4>3 DEF Joins
        <5> QED
          BY <5>1, Flattened
      <4> QED
        BY <4>4, <4>5
    <3>2. CASE ~headed
      <4> DEFINE g == [m \in 1..N |-> PairsOf(read[m])]
      <4>1. 1 \in 1..N /\ N \in 1..N /\ 1 - 1 = 0 /\ \A m \in 2..N : m \in 1..N /\ m - 1 \in 1..N
        BY <1>1
      <4>2. \A m \in 1..N : all[m] = Pairs(rows[m])
        BY <1>1, <1>3, <3>2
      <4>3. g[1] = all[1]
        <5>1. PairsOf(read[1]) = PairsOf(read[1 - 1]) \o Pairs(rows[1])
          BY <1>6, <2>2, <3>2, <4>1
        <5>2. PairsOf(read[1]) = <<>> \o Pairs(rows[1])
          BY <2>2, <4>1, <5>1, NothingRead
        <5> QED
          BY <4>1, <4>2, <5>2, NothingBefore
      <4>4. ASSUME NEW m \in 2..N
            PROVE  g[m] = g[m - 1] \o all[m]
        BY <1>6, <2>2, <3>2, <4>1, <4>2
      <4>5. g[N] = PairsOf(read[Len(rows)])
        BY <1>6, <3>2, <4>1
      <4> HIDE DEF g
      <4>6. Flat(all) = g[N]
        <5>1. Joins(g, all, N)
          BY <1>1, <1>3, <4>3, <4>4 DEF Joins
        <5> QED
          BY <5>1, Flattened
      <4> QED
        BY <4>5, <4>6
    <3> QED
      BY <3>1, <3>2
  <2> QED
    BY <2>3, <2>4 DEF ReadSoFar, all
<1> QED
  BY <1>7, <1>8

LEMMA PortalColumns ==
  ASSUME NEW file, IsPortalFile(file)
  PROVE  \E v, k \in Nat : PortalFile(file, v, k)
<1>1. PICK v, k \in {0} \cup UNION {DOMAIN file[r] : r \in DOMAIN file} : PortalFile(file, v, k)
  BY DEF IsPortalFile
<1>2. IsSeq(file) /\ file # <<>>
  BY <1>1 DEF PortalFile
<1>3. DOMAIN file = 1..Len(file) /\ Len(file) \in Nat
  BY <1>2 DEF IsSeq
<1>4. \A r \in 1..Len(file) : IsSeq(file[r])
  <2>1. IsSeq(file[1])
    <3>1. HeaderRow(file[1], v, k) \/ PlainRow(file[1], v, k, Len(file))
      BY <1>1, Zenon DEF PortalFile
    <3> QED
      BY <3>1, Zenon DEF HeaderRow, PlainRow
  <2>2. \A r \in 2..Len(file) : IsSeq(file[r])
    BY <1>1, Zenon DEF PortalFile, PlainRow
  <2>3. \A r \in 1..Len(file) : r = 1 \/ r \in 2..Len(file)
    BY <1>3
  <2> QED
    BY <2>1, <2>2, <2>3, Zenon
<1>5. \A r \in 1..Len(file) : DOMAIN file[r] \subseteq Nat
  <2> SUFFICES ASSUME NEW r \in 1..Len(file)
               PROVE  DOMAIN file[r] \subseteq Nat
    OBVIOUS
  <2>1. PICK row : row = file[r]
    OBVIOUS
  <2>2. IsSeq(row)
    BY <1>4, <2>1
  <2>3. DOMAIN row = 1..Len(row) /\ Len(row) \in Nat
    BY <2>2 DEF IsSeq
  <2> QED
    BY <2>1, <2>3
<1>6. v \in Nat /\ k \in Nat
  BY <1>3, <1>5
<1> QED
  BY <1>1, <1>6

LEMMA ReadOfPortal ==
  ASSUME NEW file, IsPortalFile(file)
  PROVE  /\ ParseCSV(file) \in Seq(Row) /\ Distinct(ParseCSV(file))
         /\ EveryPairIsRead(file) /\ NamesAreDistinct(file)
<1>1. PICK v \in Nat, k \in Nat : PortalFile(file, v, k)
  BY PortalColumns
<1>2. /\ ParseCSV(file) \in Seq(Row) /\ Distinct(ParseCSV(file))
      /\ PairsOf(ParseCSV(file)) = Flat(PairsOfRows(file))
  BY <1>1, CsvIsRead
<1>3. DOMAIN ParseCSV(file) = 1..Len(ParseCSV(file))
  BY <1>2
<1>4. NamesAreDistinct(file)
  BY <1>2, <1>3 DEF NamesAreDistinct, Distinct
<1>5. EveryPairIsRead(file)
  <2>1. [i \in DOMAIN ParseCSV(file) |-> <<ParseCSV(file)[i].server.veid, ParseCSV(file)[i].server.key>>]
          = PairsOf(ParseCSV(file))
    BY <1>3 DEF PairsOf
  <2>2. SeqOps!FlattenSeq([r \in DOMAIN file |-> Pairs(file[r])]) = Flat(PairsOfRows(file))
    BY Zenon DEF Flat, PairsOfRows
  <2> QED
    BY <1>2, <2>1, <2>2, Zenon DEF EveryPairIsRead
<1> QED
  BY <1>2, <1>4, <1>5

LEMMA OnlyClashes ==
  ASSUME NEW c \in Config, NEW file, IsPortalFile(file)
  PROVE  OnlyClashesAreLeftOut(c, file)
<1> DEFINE read == ParseCSV(file)
           tally == ImportRows(c, read, FALSE)[Len(read)]
           done == tally.cfg
<1>1. read \in Seq(Row) /\ Distinct(read) /\ DOMAIN read = 1..Len(read)
  <2>1. read \in Seq(Row) /\ Distinct(read)
    BY ReadOfPortal
  <2> QED
    BY <2>1
<1>2. tally \in Tally /\ Grown(c, tally) /\ \A n \in 1..Len(read) : Skipped(tally, read[n])
  BY <1>1, ImportGrows
<1>3. Sourced(c, done, read, Len(read))
  BY <1>1, ImportSources
<1>4. Import(c, read, FALSE, FALSE).cfg = done
  BY DEF Import
<1> HIDE DEF read, tally
<1>5. /\ tally.known = Veids(done) /\ Names(c) \subseteq Names(done)
      /\ \A n \in Names(c) : done.servers[n] = c.servers[n]
  BY <1>2 DEF Grown, GrownTo
<1>6. \A n \in Names(done) : done.servers[n].veid \in Veids(done)
  BY DEF Veids
<1> HIDE DEF done
<1>7. ASSUME NEW i \in 1..Len(read), read[i].server.veid \notin Veids(done)
      PROVE  read[i].name \in Names(c) /\ c.servers[read[i].name].veid # read[i].server.veid
  <2>1. read[i].name \in Names(done)
    BY <1>2, <1>5, <1>7 DEF Skipped, done
  <2>2. read[i].name \in Names(c)
    <3> SUFFICES ASSUME read[i].name \notin Names(c)
                 PROVE  FALSE
      OBVIOUS
    <3>1. PICK j \in 1..Len(read) : read[j].name = read[i].name /\ read[j].server = done.servers[read[i].name]
      BY <1>3, <2>1 DEF Sourced
    <3>2. j = i
      BY <1>1, <3>1 DEF Distinct
    <3> QED
      BY <1>6, <1>7, <2>1, <3>1, <3>2
  <2> QED
    BY <1>5, <1>6, <1>7, <2>1, <2>2
<1>8. \A n \in Names(done) \ Names(c) : \E i \in 1..Len(read) : read[i].server = done.servers[n]
  BY <1>3, Zenon DEF Sourced
<1>9. \A i \in 1..Len(read) :
        \/ read[i].server.veid \in Veids(done)
        \/ read[i].name \in Names(c) /\ c.servers[read[i].name].veid # read[i].server.veid
  BY <1>7, Zenon
<1> QED
  BY <1>1, <1>4, <1>5, <1>8, <1>9, Zenon DEF OnlyClashesAreLeftOut, read

----------------------------------------------------------------------------
(* Releases: versions *)

\* ParseSemver gives three integers, whatever the tag.
LEMMA Parsed ==
  ASSUME NEW v \in Version, NEW i \in 1..3
  PROVE  ParseSemver(v)[i] \in Int
<1>1. i > Len(v) \/ i \in 1..Len(v)
  BY DEF Version
<1>2. ASSUME i \in 1..Len(v), v[i] # Other
      PROVE  v[i] \in Int
  <2>1. v[i] \in Number \cup {Other}
    BY <1>2 DEF Version
  <2> QED
    BY <2>1, <1>2, ReleasesAssumption
<1> QED
  BY <1>1, <1>2 DEF ParseSemver

\* None is newer than itself, and what is newer than a newer one is newer, and
\* not older.
LEMMA NewerLeadsUp ==
  ASSUME NEW a \in Version, NEW b \in Version, NEW c \in Version
  PROVE  UpdatesLeadUp(a, b, c)
<1>1. /\ ParseSemver(a)[1] \in Int /\ ParseSemver(a)[2] \in Int /\ ParseSemver(a)[3] \in Int
      /\ ParseSemver(b)[1] \in Int /\ ParseSemver(b)[2] \in Int /\ ParseSemver(b)[3] \in Int
      /\ ParseSemver(c)[1] \in Int /\ ParseSemver(c)[2] \in Int /\ ParseSemver(c)[3] \in Int
  <2>1. 1 \in 1..3 /\ 2 \in 1..3 /\ 3 \in 1..3
    OBVIOUS
  <2> QED
    BY <2>1, Parsed
<1>2. ~Newer(a, a)
  BY <1>1 DEF Newer
<1>3. Newer(a, b) /\ Newer(b, c) => Newer(a, c) /\ ~Newer(c, a)
  BY <1>1 DEF Newer
<1> QED
  BY <1>2, <1>3 DEF UpdatesLeadUp

----------------------------------------------------------------------------
(* UsageWindow: the days, the rows, the window *)

\* The days of some samples are in order, each once, and the n-th has n - 1
\* before it.
LEMMA DaysInOrder ==
  ASSUME NEW dates \in SUBSET Int, IsFiniteSet(dates)
  PROVE  /\ Cardinality(dates) \in Nat
         /\ \A n \in 1..Cardinality(dates) :
              /\ Days(dates)[n] \in dates
              /\ Cardinality({d \in dates : d < Days(dates)[n]}) = n - 1
         /\ \A d \in dates : \E n \in 1..Cardinality(dates) : d = Days(dates)[n]
         /\ \A m, n \in 1..Cardinality(dates) : m # n => Days(dates)[m] # Days(dates)[n]
<1> DEFINE N == Cardinality(dates)
<1>1. PICK before : before = {p \in dates \X dates : p[1] < p[2]}
  OBVIOUS
<1>2. \A d, e : <<d, e>> \in before <=> d \in dates /\ e \in dates /\ d < e
  BY <1>1
<1>3. IsOrder(dates, before)
  BY <1>2 DEF IsOrder
<1>4. PICK sorted : sorted = Sorted(dates, before)
  OBVIOUS
<1>5. Days(dates) = sorted
  BY <1>1, <1>4 DEF Days
<1>6. /\ N \in Nat
      /\ \A n \in 1..N : sorted[n] \in dates /\ Cardinality(Ahead(dates, before, sorted[n])) = n - 1
      /\ \A d \in dates : \E n \in 1..N : d = sorted[n]
      /\ \A m, n \in 1..N : m < n => <<sorted[m], sorted[n]>> \in before
  BY <1>3, <1>4, EachHasItsPlace
<1> HIDE DEF N
<1>7. \A n \in 1..N : Ahead(dates, before, sorted[n]) = {d \in dates : d < sorted[n]}
  BY <1>2, <1>6 DEF Ahead
<1>8. \A m, n \in 1..N : m # n => sorted[m] # sorted[n]
  <2> SUFFICES ASSUME NEW m \in 1..N, NEW n \in 1..N, m # n
               PROVE  sorted[m] # sorted[n]
    OBVIOUS
  <2>1. m < n \/ n < m
    BY <1>6
  <2> QED
    BY <1>2, <1>6, <2>1
<1>9. \A n \in 1..N : sorted[n] \in dates /\ Cardinality({d \in dates : d < sorted[n]}) = n - 1
  BY <1>6, <1>7
<1> QED
  BY <1>5, <1>6, <1>8, <1>9 DEF N

\* There are finitely many days.
LEMMA DatesAre ==
  ASSUME NEW w \in Seq(Sample)
  PROVE  Dates(w) \in SUBSET Int /\ IsFiniteSet(Dates(w))
<1> DEFINE N == Len(w)
           f == [n \in 1..N |-> w[n].day]
<1>1. N \in Nat /\ DOMAIN w = 1..N /\ \A n \in 1..N : w[n].day \in Int
  <2>1. N \in Nat /\ DOMAIN w = 1..N /\ \A n \in 1..N : w[n] \in Sample
    OBVIOUS
  <2> QED
    BY <2>1 DEF Sample
<1>2. Dates(w) \in SUBSET Int
  BY <1>1 DEF Dates
<1>3. f \in [1..N -> Dates(w)] /\ \A d \in Dates(w) : \E n \in 1..N : f[n] = d
  BY <1>1 DEF Dates
<1>4. f \in Surjection(1..N, Dates(w))
  BY <1>3 DEF Surjection
<1>5. IsFiniteSet(1..N)
  BY <1>1, FS_Interval
<1> QED
  BY <1>2, <1>4, <1>5, FS_Surjection

\* The samples of some days are the samples of those days and no others.
LEMMA SamplesOf ==
  ASSUME NEW w \in Seq(Sample), NEW days
  PROVE  /\ Of(w, days) \in Seq(Sample)
         /\ \A i \in 1..Len(Of(w, days)) :
              Of(w, days)[i].day \in days /\ Of(w, days)[i] \in Lists!Range(w)
         /\ \A n \in 1..Len(w) : w[n].day \in days => \E i \in 1..Len(Of(w, days)) : Of(w, days)[i] = w[n]
<1> DEFINE wanted == {s \in Lists!Range(w) : s.day \in days}
           of == Of(w, days)
<1>1. of \in Seq(Sample) /\ KeptSoFar(w, wanted, Len(w), of)
  BY KeptIs, Zenon DEF Of
<1>2. \A n \in 1..Len(w) : w[n] \in Lists!Range(w)
  BY DEF Lists!Range
<1>3. \A s \in wanted : s.day \in days /\ s \in Lists!Range(w)
  OBVIOUS
<1>4. \A n \in 1..Len(w) : w[n].day \in days => w[n] \in wanted
  BY <1>2
<1> HIDE DEF of, wanted
<1>5. \A i \in 1..Len(of) : of[i] \in wanted
  BY <1>1 DEF KeptSoFar
<1>6. \A n \in 1..Len(w) : w[n] \in wanted => \E i \in 1..Len(of) : of[i] = w[n]
  BY <1>1 DEF KeptSoFar
<1> QED
  BY <1>1, <1>3, <1>4, <1>5, <1>6 DEF of

\* Of a list of samples: their figures.
LEMMA FiguresOf ==
  ASSUME NEW s \in Seq(Sample)
  PROVE  /\ Bytes(s) \in Seq(Int) /\ Loads(s) \in Seq(Int) /\ Len(Loads(s)) = Len(s)
         /\ \A i \in 1..Len(s) : Loads(s)[i] = s[i].cpu
         /\ Len(Bytes(s)) = Len(s) /\ \A i \in 1..Len(s) : Bytes(s)[i] = s[i].bytes
         /\ \A x \in Sample : SumOf(Bytes(Append(s, x))) = SumOf(Bytes(s)) + x.bytes
<1> DEFINE N == Len(s)
<1>1. N \in Nat /\ DOMAIN s = 1..N /\ \A i \in 1..N : s[i] \in Sample
  OBVIOUS
<1>2. \A i \in 1..N : s[i].bytes \in Int /\ s[i].cpu \in Int
  BY <1>1 DEF Sample
<1>3. PICK b : b = Bytes(s)
  OBVIOUS
<1>4. PICK l : l = Loads(s)
  OBVIOUS
<1>5. b = [i \in 1..N |-> s[i].bytes] /\ l = [i \in 1..N |-> s[i].cpu]
  BY <1>1, <1>3, <1>4 DEF Bytes, Loads
<1>6. b \in [1..N -> Int] /\ l \in [1..N -> Int]
  BY <1>2, <1>5
<1>7. b \in Seq(Int) /\ l \in Seq(Int)
  <2> HIDE DEF N
  <2> QED
    BY <1>1, <1>6, SeqDef
<1>8. Len(b) = N /\ Len(l) = N
  BY <1>1, <1>6, <1>7
<1>9. ASSUME NEW x \in Sample
      PROVE  SumOf(Bytes(Append(s, x))) = SumOf(b) + x.bytes
  <2>1. x.bytes \in Int
    BY DEF Sample
  <2>2. PICK t : t = Append(s, x) /\ t \in Seq(Sample)
    <3>1. Append(s, x) \in Seq(Sample)
      OBVIOUS
    <3> QED
      BY <3>1, Zenon
  <2>3. /\ DOMAIN t = 1..(N + 1) /\ t[N + 1] = x
        /\ \A i \in 1..N : t[i] = s[i]
    BY <2>2
  <2>4. PICK c : c = Bytes(t)
    OBVIOUS
  <2>5. c = [i \in 1..(N + 1) |-> t[i].bytes]
    BY <2>3, <2>4 DEF Bytes
  <2>6. c = Append(b, x.bytes)
    <3>1. PICK a : a = Append(b, x.bytes) /\ a \in Seq(Int)
      <4>1. Append(b, x.bytes) \in Seq(Int)
        BY <1>7, <2>1
      <4> QED
        BY <4>1, Zenon
    <3>2. /\ a = [i \in 1..(N + 1) |-> a[i]] /\ a[N + 1] = x.bytes
          /\ \A i \in 1..N : a[i] = b[i]
      BY <1>1, <1>7, <1>8, <2>1, <3>1
    <3>3. \A i \in 1..(N + 1) : i = N + 1 \/ i \in 1..N
      BY <1>1
    <3>4. \A i \in 1..(N + 1) : t[i].bytes = a[i]
      BY <1>5, <2>3, <3>2, <3>3
    <3> QED
      BY <2>5, <3>1, <3>2, <3>4
  <2> QED
    BY <1>7, <2>1, <2>2, <2>4, <2>6, SumOfMore
<1> QED
  BY <1>1, <1>3, <1>4, <1>5, <1>7, <1>8, <1>9

\* Each turn of keeping adds a sample that is wanted.
LEMMA FigureTurn ==
  ASSUME NEW w \in Seq(Sample), NEW wanted
  PROVE  /\ \A n \in 0..Len(w) :
              SumOf(Bytes(KeptAfter(w, wanted)[n])) \in Int /\ Len(KeptAfter(w, wanted)[n]) \in Nat
         /\ SumOf(Bytes(KeptAfter(w, wanted)[0])) = 0 /\ Len(KeptAfter(w, wanted)[0]) = 0
         /\ \A n \in 1..Len(w) :
              /\ w[n] \in wanted =>
                   /\ SumOf(Bytes(KeptAfter(w, wanted)[n])) = SumOf(Bytes(KeptAfter(w, wanted)[n - 1])) + w[n].bytes
                   /\ Len(KeptAfter(w, wanted)[n]) = Len(KeptAfter(w, wanted)[n - 1]) + 1
              /\ w[n] \notin wanted => KeptAfter(w, wanted)[n] = KeptAfter(w, wanted)[n - 1]
<1> DEFINE N == Len(w)
           after == KeptAfter(w, wanted)
<1>1. /\ after \in [0..N -> Seq(Sample)] /\ after[0] = <<>>
      /\ \A n \in 1..N :
           /\ n - 1 \in 0..N /\ w[n] \in Sample
           /\ after[n] = IF w[n] \in wanted THEN Append(after[n - 1], w[n]) ELSE after[n - 1]
  BY KeptTurn
<1> HIDE DEF after
<1>2. \A n \in 0..N : SumOf(Bytes(after[n])) \in Int /\ Len(after[n]) \in Nat
  <2> SUFFICES ASSUME NEW n \in 0..N
               PROVE  SumOf(Bytes(after[n])) \in Int /\ Len(after[n]) \in Nat
    OBVIOUS
  <2>1. PICK s \in Seq(Sample) : s = after[n]
    BY <1>1
  <2>2. PICK b : b = Bytes(s) /\ b \in Seq(Int)
    BY FiguresOf
  <2>3. SumOf(b) \in Int
    <3>1. Len(b) \in Nat
      BY <2>2
    <3>2. SumAfter(b) \in [0..Len(b) -> Int] /\ SumOf(b) = SumAfter(b)[Len(b)]
      BY <2>2, SumTurn
    <3> QED
      BY <3>1, <3>2
  <2> QED
    BY <2>1, <2>2, <2>3
<1>3. SumOf(Bytes(after[0])) = 0 /\ Len(after[0]) = 0
  <2>1. PICK s : s = <<>> /\ s \in Seq(Sample) /\ Len(s) = 0
    BY EmptySeq
  <2>2. Bytes(s) \in Seq(Int) /\ Len(Bytes(s)) = 0
    BY <2>1, FiguresOf
  <2>3. Bytes(s) = <<>>
    BY <2>2
  <2> QED
    BY <1>1, <2>1, <2>3, SumOfNothing
<1>4. ASSUME NEW n \in 1..N
      PROVE  /\ w[n] \in wanted =>
                  /\ SumOf(Bytes(after[n])) = SumOf(Bytes(after[n - 1])) + w[n].bytes
                  /\ Len(after[n]) = Len(after[n - 1]) + 1
             /\ w[n] \notin wanted => after[n] = after[n - 1]
  <2>1. n - 1 \in 0..N /\ w[n] \in Sample /\ after[n - 1] \in Seq(Sample)
    BY <1>1
  <2>2. ASSUME w[n] \in wanted
        PROVE  /\ SumOf(Bytes(after[n])) = SumOf(Bytes(after[n - 1])) + w[n].bytes
               /\ Len(after[n]) = Len(after[n - 1]) + 1
    <3>1. after[n] = Append(after[n - 1], w[n])
      BY <1>1, <2>2
    <3>2. SumOf(Bytes(Append(after[n - 1], w[n]))) = SumOf(Bytes(after[n - 1])) + w[n].bytes
      BY <2>1, FiguresOf
    <3>3. Len(Append(after[n - 1], w[n])) = Len(after[n - 1]) + 1
      BY <2>1
    <3> QED
      BY <3>1, <3>2, <3>3, Zenon
  <2>3. w[n] \notin wanted => after[n] = after[n - 1]
    BY <1>1
  <2> QED
    BY <2>2, <2>3
<1> QED
  BY <1>2, <1>3, <1>4, Zenon DEF after

\* The samples of the i-th day.
WantedOn(w, i) == {s \in Lists!Range(w) : s.day \in {Days(Dates(w))[i]}}

\* Each sample is wanted on one day, that of its row.
LEMMA OneRowEach ==
  ASSUME NEW w \in Seq(Sample)
  PROVE  \E row \in [1..Len(w) -> 1..Cardinality(Dates(w))] :
           \A n \in 1..Len(w), i \in 1..Cardinality(Dates(w)) : w[n] \in WantedOn(w, i) <=> i = row[n]
<1> DEFINE N == Len(w)
           K == Cardinality(Dates(w))
           row == [n \in 1..N |-> CHOOSE i \in 1..K : Days(Dates(w))[i] = w[n].day]
<1>1. N \in Nat /\ DOMAIN w = 1..N
  OBVIOUS
<1>2. /\ \A d \in Dates(w) : \E i \in 1..K : d = Days(Dates(w))[i]
      /\ \A i, j \in 1..K : i # j => Days(Dates(w))[i] # Days(Dates(w))[j]
  BY DatesAre, DaysInOrder
<1>3. PICK day : day = Days(Dates(w))
  OBVIOUS
<1>4. \A n \in 1..N : w[n].day \in Dates(w) /\ w[n] \in Lists!Range(w)
  BY <1>1 DEF Dates, Lists!Range
<1> HIDE DEF N, K
<1>5. ASSUME NEW n \in 1..N
      PROVE  row[n] \in 1..K /\ day[row[n]] = w[n].day
  <2>1. \E i \in 1..K : day[i] = w[n].day
    BY <1>2, <1>3, <1>4
  <2>2. row[n] = CHOOSE i \in 1..K : day[i] = w[n].day
    BY <1>3
  <2> HIDE DEF row
  <2> QED
    BY <2>1, <2>2
<1>6. row \in [1..N -> 1..K]
  BY <1>5
<1> HIDE DEF row
<1>7. \A n \in 1..N, i \in 1..K : w[n] \in WantedOn(w, i) <=> day[i] = w[n].day
  BY <1>3, <1>4 DEF WantedOn
<1>8. \A n \in 1..N, i \in 1..K : w[n] \in WantedOn(w, i) <=> i = row[n]
  BY <1>2, <1>3, <1>5, <1>7
<1> QED
  BY <1>6, <1>8 DEF N, K

\* The rows' transfer is that of all the samples, which are as many as the rows
\* hold.
LEMMA RowsAddUp ==
  ASSUME NEW w \in Seq(Sample)
  PROVE  /\ SumOf([i \in 1..Cardinality(Dates(w)) |-> SumOf(Bytes(Of(w, {Days(Dates(w))[i]})))])
              = SumOf(Bytes(w))
         /\ SumOf([i \in 1..Cardinality(Dates(w)) |-> Len(Of(w, {Days(Dates(w))[i]}))]) = Len(w)
<1> DEFINE N == Len(w)
           K == Cardinality(Dates(w))
           after(i) == KeptAfter(w, WantedOn(w, i))
           bytes == [n \in 0..N |-> [i \in 1..K |-> SumOf(Bytes(after(i)[n]))]]
           size == [n \in 0..N |-> [i \in 1..K |-> Len(after(i)[n])]]
           total == SumAfter(Bytes(w))
           count == [n \in 0..N |-> n]
           v == [n \in 1..N |-> w[n].bytes]
           one == [n \in 1..N |-> 1]
<1>1. N \in Nat /\ \A n \in 1..N : w[n] \in Sample /\ n - 1 \in 0..N /\ n \in 0..N
  OBVIOUS
<1>2. K \in Nat
  BY DatesAre, DaysInOrder
<1>3. PICK row \in [1..N -> 1..K] : \A n \in 1..N, i \in 1..K : w[n] \in WantedOn(w, i) <=> i = row[n]
  BY OneRowEach
<1>4. ASSUME NEW i \in 1..K
      PROVE  /\ \A n \in 0..N : SumOf(Bytes(after(i)[n])) \in Int /\ Len(after(i)[n]) \in Nat
             /\ SumOf(Bytes(after(i)[0])) = 0 /\ Len(after(i)[0]) = 0
             /\ \A n \in 1..N :
                  /\ w[n] \in WantedOn(w, i) =>
                       /\ SumOf(Bytes(after(i)[n])) = SumOf(Bytes(after(i)[n - 1])) + w[n].bytes
                       /\ Len(after(i)[n]) = Len(after(i)[n - 1]) + 1
                  /\ w[n] \notin WantedOn(w, i) => after(i)[n] = after(i)[n - 1]
  BY FigureTurn
<1>5. \A i \in 1..K : Of(w, {Days(Dates(w))[i]}) = after(i)[N]
  BY KeptTurn, Zenon DEF Of, WantedOn
<1> HIDE DEF after, N, K
<1>6. \A n \in 1..N : v[n] = w[n].bytes /\ w[n].bytes \in Int /\ one[n] = 1
  BY <1>1 DEF Sample
<1>7. /\ Bytes(w) \in Seq(Int) /\ Len(Bytes(w)) = N /\ \A n \in 1..N : Bytes(w)[n] = w[n].bytes
  BY FiguresOf DEF N
<1>8. /\ total \in [0..N -> Int] /\ total[0] = 0 /\ SumOf(Bytes(w)) = total[N]
      /\ \A n \in 1..N : total[n] = total[n - 1] + v[n]
  <2>1. /\ total \in [0..N -> Int] /\ total[0] = 0 /\ SumOf(Bytes(w)) = total[N]
        /\ \A n \in 1..N : total[n] = total[n - 1] + Bytes(w)[n]
    BY <1>7, SumTurn
  <2> HIDE DEF total, v
  <2> QED
    BY <1>6, <1>7, <2>1
<1>9. Spread(bytes, total, row, v, N, K)
  <2>1. bytes \in [0..N -> [1..K -> Int]] /\ v \in [1..N -> Int]
    BY <1>4, <1>6
  <2>2. \A i \in 1..K : bytes[0][i] = 0
    <3>1. 0 \in 0..N
      BY <1>1
    <3>2. \A i \in 1..K : bytes[0][i] = SumOf(Bytes(after(i)[0]))
      BY <3>1
    <3> HIDE DEF bytes
    <3> QED
      BY <1>4, <3>2
  <2>3. ASSUME NEW n \in 1..N, NEW i \in 1..K
        PROVE  bytes[n][i] = bytes[n - 1][i] + IF i = row[n] THEN v[n] ELSE 0
    <3>1. bytes[n][i] = SumOf(Bytes(after(i)[n])) /\ bytes[n - 1][i] = SumOf(Bytes(after(i)[n - 1]))
      BY <1>1
    <3> HIDE DEF bytes, v
    <3>2. /\ w[n] \in WantedOn(w, i) => SumOf(Bytes(after(i)[n])) = SumOf(Bytes(after(i)[n - 1])) + w[n].bytes
          /\ w[n] \notin WantedOn(w, i) => SumOf(Bytes(after(i)[n])) = SumOf(Bytes(after(i)[n - 1])) + 0
      <4>1. n - 1 \in 0..N
        BY <1>1
      <4>2. PICK m \in Int : m = SumOf(Bytes(after(i)[n - 1]))
        BY <1>4, <4>1, Zenon
      <4>3. m = m + 0
        OBVIOUS
      <4> QED
        BY <1>4, <4>2, <4>3, Zenon
    <3>3. (w[n] \in WantedOn(w, i) <=> i = row[n]) /\ v[n] = w[n].bytes
      BY <1>3, <1>6
    <3> QED
      BY <3>1, <3>2, <3>3, Zenon
  <2> HIDE DEF bytes, total, v
  <2> QED
    BY <1>3, <1>8, <2>1, <2>2, <2>3 DEF Spread
<1>10. Spread(size, count, row, one, N, K)
  <2>1. size \in [0..N -> [1..K -> Int]] /\ one \in [1..N -> Int] /\ count \in [0..N -> Int]
    BY <1>4
  <2>2. \A i \in 1..K : size[0][i] = 0
    <3>1. 0 \in 0..N
      BY <1>1
    <3>2. \A i \in 1..K : size[0][i] = Len(after(i)[0])
      BY <3>1
    <3> HIDE DEF size
    <3> QED
      BY <1>4, <3>2
  <2>3. ASSUME NEW n \in 1..N, NEW i \in 1..K
        PROVE  size[n][i] = size[n - 1][i] + IF i = row[n] THEN one[n] ELSE 0
    <3>1. size[n][i] = Len(after(i)[n]) /\ size[n - 1][i] = Len(after(i)[n - 1])
      BY <1>1
    <3> HIDE DEF size, one
    <3>2. /\ w[n] \in WantedOn(w, i) => Len(after(i)[n]) = Len(after(i)[n - 1]) + 1
          /\ w[n] \notin WantedOn(w, i) => Len(after(i)[n]) = Len(after(i)[n - 1]) + 0
      <4>1. Len(after(i)[n - 1]) = Len(after(i)[n - 1]) + 0
        BY <1>1, <1>4
      <4> QED
        BY <1>4, <4>1, Zenon
    <3>3. (w[n] \in WantedOn(w, i) <=> i = row[n]) /\ one[n] = 1
      BY <1>3, <1>6
    <3> QED
      BY <3>1, <3>2, <3>3, Zenon
  <2>4. count[0] = 0 /\ \A n \in 1..N : count[n] = count[n - 1] + one[n]
    BY <1>1
  <2> HIDE DEF size, count, one
  <2> QED
    BY <1>3, <2>1, <2>2, <2>3, <2>4 DEF Spread
<1>11. bytes[N] = [i \in 1..K |-> SumOf(Bytes(after(i)[N]))] /\ size[N] = [i \in 1..K |-> Len(after(i)[N])]
       /\ count[N] = N
  BY <1>1
<1> HIDE DEF bytes, size, total, count, v, one
<1>12. SumOf(bytes[N]) = total[N] /\ SumOf(size[N]) = count[N]
  BY <1>1, <1>2, <1>9, <1>10, PartsAddUp
<1>13. /\ [i \in 1..K |-> SumOf(Bytes(Of(w, {Days(Dates(w))[i]})))] = bytes[N]
       /\ [i \in 1..K |-> Len(Of(w, {Days(Dates(w))[i]}))] = size[N]
  BY <1>5, <1>11
<1> QED
  BY <1>8, <1>11, <1>12, <1>13, Zenon DEF N, K

\* The window is of whole days, the latest, as many as were asked for.
LEMMA WindowIs ==
  ASSUME NEW samples \in Seq(Sample), NEW days \in Int
  PROVE  /\ Window(samples, days) \in Seq(Sample)
         /\ Of(samples, Dates(Window(samples, days))) = Window(samples, days)
         /\ \A d \in Dates(samples) \ Dates(Window(samples, days)), e \in Dates(Window(samples, days)) : d < e
         /\ days > 0 => Cardinality(Dates(Window(samples, days))) =
                          IF Cardinality(Dates(samples)) < days THEN Cardinality(Dates(samples)) ELSE days
         /\ days <= 0 => Window(samples, days) = samples
<1> DEFINE dates == Dates(samples)
           M == Cardinality(dates)
           w == Window(samples, days)
<1>1. dates \in SUBSET Int /\ IsFiniteSet(dates)
  BY DatesAre
<1>2. M \in Nat
  BY <1>1, DaysInOrder
<1>3. CASE days <= 0 \/ M <= days
  <2>1. w = samples
    BY <1>3 DEF Window
  <2>2. Of(samples, Dates(samples)) = samples
    <3>1. \A n \in 1..Len(samples) :
            samples[n] \in {s \in Lists!Range(samples) : s.day \in Dates(samples)}
      BY DEF Dates, Lists!Range
    <3> QED
      BY <3>1, AllIsKept, Zenon DEF Of
  <2> HIDE DEF w, M
  <2>3. days > 0 => M = IF M < days THEN M ELSE days
    BY <1>2, <1>3
  <2> QED
    BY <2>1, <2>2, <2>3, Zenon DEF w, M
<1>4. CASE days > 0 /\ M > days
  <2> DEFINE c == Cutoff(dates, days)
             late == {d \in dates : d >= c}
             early == {d \in dates : d < c}
  <2>1. w = Of(samples, late)
    <3>1. ~(days <= 0 \/ M <= days)
      BY <1>2, <1>4
    <3> QED
      BY <3>1 DEF Window
  <2>2. M - days + 1 \in 1..M
    BY <1>2, <1>4
  <2>3. c \in dates /\ Cardinality(early) = (M - days + 1) - 1
    BY <1>1, <2>2, DaysInOrder DEF Cutoff
  <2> HIDE DEF c, w
  <2>4. late \in SUBSET dates /\ late = dates \ early /\ dates \cap early = early
    BY <1>1, <2>3
  <2>5. Cardinality(late) = days
    <3>1. Cardinality(dates \ early) = Cardinality(dates) - Cardinality(dates \cap early)
      BY <1>1, FS_Difference
    <3>2. M - ((M - days + 1) - 1) = days
      BY <1>2
    <3> HIDE DEF late, early
    <3>3. Cardinality(late) = M - ((M - days + 1) - 1)
      BY <2>3, <2>4, <3>1, Zenon
    <3> QED
      BY <3>2, <3>3
  <2> HIDE DEF late
  <2>6. /\ w \in Seq(Sample)
        /\ \A i \in 1..Len(w) : w[i].day \in late
        /\ \A n \in 1..Len(samples) : samples[n].day \in late => \E i \in 1..Len(w) : w[i] = samples[n]
    BY <2>1, SamplesOf
  <2>7. Dates(w) = late
    <3>1. ASSUME NEW d \in late
          PROVE  d \in Dates(w)
      <4>1. PICK n \in 1..Len(samples) : samples[n].day = d
        BY <2>4 DEF Dates
      <4>2. PICK i \in 1..Len(w) : w[i] = samples[n]
        BY <2>6, <3>1, <4>1
      <4>3. i \in DOMAIN w
        BY <2>6
      <4> QED
        BY <4>1, <4>2, <4>3 DEF Dates
    <3>2. \A d \in Dates(w) : d \in late
      <4> SUFFICES ASSUME NEW d \in Dates(w)
                   PROVE  d \in late
        OBVIOUS
      <4>1. DOMAIN w = 1..Len(w)
        BY <2>6
      <4>2. PICK i \in 1..Len(w) : d = w[i].day
        BY <4>1 DEF Dates
      <4> QED
        BY <2>6, <4>2
    <3>3. Dates(w) \subseteq late /\ late \subseteq Dates(w)
      BY <3>1, <3>2
    <3> QED
      BY <3>3
  <2>8. \A d \in dates \ late, e \in late : d < e
    BY <1>1, <2>3 DEF late
  <2>9. M >= days /\ ~(M < days) /\ ~(days <= 0)
    BY <1>2, <1>4
  <2> HIDE DEF dates, M
  <2>10. /\ w \in Seq(Sample) /\ Of(samples, Dates(w)) = w
         /\ \A d \in dates \ Dates(w), e \in Dates(w) : d < e
         /\ Cardinality(Dates(w)) = days
    BY <2>1, <2>5, <2>6, <2>7, <2>8
  <2> QED
    BY <2>9, <2>10, Zenon DEF w, dates, M
<1> QED
  BY <1>2, <1>3, <1>4

\* So bwg usage shows the latest days.
LEMMA LatestDays ==
  ASSUME NEW samples \in Seq(Sample), NEW days \in Int
  PROVE  TheLatestDays(samples, days)
<1> DEFINE shown == Usage(samples, days)
           w == Window(samples, days)
<1>1. shown.raw = w /\ shown.byDay = AggregateByDay(w) /\ shown.available = Cardinality(Dates(samples))
  BY DEF Usage
<1>2. w \in Seq(Sample)
  BY WindowIs
<1>3. Len(AggregateByDay(w)) = Cardinality(Dates(w))
  <2>1. Cardinality(Dates(w)) \in Nat
    BY <1>2, DatesAre, DaysInOrder
  <2> HIDE DEF w
  <2> QED
    BY <2>1 DEF AggregateByDay
<1>4. /\ Of(samples, Dates(w)) = w
      /\ \A d \in Dates(samples) \ Dates(w), e \in Dates(w) : d < e
      /\ days > 0 => Cardinality(Dates(w)) =
                       IF Cardinality(Dates(samples)) < days THEN Cardinality(Dates(samples)) ELSE days
      /\ days <= 0 => w = samples
  BY WindowIs
<1> HIDE DEF shown, w
<1> QED
  BY <1>1, <1>3, <1>4, Zenon DEF TheLatestDays, shown

\* And all it shows is of the samples of one window.
LEMMA SpanIsOne ==
  ASSUME NEW samples \in Seq(Sample), NEW days \in Int
  PROVE  OneSpan(samples, days)
<1> DEFINE shown == Usage(samples, days)
           w == Window(samples, days)
           K == Cardinality(Dates(w))
           day == Days(Dates(w))
<1>1. shown.raw = w /\ shown.byDay = AggregateByDay(w) /\ shown.total = SumOf(Bytes(w))
  BY DEF Usage
<1>2. w \in Seq(Sample)
  BY WindowIs
<1>3. K \in Nat /\ \A i \in 1..K : day[i] \in Dates(w)
  BY <1>2, DatesAre, DaysInOrder
<1> HIDE DEF w, shown
<1>4. shown.byDay = [i \in 1..K |-> DayOf(w, day[i])]
  BY <1>1 DEF AggregateByDay
<1>5. \A i \in 1..K :
        /\ DayOf(w, day[i]).day = day[i]
        /\ DayOf(w, day[i]).bytes = SumOf(Bytes(Of(w, {day[i]})))
        /\ DayOf(w, day[i]).cpu = SumOf(Loads(Of(w, {day[i]}))) \div Len(Of(w, {day[i]}))
        /\ DayOf(w, day[i]).samples = Len(Of(w, {day[i]}))
  BY DEF DayOf
<1> HIDE DEF K, day
<1>6. /\ SumOf([i \in 1..K |-> SumOf(Bytes(Of(w, {day[i]})))]) = SumOf(Bytes(w))
      /\ SumOf([i \in 1..K |-> Len(Of(w, {day[i]}))]) = Len(w)
  BY <1>2, RowsAddUp DEF K, day
<1>7. DOMAIN shown.byDay = 1..K /\ \A i \in 1..K : shown.byDay[i] = DayOf(w, day[i])
  BY <1>4
<1>8. shown.total = SumOf(Bytes(shown.byDay))
  <2>1. Bytes(shown.byDay) = [i \in 1..K |-> SumOf(Bytes(Of(w, {day[i]})))]
    BY <1>5, <1>7 DEF Bytes
  <2> QED
    BY <1>1, <1>6, <2>1
<1>9. Len(shown.raw) = SumOf([i \in DOMAIN shown.byDay |-> shown.byDay[i].samples])
  <2>1. [i \in DOMAIN shown.byDay |-> shown.byDay[i].samples] = [i \in 1..K |-> Len(Of(w, {day[i]}))]
    BY <1>5, <1>7
  <2> QED
    BY <1>1, <1>6, <2>1
<1>10. ASSUME NEW i \in DOMAIN shown.byDay
       PROVE  LET loads == {s \in Lists!Range(shown.raw) : s.day = shown.byDay[i].day}
              IN  /\ \E s \in loads : s.cpu <= shown.byDay[i].cpu
                  /\ \E s \in loads : s.cpu >= shown.byDay[i].cpu
  <2> DEFINE loads == {s \in Lists!Range(shown.raw) : s.day = shown.byDay[i].day}
  <2>1. PICK of : of = Of(w, {day[i]})
    OBVIOUS
  <2>2. /\ of \in Seq(Sample)
        /\ \A j \in 1..Len(of) : of[j].day \in {day[i]} /\ of[j] \in Lists!Range(w)
        /\ \A n \in 1..Len(w) : w[n].day \in {day[i]} => \E j \in 1..Len(of) : of[j] = w[n]
    <3>1. PICK days1 : days1 = {day[i]}
      OBVIOUS
    <3>2. of = Of(w, days1)
      BY <2>1, <3>1
    <3>3. of \in Seq(Sample)
      BY <1>2, <3>2, SamplesOf
    <3>4. \A j \in 1..Len(of) : of[j].day \in days1 /\ of[j] \in Lists!Range(w)
      BY <1>2, <3>2, SamplesOf
    <3>5. \A n \in 1..Len(w) : w[n].day \in days1 => \E j \in 1..Len(of) : of[j] = w[n]
      BY <1>2, <3>2, SamplesOf
    <3> QED
      BY <3>1, <3>3, <3>4, <3>5, Zenon
  <2>3. \A j \in 1..Len(of) : of[j] \in loads
    BY <1>1, <1>5, <1>7, <2>2
  <2>4. Len(of) \in Nat /\ Len(of) > 0
    <3>1. PICK n \in 1..Len(w) : w[n].day = day[i]
      <4>1. DOMAIN w = 1..Len(w) /\ day[i] \in Dates(w)
        BY <1>2, <1>3, <1>7
      <4> QED
        BY <4>1 DEF Dates
    <3>2. PICK j \in 1..Len(of) : of[j] = w[n]
      BY <2>2, <3>1
    <3> QED
      BY <2>2, <3>2
  <2>5. PICK l : l = Loads(of)
    OBVIOUS
  <2>6. l \in Seq(Int) /\ Len(l) = Len(of) /\ \A j \in 1..Len(of) : l[j] = of[j].cpu
    BY <2>2, <2>5, FiguresOf
  <2>7. \A j \in 1..Len(of) : of[j].cpu \in Nat
    <3>1. \A j \in 1..Len(of) : of[j] \in Sample
      BY <2>2
    <3> QED
      BY <3>1 DEF Sample
  <2>8. shown.byDay[i].cpu = SumOf(l) \div Len(l)
    BY <1>5, <1>7, <2>1, <2>5, <2>6
  <2>9. /\ \E j \in 1..Len(l) : l[j] <= SumOf(l) \div Len(l)
        /\ \E j \in 1..Len(l) : l[j] >= SumOf(l) \div Len(l)
    BY <2>4, <2>6, <2>7, AverageLies
  <2> HIDE DEF loads
  <2>10. \E s \in loads : s.cpu <= shown.byDay[i].cpu
    BY <2>3, <2>6, <2>8, <2>9
  <2>11. \E s \in loads : s.cpu >= shown.byDay[i].cpu
    BY <2>3, <2>6, <2>8, <2>9
  <2> QED
    BY <2>10, <2>11 DEF loads
<1> QED
  BY <1>8, <1>9, <1>10, Zenon DEF OneSpan, shown

----------------------------------------------------------------------------
(* Incidents: the feed in its order, the verdict, what may touch a server *)

Open(list) == {i \in DOMAIN list : ~list[i].resolved}

LastFirst(list) == \A i \in DOMAIN list : list[1].updated >= list[i].updated

\* Parse leaves the feed as it is but for its order: each incident is there, as
\* many of them are open, and none is listed before one that changed later.
LEMMA NewestIs ==
  ASSUME NEW P, NEW D, NEW feed \in Seq(Incident(P, D))
  PROVE  /\ Newest(feed) \in Seq(Incident(P, D))
         /\ \A m, n \in DOMAIN Newest(feed) : m < n => Newest(feed)[m].updated >= Newest(feed)[n].updated
         /\ Seqs!Range(Newest(feed)) = Seqs!Range(feed)
         /\ Cardinality(Open(Newest(feed))) = Cardinality(Open(feed))
<1> DEFINE N == Len(feed)
           A == Incident(P, D)
           order == Sorted(DOMAIN feed, Before(feed))
           newest == Newest(feed)
<1>1. N \in Nat /\ DOMAIN feed = 1..N /\ feed \in [1..N -> A]
  OBVIOUS
<1>2. IsFiniteSet(1..N) /\ Cardinality(1..N) = N
  BY <1>1, FS_Interval
<1>3. \A i \in 1..N : feed[i].updated \in Nat
  BY <1>1 DEF Incident
<1>4. \A i, j : <<i, j>> \in Before(feed) <=>
        /\ i \in 1..N /\ j \in 1..N
        /\ \/ feed[i].updated > feed[j].updated
           \/ feed[i].updated = feed[j].updated /\ i < j
  BY <1>1 DEF Before
<1>5. IsOrder(1..N, Before(feed))
  <2>1. \A x \in 1..N : <<x, x>> \notin Before(feed)
    BY <1>3, <1>4
  <2>2. \A x, y \in 1..N : x # y => <<x, y>> \in Before(feed) \/ <<y, x>> \in Before(feed)
    BY <1>3, <1>4
  <2>3. ASSUME NEW x \in 1..N, NEW y \in 1..N, NEW z \in 1..N,
               <<x, y>> \in Before(feed), <<y, z>> \in Before(feed)
        PROVE  <<x, z>> \in Before(feed)
    BY <1>3, <1>4, <2>3
  <2> QED
    BY <2>1, <2>2, <2>3 DEF IsOrder
<1>6. /\ \A n \in 1..N : order[n] \in 1..N
      /\ \A i \in 1..N : \E n \in 1..N : i = order[n]
      /\ \A m, n \in 1..N : m < n => <<order[m], order[n]>> \in Before(feed)
  <2>1. order = Sorted(1..N, Before(feed))
    BY <1>1
  <2> HIDE DEF order
  <2>2. /\ \A n \in 1..N : Sorted(1..N, Before(feed))[n] \in 1..N
        /\ \A i \in 1..N : \E n \in 1..N : i = Sorted(1..N, Before(feed))[n]
        /\ \A m, n \in 1..N :
             m < n => <<Sorted(1..N, Before(feed))[m], Sorted(1..N, Before(feed))[n]>> \in Before(feed)
    <3>1. PICK items : items = 1..N
      OBVIOUS
    <3>2. PICK before : before = Before(feed)
      OBVIOUS
    <3>3. IsFiniteSet(items) /\ Cardinality(items) = N /\ IsOrder(items, before)
      BY <1>2, <1>5, <3>1, <3>2, Zenon
    <3>4. /\ \A n \in 1..Cardinality(items) : Sorted(items, before)[n] \in items
          /\ \A x \in items : \E n \in 1..Cardinality(items) : x = Sorted(items, before)[n]
          /\ \A m, n \in 1..Cardinality(items) :
               m < n => <<Sorted(items, before)[m], Sorted(items, before)[n]>> \in before
      BY <3>3, EachHasItsPlace
    <3> QED
      BY <3>1, <3>2, <3>3, <3>4, Zenon
  <2> QED
    BY <2>1, <2>2, Zenon
<1>7. newest = [n \in 1..N |-> feed[order[n]]]
  BY <1>1 DEF Newest
<1> HIDE DEF order, newest, A
<1>8. newest \in [1..N -> A]
  BY <1>1, <1>6, <1>7
<1>9. newest \in Seq(A) /\ DOMAIN newest = 1..N /\ \A n \in 1..N : newest[n] = feed[order[n]]
  BY <1>1, <1>7, <1>8, SeqDef
<1>10. \A m, n \in 1..N : m < n => newest[m].updated >= newest[n].updated
  <2> SUFFICES ASSUME NEW m \in 1..N, NEW n \in 1..N, m < n
               PROVE  newest[m].updated >= newest[n].updated
    OBVIOUS
  <2>1. <<order[m], order[n]>> \in Before(feed) /\ order[m] \in 1..N /\ order[n] \in 1..N
    BY <1>6
  <2>2. newest[m] = feed[order[m]] /\ newest[n] = feed[order[n]]
    BY <1>9
  <2> QED
    BY <1>3, <1>4, <2>1, <2>2
<1>11. Seqs!Range(newest) = Seqs!Range(feed)
  <2>1. \A x : x \in Seqs!Range(newest) <=> \E n \in 1..N : x = newest[n]
    BY <1>9 DEF Seqs!Range
  <2>2. \A x : x \in Seqs!Range(feed) <=> \E i \in 1..N : x = feed[i]
    BY <1>1 DEF Seqs!Range
  <2>3. \A x : (\E n \in 1..N : x = newest[n]) <=> \E i \in 1..N : x = feed[i]
    <3>1. \A n \in 1..N : newest[n] = feed[order[n]] /\ order[n] \in 1..N
      BY <1>6, <1>9
    <3>2. \A i \in 1..N : \E n \in 1..N : i = order[n]
      BY <1>6
    <3>3. ASSUME NEW i \in 1..N
          PROVE  \E n \in 1..N : feed[i] = newest[n]
      BY <3>1, <3>2
    <3>4. ASSUME NEW n \in 1..N
          PROVE  \E i \in 1..N : newest[n] = feed[i]
      BY <3>1
    <3> QED
      BY <3>3, <3>4
  <2> QED
    BY <2>1, <2>2, <2>3
<1>12. Cardinality(Open(newest)) = Cardinality(Open(feed))
  <2> DEFINE f == [n \in Open(newest) |-> order[n]]
  <2>1. \A m, n \in 1..N : m # n => order[m] # order[n]
    <3> SUFFICES ASSUME NEW m \in 1..N, NEW n \in 1..N, m # n
                 PROVE  order[m] # order[n]
      OBVIOUS
    <3>1. m < n \/ n < m
      BY <1>1
    <3> QED
      BY <1>5, <1>6, <3>1 DEF IsOrder
  <2>2. /\ \A n : n \in Open(newest) <=> n \in 1..N /\ ~feed[order[n]].resolved
        /\ \A i : i \in Open(feed) <=> i \in 1..N /\ ~feed[i].resolved
    BY <1>1, <1>9 DEF Open
  <2>3. f \in [Open(newest) -> Open(feed)]
    BY <1>6, <2>2
  <2>4. \A m, n \in Open(newest) : m # n => f[m] # f[n]
    BY <2>1, <2>2
  <2>5. \A i \in Open(feed) : \E n \in Open(newest) : f[n] = i
    BY <1>6, <2>2
  <2> HIDE DEF f
  <2>6. f \in Bijection(Open(newest), Open(feed))
    BY <2>3, <2>4, <2>5 DEF Bijection, Injection, Surjection, IsInjective
  <2>7. IsFiniteSet(Open(newest))
    <3>1. Open(newest) \in SUBSET (1..N)
      BY <1>9 DEF Open
    <3> QED
      BY <1>2, <3>1, FS_Subset
  <2> QED
    BY <2>6, <2>7, FS_Bijection DEF ExistsBijection
<1> QED
  BY <1>9, <1>10, <1>11, <1>12 DEF newest, A

\* Ongoing lists as many incidents as are open, all of them open, and the last
\* change first.
LEMMA OngoingIs ==
  ASSUME NEW P, NEW D, NEW list \in Seq(Incident(P, D))
  PROVE  /\ Ongoing(list) \in Seq(Incident(P, D))
         /\ Len(Ongoing(list)) = Cardinality(Open(list))
         /\ Open(Ongoing(list)) = DOMAIN Ongoing(list)
         /\ (\A m, n \in DOMAIN list : m < n => list[m].updated >= list[n].updated)
              => LastFirst(Ongoing(list))
<1> DEFINE A == Incident(P, D)
           wanted == {inc \in Seqs!Range(list) : ~inc.resolved}
           ongoing == Ongoing(list)
           N == Len(list)
<1>1. /\ ongoing \in Seq(A) /\ KeptSoFar(list, wanted, N, ongoing)
  BY KeptIs, Zenon DEF Ongoing
<1>2. N \in Nat /\ DOMAIN list = 1..N /\ list \in [1..N -> A]
  OBVIOUS
<1>3. \A i \in 1..N : list[i] \in wanted <=> ~list[i].resolved
  BY <1>2 DEF Seqs!Range
<1> HIDE DEF wanted, ongoing, A
<1>4. DOMAIN ongoing = 1..Len(ongoing) /\ Len(ongoing) \in Nat
  BY <1>1
<1>5. /\ \A i \in 1..Len(ongoing) : \E k \in 1..N : list[k] \in wanted /\ ongoing[i] = list[k]
      /\ Len(ongoing) = Cardinality({k \in 1..N : list[k] \in wanted})
      /\ Len(ongoing) > 0 => \E k \in 1..N : list[k] \in wanted /\ ongoing[1] = list[k]
                                             /\ \A m \in 1..(k - 1) : list[m] \notin wanted
  BY <1>1 DEF KeptSoFar
<1>6. Len(ongoing) = Cardinality(Open(list))
  <2>1. Open(list) = {k \in 1..N : list[k] \in wanted}
    BY <1>2, <1>3 DEF Open
  <2> QED
    BY <1>5, <2>1
<1>7. Open(ongoing) = DOMAIN ongoing
  BY <1>3, <1>4, <1>5 DEF Open
<1>8. ASSUME \A m, n \in DOMAIN list : m < n => list[m].updated >= list[n].updated
      PROVE  LastFirst(ongoing)
  <2> SUFFICES ASSUME NEW i \in 1..Len(ongoing)
               PROVE  ongoing[1].updated >= ongoing[i].updated
    BY <1>4 DEF LastFirst
  <2>1. PICK k \in 1..N : list[k] \in wanted /\ ongoing[1] = list[k]
                          /\ \A m \in 1..(k - 1) : list[m] \notin wanted
    <3>1. Len(ongoing) > 0
      BY <1>4
    <3> QED
      BY <1>5, <3>1
  <2>2. PICK l \in 1..N : list[l] \in wanted /\ ongoing[i] = list[l]
    BY <1>5
  <2>3. k <= l
    BY <1>2, <2>1, <2>2
  <2>4. list[k].updated \in Nat
    BY <1>2 DEF A, Incident
  <2>5. k = l \/ list[k].updated >= list[l].updated
    BY <1>2, <1>8, <2>3
  <2> QED
    BY <2>1, <2>2, <2>4, <2>5
<1> QED
  BY <1>1, <1>6, <1>7, <1>8 DEF ongoing, A

\* The summary of a list whose first incident changed last.
LEMMA SummaryIs ==
  ASSUME NEW P, NEW D, NEW list \in Seq(Incident(P, D)), LastFirst(list)
  PROVE  /\ Summarize(list).operational <=> Open(list) = {}
         /\ Len(list) > 0 => Summarize(list).lastUpdate = list[1].updated
         /\ Summarize(list).ongoing = Len(Ongoing(list))
<1> DEFINE N == Len(list)
           times == {0} \cup {list[i].updated : i \in DOMAIN list}
<1>1. N \in Nat /\ DOMAIN list = 1..N
  OBVIOUS
<1>2. \A i \in 1..N : list[i].updated \in Nat
  <2>1. \A i \in 1..N : list[i] \in Incident(P, D)
    OBVIOUS
  <2> QED
    BY <2>1 DEF Incident
<1>3. Summarize(list).operational <=> Open(list) = {}
  BY <1>1 DEF Summarize, Open
<1>4. ASSUME N > 0
      PROVE  Seqs!Max(times) = list[1].updated
  <2>1. 1 \in 1..N
    BY <1>1, <1>4
  <2>2. list[1].updated \in times /\ times \subseteq Nat /\ \A t \in times : list[1].updated >= t
    BY <1>1, <1>2, <2>1 DEF LastFirst
  <2> HIDE DEF times
  <2>3. \E x \in times : \A y \in times : x >= y
    BY <2>2
  <2>4. Seqs!Max(times) \in times /\ \A y \in times : Seqs!Max(times) >= y
    BY <2>3 DEF Seqs!Max
  <2>5. PICK m : m = Seqs!Max(times)
    OBVIOUS
  <2>6. m \in times /\ m >= list[1].updated
    BY <2>2, <2>4, <2>5
  <2>7. m \in Nat /\ list[1].updated \in Nat /\ list[1].updated >= m
    BY <2>2, <2>6
  <2>8. m = list[1].updated
    BY <2>6, <2>7
  <2> QED
    BY <2>5, <2>8
<1> QED
  BY <1>3, <1>4 DEF Summarize

\* Of a list that is the feed, or what is open in it, the summary is the feed's.
LEMMA VerdictIs ==
  ASSUME NEW P, NEW D, NEW feed \in Seq(Incident(P, D)), NEW fleet, NEW pick
  PROVE  OneVerdict(feed, fleet, pick)
<1> SUFFICES ASSUME NEW ongoing \in BOOLEAN, NEW all \in BOOLEAN
             PROVE  LET report == Report(feed, fleet, pick, ongoing, all)
                    IN  /\ report.summary.operational <=> \A i \in DOMAIN feed : feed[i].resolved
                        /\ report.summary.ongoing = Cardinality({i \in DOMAIN feed : ~feed[i].resolved})
                        /\ report.summary.ongoing
                             = Cardinality({i \in DOMAIN report.incidents : ~report.incidents[i].inc.resolved})
                        /\ report.incidents # <<>> => report.incidents[1].inc.updated = report.summary.lastUpdate
  BY Zenon DEF OneVerdict
<1> DEFINE report == Report(feed, fleet, pick, ongoing, all)
           newest == Newest(feed)
           list == IF ongoing THEN Ongoing(newest) ELSE newest
<1>1. /\ newest \in Seq(Incident(P, D))
      /\ \A m, n \in DOMAIN newest : m < n => newest[m].updated >= newest[n].updated
      /\ Cardinality(Open(newest)) = Cardinality(Open(feed))
  BY NewestIs
<1> HIDE DEF newest
<1>2. LastFirst(newest)
  <2> SUFFICES ASSUME NEW i \in DOMAIN newest
               PROVE  newest[1].updated >= newest[i].updated
    BY DEF LastFirst
  <2>1. DOMAIN newest = 1..Len(newest) /\ Len(newest) \in Nat
    BY <1>1
  <2>2. newest[i].updated \in Nat
    <3>1. newest[i] \in Incident(P, D)
      BY <1>1, <2>1
    <3> QED
      BY <3>1 DEF Incident
  <2>3. 1 \in DOMAIN newest /\ (i = 1 \/ 1 < i)
    BY <2>1
  <2> QED
    BY <1>1, <2>2, <2>3
<1>3. /\ Ongoing(newest) \in Seq(Incident(P, D))
      /\ Len(Ongoing(newest)) = Cardinality(Open(newest))
      /\ Open(Ongoing(newest)) = DOMAIN Ongoing(newest)
      /\ LastFirst(Ongoing(newest))
  BY <1>1, OngoingIs
<1>4. \A s \in Seq(Incident(P, D)) : IsFiniteSet(Open(s)) /\ (Cardinality(Open(s)) = 0 <=> Open(s) = {})
  <2> SUFFICES ASSUME NEW s \in Seq(Incident(P, D))
               PROVE  IsFiniteSet(Open(s)) /\ (Cardinality(Open(s)) = 0 <=> Open(s) = {})
    OBVIOUS
  <2>1. Len(s) \in Nat /\ Open(s) \in SUBSET (1..Len(s))
    BY DEF Open
  <2>2. IsFiniteSet(1..Len(s))
    BY <2>1, FS_Interval
  <2>3. IsFiniteSet(Open(s))
    BY <2>1, <2>2, FS_Subset
  <2> QED
    BY <2>3, FS_EmptySet
<1>5. Cardinality(Open(Ongoing(newest))) = Cardinality(Open(newest))
  <2>1. DOMAIN Ongoing(newest) = 1..Len(Ongoing(newest)) /\ Len(Ongoing(newest)) \in Nat
    BY <1>3
  <2>2. Cardinality(1..Len(Ongoing(newest))) = Len(Ongoing(newest))
    <3>1. PICK l \in Nat : l = Len(Ongoing(newest))
      BY <2>1
    <3>2. 1 \in Int /\ l \in Int
      OBVIOUS
    <3>3. Cardinality(1..l) = l
      BY <3>2, FS_Interval
    <3> QED
      BY <3>1, <3>3
  <2> QED
    BY <1>3, <2>1, <2>2
<1>6. list \in Seq(Incident(P, D)) /\ LastFirst(list) /\ Cardinality(Open(list)) = Cardinality(Open(feed))
  <2>1. CASE ongoing
    <3>1. list = Ongoing(newest)
      BY <2>1
    <3> QED
      BY <1>1, <1>3, <1>5, <3>1, Zenon
  <2>2. CASE ~ongoing
    <3>1. list = newest
      BY <2>2
    <3> QED
      BY <1>1, <1>2, <3>1, Zenon
  <2> QED
    BY <2>1, <2>2, Zenon
<1>7. /\ report.summary = Summarize(list)
      /\ report.incidents = [i \in DOMAIN list |-> report.incidents[i]]
      /\ \A i \in DOMAIN list : report.incidents[i].inc = list[i]
  BY DEF Report, newest
<1> HIDE DEF list, report
<1>8. /\ Summarize(list).operational <=> Open(list) = {}
      /\ Len(list) > 0 => Summarize(list).lastUpdate = list[1].updated
      /\ Summarize(list).ongoing = Len(Ongoing(list))
  BY <1>6, SummaryIs
<1>9. Summarize(list).ongoing = Cardinality(Open(list))
  BY <1>6, <1>8, OngoingIs
<1>10. report.summary.operational <=> \A i \in DOMAIN feed : feed[i].resolved
  <2>1. Open(list) = {} <=> Open(feed) = {}
    BY <1>4, <1>6
  <2> QED
    BY <1>7, <1>8, <2>1 DEF Open
<1>11. report.summary.ongoing = Cardinality({i \in DOMAIN feed : ~feed[i].resolved})
  BY <1>6, <1>7, <1>9, Zenon DEF Open
<1>12. report.summary.ongoing
         = Cardinality({i \in DOMAIN report.incidents : ~report.incidents[i].inc.resolved})
  <2>1. DOMAIN report.incidents = DOMAIN list
    BY <1>7
  <2>2. Open(list) = {i \in DOMAIN report.incidents : ~report.incidents[i].inc.resolved}
    BY <1>7, <2>1 DEF Open
  <2> QED
    BY <1>7, <1>9, <2>2, Zenon
<1>13. report.incidents # <<>> => report.incidents[1].inc.updated = report.summary.lastUpdate
  <2>1. DOMAIN list = 1..Len(list) /\ Len(list) \in Nat
    BY <1>6
  <2>2. CASE Len(list) > 0
    <3>1. 1 \in DOMAIN list
      BY <2>1, <2>2
    <3> QED
      BY <1>7, <1>8, <2>2, <3>1
  <2>3. CASE Len(list) = 0
    <3>1. DOMAIN list = {}
      BY <2>1, <2>3
    <3>2. DOMAIN <<>> = {} /\ <<>> = [i \in {} |-> {}]
      OBVIOUS
    <3>3. report.incidents = <<>>
      BY <1>7, <3>1, <3>2
    <3> QED
      BY <3>3
  <2> QED
    BY <2>1, <2>2, <2>3
<1> QED
  BY <1>10, <1>11, <1>12, <1>13, Zenon DEF report

\* A mention of a server's very node leads to it.
LEMMA OwnNodeIsFound ==
  ASSUME NEW P, NEW D, NEW inc \in Incident(P, D), NEW s, s.node \in Seq(D), Touches(inc, s)
  PROVE  Linked(inc, s)
<1>1. CASE inc.places \cap s.places # {}
  BY <1>1 DEF Linked, Reasons
<1>2. CASE Len(s.node) >= 2 /\ Node(s.node) \in inc.nodes
  <2> DEFINE p == Prefix(Node(s.node))
  <2>1. PICK node \in Seq(D) : node = s.node
    OBVIOUS
  <2>2. Len(node) \in Nat /\ Len(node) >= 2
    BY <1>2, <2>1
  <2>3. p = IF Len(node) <= 4 THEN node ELSE SubSeq(node, 1, 4)
    BY <2>1 DEF Prefix, Node
  <2>4. node # <<>>
    BY <2>2
  <2>5. Seqs!IsPrefix(p, node)
    <3>1. CASE Len(node) <= 4
      <4>1. p = node
        BY <2>3, <3>1
      <4> QED
        BY <2>2, <4>1 DEF Seqs!IsPrefix
    <3>2. CASE ~(Len(node) <= 4)
      <4>1. p = SubSeq(node, 1, 4) /\ Len(p) = 4
        BY <2>2, <2>3, <3>2
      <4>2. SubSeq(p, 1, 4) = SubSeq(node, 1, 4)
        BY <2>2, <3>2, <4>1
      <4> QED
        BY <2>2, <3>2, <4>1, <4>2 DEF Seqs!IsPrefix
    <3> QED
      BY <3>1, <3>2
  <2>6. p \in FindNodePrefixes(inc)
    <3>1. Node(s.node).digits = s.node /\ ~Node(s.node).family
      BY DEF Node
    <3> QED
      BY <1>2, <3>1 DEF FindNodePrefixes
  <2>7. p \in Reasons(inc, s).nodes
    <3> HIDE DEF p
    <3> QED
      BY <2>1, <2>4, <2>5, <2>6 DEF Reasons
  <2> QED
    BY <2>7 DEF Linked
<1> QED
  BY <1>1, <1>2 DEF Touches

\* Every incident is listed, and which of the chosen servers it names is under it
\* or not checked.
LEMMA NobodyPasses ==
  ASSUME NEW P, NEW D, NEW feed \in Seq(Incident(P, D)), NEW fleet, NEW pick,
         \A s \in fleet : s.node \in Seq(D)
  PROVE  UncheckedIsNotClear(feed, fleet, pick)
<1> DEFINE report == Report(feed, fleet, pick, FALSE, FALSE)
           newest == Newest(feed)
           listed == Seqs!Range(report.incidents)
           chosen == Servers(fleet, pick)
<1>1. newest \in Seq(Incident(P, D)) /\ Seqs!Range(newest) = Seqs!Range(feed)
  BY NewestIs
<1>2. /\ report.incidents = [i \in DOMAIN newest |->
           [inc |-> newest[i],
            affects |-> {t.name : t \in {s \in {x \in chosen : x.answers} : Linked(newest[i], s)}}]]
      /\ report.unchecked = {s.name : s \in {t \in chosen : ~t.answers}}
  BY DEF Report, Targets
<1>7. chosen \subseteq fleet
  BY DEF Servers
<1> HIDE DEF report, newest, chosen
<1>3. \A r : r \in listed <=> \E i \in DOMAIN newest : r = report.incidents[i]
  BY <1>2 DEF Seqs!Range
<1>4. \A i \in DOMAIN newest :
        /\ report.incidents[i].inc = newest[i]
        /\ report.incidents[i].affects = {t.name : t \in {s \in {x \in chosen : x.answers} : Linked(newest[i], s)}}
  BY <1>2
<1> HIDE DEF listed
<1>5. {r.inc : r \in listed} = Seqs!Range(feed)
  <2>1. \A x : x \in {r.inc : r \in listed} <=> \E i \in DOMAIN newest : x = newest[i]
    BY <1>3, <1>4
  <2>2. \A x : x \in Seqs!Range(newest) <=> \E i \in DOMAIN newest : x = newest[i]
    BY DEF Seqs!Range
  <2> QED
    BY <1>1, <2>1, <2>2
<1>6. ASSUME NEW s \in chosen, NEW r \in listed, Touches(r.inc, s)
      PROVE  s.name \in r.affects \cup report.unchecked
  <2>1. PICK i \in DOMAIN newest : r = report.incidents[i]
    BY <1>3
  <2>2. newest[i] \in Incident(P, D)
    BY <1>1
  <2>3. Linked(newest[i], s)
    BY <1>4, <1>6, <1>7, <2>1, <2>2, OwnNodeIsFound
  <2>4. CASE s.answers
    BY <1>4, <2>1, <2>3, <2>4
  <2>5. CASE ~s.answers
    BY <1>2, <2>5
  <2> QED
    BY <2>4, <2>5
<1>8. ASSUME NEW r \in listed
      PROVE  r.affects \cup report.unchecked \subseteq {s.name : s \in chosen}
  <2>1. PICK i \in DOMAIN newest : r = report.incidents[i]
    BY <1>3
  <2> QED
    BY <1>2, <1>4, <2>1
<1> QED
  BY <1>5, <1>6, <1>8, Zenon DEF UncheckedIsNotClear, report, listed, chosen

----------------------------------------------------------------------------
(* The inputs *)

\* An input is one of those that were given, and it stays the same.
IsGiven ==
  \/ \E e \in Exports : input = [of |-> "csv", file |-> e.file, fleet |-> e.fleet]
  \/ \E l \in Lookups : input = [of |-> "find", kind |-> l.kind, list |-> l.list, ref |-> l.ref]
  \/ \E u \in Usages : input = [of |-> "usage", samples |-> u.samples, days |-> u.days]
  \/ \E f \in Feeds : input = [of |-> "feed", feed |-> f.feed, fleet |-> f.fleet, pick |-> f.pick]
  \/ \E i \in Infos : input = [of |-> "info", info |-> i.info, state |-> i.state]
  \/ \E a, b \in Tags : input = [of |-> "tags", a |-> a, b |-> b]

LEMMA StaysGiven == Spec => []IsGiven
<1>1. Init => IsGiven
  BY DEF Init, IsGiven
<1>2. IsGiven /\ [Next]_input => IsGiven'
  BY Zenon DEF IsGiven, Next
<1> QED
  BY <1>1, <1>2, PTL DEF Spec

\* ParseCSV reads every complete row of any export whose columns each hold one
\* kind of cell, and never gives two rows one name; server import leaves out no
\* VPS of it but one whose name another has, of any fleet.
THEOREM ExportsAreRead == Spec => []ExportIsRead
<1>1. IsGiven => ExportIsRead
  <2> SUFFICES ASSUME IsGiven, input.of = "csv"
               PROVE  /\ EveryPairIsRead(input.file) /\ NamesAreDistinct(input.file)
                      /\ OnlyClashesAreLeftOut(input.fleet, input.file)
    BY DEF ExportIsRead
  <2>1. PICK e \in Exports : input.file = e.file /\ input.fleet = e.fleet
    BY DEF IsGiven
  <2>2. e.fleet \in Config /\ IsPortalFile(e.file)
    BY AlgorithmsAssumption
  <2> QED
    BY <2>1, <2>2, ReadOfPortal, OnlyClashes
<1> QED
  BY <1>1, StaysGiven, PTL

\* In a listing of any length and any names: a full name stands for its own
\* object, the order of the listing does not matter, and a letter more never
\* leads to another object.
THEOREM ReferencesAreSafe == Spec => []ReferenceIsSafe
<1>1. IsGiven => ReferenceIsSafe
  <2> SUFFICES ASSUME IsGiven, input.of = "find"
               PROVE  /\ FullNameIsUnmistakable(input.kind, input.list)
                      /\ OrderIsNoMatter(input.kind, input.list, input.ref)
                      /\ \A x \in Letter :
                           MoreSpecificIsSafe(input.kind, input.list, input.ref, Append(input.ref, x))
    BY DEF ReferenceIsSafe
  <2>1. PICK l \in Lookups : input.kind = l.kind /\ input.list = l.list /\ input.ref = l.ref
    BY DEF IsGiven
  <2>2. l.kind \in Kinds /\ l.ref \in Text /\ l.list \in Seq(Objects)
    BY AlgorithmsAssumption DEF Text, Objects
  <2>3. \A x \in Letter : Append(l.ref, x) \in Text
    BY <2>2 DEF Text
  <2> QED
    BY <2>1, <2>2, <2>3, FullNames, TheOtherWay, MoreTyped
<1> QED
  BY <1>1, StaysGiven, PTL

\* Of samples in any number and order and any --days: the daily rows, the totals
\* and the raw samples are of one span, each day's load lies among its samples',
\* and the span is the latest days, as many as were asked for.
THEOREM UsageIsAlwaysOneSpan == Spec => []UsageIsOneSpan
<1>1. IsGiven => UsageIsOneSpan
  <2> SUFFICES ASSUME IsGiven, input.of = "usage"
               PROVE  OneSpan(input.samples, input.days) /\ TheLatestDays(input.samples, input.days)
    BY DEF UsageIsOneSpan
  <2>1. PICK u \in Usages : input.samples = u.samples /\ input.days = u.days
    BY DEF IsGiven
  <2>2. u.samples \in Seq(Sample) /\ u.days \in Int
    BY AlgorithmsAssumption
  <2> QED
    BY <2>1, <2>2, SpanIsOne, LatestDays
<1> QED
  BY <1>1, StaysGiven, PTL

\* Of any feed and any fleet: the verdict and the number that are open are the
\* feed's whatever is listed, the last change comes first, and of the servers that
\* --server and --tag choose, none that an incident names passes for a clear one.
THEOREM IncidentsAreAlwaysShown == Spec => []IncidentsAreShown
<1>1. IsGiven => IncidentsAreShown
  <2> SUFFICES ASSUME IsGiven, input.of = "feed"
               PROVE  /\ OneVerdict(input.feed, input.fleet, input.pick)
                      /\ UncheckedIsNotClear(input.feed, input.fleet, input.pick)
    BY DEF IncidentsAreShown
  <2>1. PICK f \in Feeds : input.feed = f.feed /\ input.fleet = f.fleet /\ input.pick = f.pick
    BY DEF IsGiven
  <2>2. f.feed \in Seq(Incident(Place, Digit)) /\ \A s \in f.fleet : s.node \in Seq(Digit)
    BY AlgorithmsAssumption
  <2> QED
    BY <2>1, <2>2, VerdictIs, NobodyPasses
<1> QED
  BY <1>1, StaysGiven, PTL

\* Whatever KiwiVM says of a VPS: no trouble is hidden, and the location's
\* multiplier changes no alert.
THEOREM AlertsAreAlwaysSound == Spec => []AlertsAreSound
<1>1. IsGiven => AlertsAreSound
  <2> SUFFICES ASSUME IsGiven, input.of = "info"
               PROVE  AlertingHidesNoTrouble(input.info, input.state) /\ ScaleIsNoMatter(input.info, input.state)
    BY DEF AlertsAreSound
  <2>1. PICK i \in Infos : input.info = i.info /\ input.state = i.state
    BY DEF IsGiven
  <2>2. i.info \in Info(Address)
    BY AlgorithmsAssumption
  <2> QED
    BY <2>1, <2>2, TroubleIsShown, ScaleNeverMatters
<1> QED
  BY <1>1, StaysGiven, PTL

\* For all versions: a chain of updates never comes back to where it began, and
\* the latest release is not installed twice.
THEOREM UpdatesAlwaysLeadUp == Spec => []Upwards
<1>1. IsGiven => Upwards
  <2> SUFFICES ASSUME IsGiven, input.of = "tags", NEW c \in Tags
               PROVE  UpdatesLeadUp(input.a, input.b, c)
    BY DEF Upwards
  <2>1. PICK a \in Tags, b \in Tags : input.a = a /\ input.b = b
    BY DEF IsGiven
  <2>2. a \in Version /\ b \in Version /\ c \in Version
    BY <2>1, AlgorithmsAssumption
  <2> QED
    BY <2>1, <2>2, NewerLeadsUp
<1> QED
  BY <1>1, StaysGiven, PTL

=============================================================================
