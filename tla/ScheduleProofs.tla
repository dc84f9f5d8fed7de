--------------------------- MODULE ScheduleProofs ---------------------------
(***************************************************************************)
(* What an accepted schedule promises, proved for any rungs, caps, bounds  *)
(* and thresholds, of any number, as long as its own total is not          *)
(* overflowed.                                                             *)
(*                                                                         *)
(* CumulativeTo is a loop: that its recursive definition has a solution,   *)
(* and that its totals grow, is shown by taking the least delivery at      *)
(* which it would fail.                                                    *)
(***************************************************************************)
EXTENDS Schedule, WellFoundedInduction, TLAPS

-----------------------------------------------------------------------------
(* Recursion over deliveries *)

\* A set of naturals with an element has a least one.
LEMMA Least ==
    ASSUME NEW T, T \subseteq Nat, T # {}
    PROVE  \E x \in T : \A y \in T : x <= y
<1>1. PICK R : IsWellFoundedOn(R, Nat) /\ \A x, y \in Nat : <<y, x>> \in R <=> y < x
  <2> DEFINE R == OpToRel(<, Nat)
  <2>1. IsWellFoundedOn(R, Nat)
    BY NatLessThanWellFounded
  <2>2. \A x, y \in Nat : <<y, x>> \in R <=> y < x
    BY DEF OpToRel
  <2> QED
    BY <2>1, <2>2, Zenon
<1>2. PICK x \in T : \A y \in T : ~(<<y, x>> \in R)
  BY <1>1, WFMin
<1>3. \A y \in T : ~(y < x)
  BY <1>1, <1>2, Zenon
<1> QED
  BY <1>3

\* A loop that starts at a and applies F[k] in its k-th pass has a value after
\* every number of passes.
LEMMA LoopHasValues ==
    ASSUME NEW a \in Int, NEW F \in [Nat -> [Int -> Int]]
    PROVE  \E g \in [Nat -> Int] : g[0] = a /\ \A k \in Nat : g[k + 1] = F[k][g[k]]
<1> DEFINE Good(p, m) == p[0] = a /\ \A k \in 0..(m - 1) : p[k + 1] = F[k][p[k]]
<1>1. \A m \in Nat : \E p \in [0..m -> Int] : Good(p, m)
  <2> DEFINE T == {m \in Nat : ~\E p \in [0..m -> Int] : Good(p, m)}
  <2>1. SUFFICES ASSUME T # {} PROVE FALSE
    OBVIOUS
  <2>2. PICK m \in T : \A y \in T : m <= y
    BY <2>1, Least
  <2>3. m # 0
    <3>1. [i \in 0..0 |-> a] \in [0..0 -> Int] /\ Good([i \in 0..0 |-> a], 0)
      OBVIOUS
    <3> QED
      BY <3>1
  <2>4. m - 1 \in Nat /\ ~(m <= m - 1) /\ m \in Nat
    BY <2>2, <2>3
  <2>5. m - 1 \notin T
    BY <2>2, <2>4
  <2>6. PICK p \in [0..(m - 1) -> Int] : Good(p, m - 1)
    BY <2>4, <2>5
  <2> DEFINE last == F[m - 1][p[m - 1]]
             q == [i \in 0..m |-> IF i = m THEN last ELSE p[i]]
  <2>7. q \in [0..m -> Int]
    <3>1. m - 1 \in 0..(m - 1)
      BY <2>4
    <3>2. p[m - 1] \in Int /\ F[m - 1] \in [Int -> Int]
      BY <2>4, <2>6, <3>1
    <3>3. last \in Int
      BY <3>2
    <3> HIDE DEF last
    <3> QED
      BY <2>4, <2>6, <3>3
  <2>8. Good(q, m)
    <3>1. q[0] = a
      BY <2>3, <2>4, <2>6
    <3>2. ASSUME NEW k \in 0..(m - 1) PROVE q[k + 1] = F[k][q[k]]
      <4>1. q[k] = p[k] /\ k \in Nat /\ k + 1 \in 0..m
        BY <2>4
      <4>2. CASE k = m - 1
        <5>1. q[k + 1] = last
          BY <2>4, <4>2
        <5> QED
          BY <4>1, <4>2, <5>1
      <4>3. CASE k # m - 1
        <5>1. k \in 0..((m - 1) - 1) /\ k + 1 # m
          BY <2>4, <4>3
        <5>2. p[k + 1] = F[k][p[k]]
          BY <2>6, <5>1
        <5>3. q[k + 1] = p[k + 1]
          BY <4>1, <5>1
        <5> QED
          BY <4>1, <5>2, <5>3
      <4> QED
        BY <4>2, <4>3
    <3> QED
      BY <3>1, <3>2
  <2> QED
    BY <2>7, <2>8
<1>2. ASSUME NEW n1 \in Nat, NEW n2 \in Nat, n1 <= n2,
             NEW p \in [0..n1 -> Int], NEW q \in [0..n2 -> Int], Good(p, n1), Good(q, n2)
      PROVE  p[n1] = q[n1]
  <2> DEFINE T == {i \in 0..n1 : p[i] # q[i]}
  <2>0. n1 \in 0..n1
    OBVIOUS
  <2>1. SUFFICES ASSUME T # {} PROVE FALSE
    BY <2>0
  <2>2. PICK i \in T : \A y \in T : i <= y
    <3>1. T \subseteq Nat
      OBVIOUS
    <3> HIDE DEF T
    <3> QED
      BY <2>1, <3>1, Least
  <2>3. i # 0
    BY <1>2
  <2>4. i \in Nat /\ i - 1 \in 0..n1 /\ ~(i <= i - 1)
    BY <2>2, <2>3
  <2>5. i - 1 \notin T
    BY <2>2, <2>4
  <2>6. i - 1 \in 0..(n1 - 1) /\ i - 1 \in 0..(n2 - 1) /\ (i - 1) + 1 = i
    BY <2>3, <2>4, <1>2
  <2> QED
    BY <2>4, <2>5, <2>6, <1>2
<1> DEFINE P(m) == CHOOSE p \in [0..m -> Int] : Good(p, m)
           g == [m \in Nat |-> P(m)[m]]
<1>3. \A m \in Nat : P(m) \in [0..m -> Int] /\ Good(P(m), m)
  BY <1>1
<1> HIDE DEF P
<1>4. g \in [Nat -> Int]
  BY <1>3
<1>5. g[0] = a
  BY <1>3
<1>6. ASSUME NEW k \in Nat PROVE g[k + 1] = F[k][g[k]]
  <2> HIDE DEF Good
  <2>1. k + 1 \in Nat /\ k <= k + 1
    OBVIOUS
  <2>2. P(k) \in [0..k -> Int] /\ Good(P(k), k)
    BY <1>3, Zenon
  <2>3. P(k + 1) \in [0..(k + 1) -> Int] /\ Good(P(k + 1), k + 1)
    BY <1>3, <2>1, Zenon
  <2>4. P(k + 1)[k + 1] = F[k][P(k + 1)[k]]
    BY <2>3 DEF Good
  <2>5. P(k)[k] = P(k + 1)[k]
    BY <1>2, <2>1, <2>2, <2>3
  <2> QED
    BY <2>1, <2>4, <2>5
<1> QED
  BY <1>4, <1>5, <1>6

-----------------------------------------------------------------------------
(* CumulativeTo *)

LEMMA MinOfTwo ==
    ASSUME NEW a \in Int, NEW b \in Int
    PROVE  Min({a, b}) = IF a <= b THEN a ELSE b
  BY DEF Min

\* Every wait after the first delivery is one of the configured rungs.
LEMMA RungIsGiven ==
    ASSUME NEW s \in Schedules, NEW i \in Nat, i >= 2
    PROVE  RungBefore(s, i) \in Rungs
<1> USE ScheduleAssumption
<1>1. s.ackWait \in Rungs /\ s.backOff \in BackOffs
  BY DEF Schedules
<1>2. PICK k \in 0..MaxRungs : s.backOff \in [1..k -> Rungs]
  BY <1>1 DEF BackOffs
<1>3. Len(s.backOff) = k /\ DOMAIN s.backOff = 1..k
  BY <1>2
<1>4. CASE s.backOff # <<>>
  <2>1. RungBefore(s, i) = s.backOff[Min({i - 1, Len(s.backOff)})]
    BY <1>4 DEF RungBefore
  <2>2. k # 0
    BY <1>2, <1>3, <1>4
  <2>3. Min({i - 1, k}) \in 1..k
    <3>1. k \in Int /\ k >= 1 /\ i - 1 \in Int /\ i - 1 >= 1
      BY <1>2, <2>2
    <3>2. Min({i - 1, k}) = IF i - 1 <= k THEN i - 1 ELSE k
      BY <3>1, MinOfTwo
    <3> QED
      BY <3>1, <3>2
  <2> QED
    BY <1>2, <1>3, <2>1, <2>3
<1>5. CASE s.backOff = <<>>
  BY <1>1, <1>5 DEF RungBefore
<1> QED
  BY <1>4, <1>5

LEMMA RungFacts ==
    ASSUME NEW s \in Schedules, NEW i \in Nat
    PROVE  /\ RungBefore(s, i) \in 0..MaxDuration
           /\ i >= 2 => RungBefore(s, i) > 0
<1> USE ScheduleAssumption
<1>1. \A r \in Rungs : r \in 0..MaxDuration /\ r > 0
  OBVIOUS
<1>2. CASE i < 2
  BY <1>2 DEF RungBefore
<1>3. CASE i >= 2
  BY <1>1, <1>3, RungIsGiven
<1> QED
  BY <1>2, <1>3

\* CumulativeTo adds the rungs up one by one, as the loop of the code does.
LEMMA CumulativeSteps ==
    ASSUME NEW s \in Schedules, NEW k \in Nat
    PROVE  /\ CumulativeTo(s, k) \in Int
           /\ CumulativeTo(s, k) = IF k < 2 THEN 0
                                   ELSE Wrapped(CumulativeTo(s, k - 1) + RungBefore(s, k))
<1> USE ScheduleAssumption
<1> DEFINE Step(i, v) == IF i < 2 THEN 0 ELSE Wrapped(v + RungBefore(s, i))
           F == [i \in Nat |-> [v \in Int |-> Step(i + 1, v)]]
<1>1. \A i \in Nat, v \in Int : Step(i, v) \in Int
  BY RungFacts DEF Wrapped
<1>2. F \in [Nat -> [Int -> Int]]
  BY <1>1
<1>3. PICK g \in [Nat -> Int] : g[0] = 0 /\ \A i \in Nat : g[i + 1] = F[i][g[i]]
  <2> HIDE DEF F
  <2>1. 0 \in Int
    OBVIOUS
  <2> QED
    BY <1>2, <2>1, LoopHasValues
<1>4. ASSUME NEW i \in Nat PROVE g[i] = IF i < 2 THEN 0 ELSE Wrapped(g[i - 1] + RungBefore(s, i))
  <2>1. CASE i = 0
    BY <1>3, <2>1
  <2>2. CASE i # 0
    <3>1. i - 1 \in Nat /\ (i - 1) + 1 = i
      BY <2>2
    <3>2. g[(i - 1) + 1] = F[i - 1][g[i - 1]]
      BY <1>3, <3>1
    <3>3. F[i - 1][g[i - 1]] = Step((i - 1) + 1, g[i - 1])
      BY <1>3, <3>1
    <3> QED
      BY <3>1, <3>2, <3>3
  <2> QED
    BY <2>1, <2>2
<1> DEFINE total[i \in Nat] == IF i < 2 THEN 0 ELSE Wrapped(total[i - 1] + RungBefore(s, i))
<1>5. g = [i \in Nat |-> IF i < 2 THEN 0 ELSE Wrapped(g[i - 1] + RungBefore(s, i))]
  BY <1>3, <1>4
<1>6. total = [i \in Nat |-> IF i < 2 THEN 0 ELSE Wrapped(total[i - 1] + RungBefore(s, i))]
  BY <1>5
<1>7. \A i \in Nat : CumulativeTo(s, i) = total[i]
  BY DEF CumulativeTo
<1> HIDE DEF total
<1>8. \A i \in Nat :
         CumulativeTo(s, i) = IF i < 2 THEN 0
                              ELSE Wrapped(CumulativeTo(s, i - 1) + RungBefore(s, i))
  BY <1>6, <1>7
<1>9. \A i \in Nat : CumulativeTo(s, i) \in Int
  <2> DEFINE T == {i \in Nat : CumulativeTo(s, i) \notin Int}
  <2>1. SUFFICES ASSUME T # {} PROVE FALSE
    OBVIOUS
  <2>2. PICK i \in T : \A j \in T : i <= j
    BY <2>1, Least
  <2>3. i \in Nat /\ ~(i < 2)
    BY <1>8, <2>2
  <2>4. i - 1 \in Nat /\ ~(i <= i - 1)
    BY <2>3
  <2>5. CumulativeTo(s, i - 1) \in Int
    BY <2>2, <2>4
  <2>6. CumulativeTo(s, i) = Wrapped(CumulativeTo(s, i - 1) + RungBefore(s, i))
    BY <1>8, <2>3
  <2>7. RungBefore(s, i) \in Int
    BY <2>3, RungFacts
  <2>8. CumulativeTo(s, i) \in Int
    BY <2>5, <2>6, <2>7 DEF Wrapped
  <2> QED
    BY <2>2, <2>8
<1> QED
  BY <1>8, <1>9

-----------------------------------------------------------------------------
(* A ladder that does not overflow *)

\* Every sum of the loop over the ladder of s is a duration.
Fits(s) == \A k \in 2..DeadLetterDelivery(s) :
    CumulativeTo(s, k - 1) + RungBefore(s, k) <= MaxDuration

LEMMA FitsAdds ==
    ASSUME NEW s \in Schedules, Fits(s), NEW k \in Nat, 1 <= k, k < DeadLetterDelivery(s),
           DeadLetterDelivery(s) \in Nat
    PROVE  CumulativeTo(s, k + 1) = CumulativeTo(s, k) + RungBefore(s, k + 1)
<1>1. k + 1 \in 2..DeadLetterDelivery(s) /\ k + 1 \in Nat /\ (k + 1) - 1 = k /\ ~(k + 1 < 2)
  OBVIOUS
<1>2. CumulativeTo(s, k + 1) = Wrapped(CumulativeTo(s, k) + RungBefore(s, k + 1))
  BY <1>1, CumulativeSteps
<1>3. CumulativeTo(s, k) + RungBefore(s, k + 1) <= MaxDuration
  BY <1>1 DEF Fits
<1>4. CumulativeTo(s, k) \in Int /\ RungBefore(s, k + 1) \in Int /\ MaxDuration \in Int
  BY <1>1, CumulativeSteps, RungFacts, ScheduleAssumption
<1> QED
  BY <1>2, <1>3, <1>4 DEF Wrapped

\* The totals grow along the ladder.
LEMMA CumulativeGrows ==
    ASSUME NEW s \in Schedules, Fits(s), DeadLetterDelivery(s) \in Nat,
           NEW j \in Nat, NEW k \in Nat, 1 <= j, j <= k, k <= DeadLetterDelivery(s)
    PROVE  CumulativeTo(s, j) <= CumulativeTo(s, k)
<1> DEFINE T == {i \in Nat : j <= i /\ i <= k /\ ~(CumulativeTo(s, j) <= CumulativeTo(s, i))}
<1>1. \A i \in Nat : CumulativeTo(s, i) \in Int
  BY CumulativeSteps
<1>2. SUFFICES ASSUME T # {} PROVE FALSE
  OBVIOUS
<1>3. PICK i \in T : \A y \in T : i <= y
  BY <1>2, Least
<1>4. i \in Nat /\ j <= i /\ i <= k /\ ~(CumulativeTo(s, j) <= CumulativeTo(s, i)) /\ i # j
  BY <1>1, <1>3
<1>5. i - 1 \in Nat /\ j <= i - 1 /\ i - 1 <= k /\ ~(i <= i - 1) /\ (i - 1) + 1 = i
      /\ 1 <= i - 1 /\ i - 1 < DeadLetterDelivery(s)
  BY <1>4
<1>6. CumulativeTo(s, j) <= CumulativeTo(s, i - 1)
  BY <1>3, <1>5
<1>7. CumulativeTo(s, i) = CumulativeTo(s, i - 1) + RungBefore(s, i)
  BY <1>5, FitsAdds
<1>8. RungBefore(s, i) \in Nat
  BY <1>4, RungFacts, ScheduleAssumption
<1> QED
  BY <1>1, <1>4, <1>5, <1>6, <1>7, <1>8

\* What an accepted schedule is: it has a terminal delivery within its cap, its
\* breaker weighs a message by then, and its checks came out clean.
LEMMA AcceptedFacts ==
    ASSUME NEW s \in Accepted
    PROVE  /\ s \in Schedules
           /\ s.maxDeliver \in Nat /\ s.reserve \in Nat
           /\ DeadLetterDelivery(s) \in Nat /\ DeadLetterDelivery(s) >= 1
           /\ DeadLetterDelivery(s) <= s.maxDeliver
           /\ s.minDeliveries \in Nat /\ s.minDeliveries <= DeadLetterDelivery(s)
           /\ s.recoverBy \in Nat /\ s.recoverBy >= 1
           /\ s.maxTime \in Nat /\ s.maxAge \in Nat /\ s.floorAge \in Nat
           /\ ~PastBound(s) /\ ~OutlivesStream(s) /\ ~RecoversTooLate(s) /\ ~InertBreaker(s)
<1> USE ScheduleAssumption
<1>1. s \in Schedules /\ NewRetry(s) /\ Coherent(s)
  BY DEF Accepted
<1>2. /\ s.maxDeliver \in Int /\ s.reserve \in Nat /\ s.minDeliveries \in Nat \ {0}
      /\ s.recoverBy \in Nat \ {0} /\ s.maxTime \in Nat /\ s.maxAge \in Nat /\ s.floorAge \in Nat
  BY <1>1 DEF Schedules
<1>3. s.maxDeliver > 0 /\ s.minDeliveries <= DeadLetterDelivery(s)
  BY <1>1 DEF NewRetry
<1>4. /\ s.maxDeliver \in Nat /\ DeadLetterDelivery(s) \in Nat /\ DeadLetterDelivery(s) >= 1
      /\ DeadLetterDelivery(s) <= s.maxDeliver
  BY <1>2, <1>3 DEF DeadLetterDelivery
<1>5. ~PastBound(s) /\ ~OutlivesStream(s) /\ ~RecoversTooLate(s) /\ ~InertBreaker(s)
  BY <1>1, <1>3, <1>4 DEF Coherent
<1> QED
  BY <1>1, <1>2, <1>3, <1>4, <1>5

\* A ladder fits if as many rungs as it has deliveries, each as long as the
\* longest, are still a duration.
LEMMA ShortLaddersFit ==
    ASSUME NEW s \in Accepted, NEW r \in Nat, \A x \in Rungs : x <= r,
           r * DeadLetterDelivery(s) <= MaxDuration
    PROVE  Fits(s)
<1> DEFINE D == DeadLetterDelivery(s)
           Sum(k) == CumulativeTo(s, k - 1) + RungBefore(s, k)
           T == {k \in 1..D : ~(CumulativeTo(s, k) <= r * k /\ (k >= 2 => Sum(k) <= MaxDuration))}
<1>1. s \in Schedules /\ D \in Nat /\ MaxDuration \in Nat /\ Rungs \subseteq Nat
  BY AcceptedFacts, ScheduleAssumption
<1>2. SUFFICES ASSUME T # {} PROVE FALSE
  BY <1>1 DEF Fits
<1>3. PICK k \in T : \A y \in T : k <= y
  <2>1. T \subseteq Nat
    BY <1>1
  <2> HIDE DEF T
  <2> QED
    BY <1>2, <2>1, Least
<1>4. CumulativeTo(s, 1) = 0 /\ CumulativeTo(s, 1) <= r * 1
  BY <1>1, CumulativeSteps
<1>5. k # 1
  BY <1>4
<1>6. k \in Nat /\ k >= 2 /\ k <= D /\ k - 1 \in 1..D /\ ~(k <= k - 1) /\ k - 1 \in Nat
  BY <1>1, <1>3, <1>5
<1>7. CumulativeTo(s, k - 1) <= r * (k - 1)
  BY <1>3, <1>6
<1>8. RungBefore(s, k) \in Nat /\ RungBefore(s, k) <= r
  <2>1. RungBefore(s, k) \in 0..MaxDuration
    BY <1>1, <1>6, RungFacts
  <2>2. RungBefore(s, k) \in Rungs
    BY <1>1, <1>6, RungIsGiven
  <2> QED
    BY <1>1, <2>1, <2>2
<1>9. r * (k - 1) + r = r * k /\ r * k <= r * D /\ r * D <= MaxDuration
  BY <1>1, <1>6
<1>10. CumulativeTo(s, k - 1) \in Int
  BY <1>1, <1>6, CumulativeSteps
<1>11. Sum(k) <= r * k /\ Sum(k) <= MaxDuration /\ Sum(k) \in Int
  <2>1. r * k \in Int /\ r * (k - 1) \in Int /\ r * D \in Int
    BY <1>1, <1>6
  <2> QED
    BY <1>1, <1>7, <1>8, <1>9, <1>10, <2>1
<1>12. CumulativeTo(s, k) = Sum(k)
  BY <1>1, <1>6, <1>11, CumulativeSteps DEF Wrapped
<1> QED
  BY <1>3, <1>11, <1>12

\* A set of naturals with a bound and an element has a greatest one.
LEMMA MaxOfBounded ==
    ASSUME NEW T, T \subseteq Nat, T # {}, NEW m \in Nat, \A y \in T : y <= m
    PROVE  Max(T) \in T /\ \A y \in T : y <= Max(T)
<1> DEFINE U == {u \in Nat : \A y \in T : y <= u}
<1>1. PICK u \in U : \A v \in U : u <= v
  <2>1. U \subseteq Nat /\ m \in U
    OBVIOUS
  <2> HIDE DEF U
  <2> QED
    BY <2>1, Least
<1>2. u \in T
  <2> SUFFICES ASSUME u \notin T PROVE FALSE
    OBVIOUS
  <2>1. \A y \in T : y <= u /\ y # u /\ y \in Nat
    BY <1>1
  <2>2. u # 0
    <3>1. \E y \in T : TRUE
      OBVIOUS
    <3> QED
      BY <2>1, <3>1
  <2>3. u - 1 \in Nat /\ ~(u <= u - 1) /\ \A y \in T : y <= u - 1
    BY <1>1, <2>1, <2>2
  <2> QED
    BY <1>1, <2>3
<1>3. \E x \in T : \A y \in T : x >= y
  BY <1>1, <1>2
<1>4. Max(T) \in T /\ \A y \in T : Max(T) >= y
  BY <1>3 DEF Max
<1> QED
  BY <1>4

\* No wait before the terminal delivery is longer than the longest one.
LEMMA RungBounded ==
    ASSUME NEW s \in Schedules, DeadLetterDelivery(s) \in Nat, NEW i \in 2..DeadLetterDelivery(s)
    PROVE  RungBefore(s, i) <= LongestRung(s) /\ LongestRung(s) \in Nat
<1> DEFINE T == {0} \cup {RungBefore(s, j) : j \in 2..DeadLetterDelivery(s)}
<1>1. \A j \in 2..DeadLetterDelivery(s) : RungBefore(s, j) \in 0..MaxDuration
  BY RungFacts
<1>2. T \subseteq Nat /\ T # {} /\ MaxDuration \in Nat /\ \A y \in T : y <= MaxDuration
  BY <1>1, ScheduleAssumption
<1>3. RungBefore(s, i) \in T
  OBVIOUS
<1>4. Max(T) \in T /\ \A y \in T : y <= Max(T)
  <2> HIDE DEF T
  <2> QED
    BY <1>2, MaxOfBounded
<1>5. LongestRung(s) = Max(T)
  BY DEF LongestRung
<1> HIDE DEF T
<1> QED
  BY <1>2, <1>3, <1>4, <1>5

-----------------------------------------------------------------------------
(* A message on the ladder *)

\* The server's lease on a delivery is the wait before the next.
LEMMA LeaseIsRung ==
    ASSUME sched \in Schedules, n \in Nat, n >= 1
    PROVE  Lease = RungBefore(sched, n + 1)
<1>1. PICK k \in Nat : DOMAIN sched.backOff = 1..k /\ Len(sched.backOff) = k
  <2>1. sched.backOff \in BackOffs
    BY DEF Schedules
  <2>2. PICK k \in 0..MaxRungs : sched.backOff \in [1..k -> Rungs]
    BY <2>1 DEF BackOffs
  <2> QED
    BY <2>2, ScheduleAssumption
<1>2. (n + 1) - 1 = n /\ n + 1 >= 2 /\ ~(n + 1 < 2)
  OBVIOUS
<1>3. Min({n, Len(sched.backOff)}) = IF n <= Len(sched.backOff) THEN n ELSE Len(sched.backOff)
  BY <1>1, MinOfTwo
<1>4. CASE sched.backOff = <<>>
  BY <1>2, <1>4 DEF Lease, RungBefore
<1>5. CASE sched.backOff # <<>>
  BY <1>2, <1>3, <1>5 DEF Lease, RungBefore
<1> QED
  BY <1>4, <1>5

\* A message is on schedule up to its terminal delivery, and late after it, by no more
\* than the time on top.
OnSchedule ==
    /\ n <= DeadLetterDelivery(sched) => at = CumulativeTo(sched, n) + onTop
    /\ n >= DeadLetterDelivery(sched) => at = TimeToDeadLetter(sched) + onTop

LadderInv ==
    /\ sched \in Accepted /\ lag \in Nat /\ noticed \in -1..PollLag
    /\ noticed # -1 => sched.floorAge > 0
    /\ n \in 1..sched.maxDeliver
    /\ at \in Nat /\ first \in Nat \cup {-1}
    /\ failed \in 0..n /\ onTop \in Nat
    /\ failed # 0 => first # -1
    /\ outcome \in {"riding", "quarantined", "exhausted", "discarded"}
    /\ PinIsBounded

Promises ==
    Fits(sched) =>
        /\ outcome = "riding" => OnSchedule
        /\ RecoveryWindowIsSafe
        /\ DeadLetterInTime

\* What the steps know of the schedule they are on.
LEMMA RideFacts ==
    ASSUME LadderInv
    PROVE  /\ sched \in Schedules /\ sched.maxDeliver \in Nat /\ sched.reserve \in Nat
           /\ DeadLetterDelivery(sched) \in Nat /\ DeadLetterDelivery(sched) >= 1
           /\ DeadLetterDelivery(sched) = sched.maxDeliver - sched.reserve
           /\ sched.minDeliveries \in Nat /\ sched.minDeliveries >= 1
           /\ sched.recoverBy \in Nat /\ sched.floorAge \in Nat
           /\ sched.maxTime \in Nat /\ sched.maxAge \in Nat
           /\ ~PastBound(sched) /\ ~OutlivesStream(sched)
           /\ ~RecoversTooLate(sched) /\ ~InertBreaker(sched)
           /\ n \in Nat /\ n >= 1 /\ n <= sched.maxDeliver
           /\ at \in Nat /\ onTop \in Nat /\ lag \in Nat /\ noticed \in Int /\ failed \in Nat
           /\ Lease = RungBefore(sched, n + 1) /\ Lease \in Nat /\ Lease > 0
           /\ TimeToDeadLetter(sched) \in Int
           /\ \A k \in Nat : CumulativeTo(sched, k) \in Int
<1>1. /\ sched \in Schedules /\ sched.maxDeliver \in Nat /\ sched.reserve \in Nat
      /\ DeadLetterDelivery(sched) \in Nat /\ DeadLetterDelivery(sched) >= 1
      /\ sched.minDeliveries \in Nat
      /\ sched.recoverBy \in Nat /\ sched.floorAge \in Nat
      /\ sched.maxTime \in Nat /\ sched.maxAge \in Nat
      /\ ~PastBound(sched) /\ ~OutlivesStream(sched)
      /\ ~RecoversTooLate(sched) /\ ~InertBreaker(sched)
  BY AcceptedFacts DEF LadderInv
<1>2. n \in Nat /\ n >= 1 /\ n <= sched.maxDeliver
  BY <1>1 DEF LadderInv
<1>3. sched.minDeliveries >= 1
  BY <1>1, ScheduleAssumption DEF Schedules
<1>4. Lease = RungBefore(sched, n + 1)
  BY <1>1, <1>2, LeaseIsRung
<1>5. n + 1 \in Nat /\ n + 1 >= 2
  BY <1>2
<1>6. Lease \in 0..MaxDuration /\ Lease > 0
  BY <1>1, <1>4, <1>5, RungFacts
<1>7. Lease \in Nat
  BY <1>6, ScheduleAssumption
<1>8. \A k \in Nat : CumulativeTo(sched, k) \in Int
  BY <1>1, CumulativeSteps
<1>9. /\ at \in Nat /\ onTop \in Nat /\ lag \in Nat /\ noticed \in Int /\ failed \in Nat
  BY <1>1, <1>2, ScheduleAssumption DEF LadderInv
<1> QED
  BY <1>1, <1>2, <1>3, <1>4, <1>6, <1>7, <1>8, <1>9 DEF TimeToDeadLetter, DeadLetterDelivery

\* One more delivery is one more rung.
LEMMA NextRung ==
    ASSUME LadderInv, Fits(sched), OnSchedule, n < DeadLetterDelivery(sched)
    PROVE  /\ at + Lease = CumulativeTo(sched, n + 1) + onTop
           /\ CumulativeTo(sched, n + 1) <= TimeToDeadLetter(sched)
<1>1. /\ sched \in Schedules /\ DeadLetterDelivery(sched) \in Nat
      /\ n \in Nat /\ n >= 1 /\ at \in Nat /\ onTop \in Nat
      /\ Lease = RungBefore(sched, n + 1) /\ Lease \in Nat
      /\ \A k \in Nat : CumulativeTo(sched, k) \in Int
  BY RideFacts
<1>2. n + 1 \in Nat /\ 1 <= n + 1 /\ n + 1 <= DeadLetterDelivery(sched)
  BY <1>1
<1>3. CumulativeTo(sched, n + 1) = CumulativeTo(sched, n) + RungBefore(sched, n + 1)
  BY <1>1, FitsAdds
<1>4. CumulativeTo(sched, n + 1) <= CumulativeTo(sched, DeadLetterDelivery(sched))
  BY <1>1, <1>2, CumulativeGrows
<1>5. at = CumulativeTo(sched, n) + onTop
  BY <1>1 DEF OnSchedule
<1> QED
  BY <1>1, <1>3, <1>4, <1>5 DEF TimeToDeadLetter

\* A wait inside the ladder outlives the stream only with lag or time on top.
LEMMA DiscardedByMargin ==
    ASSUME LadderInv, Fits(sched), OnSchedule, n < DeadLetterDelivery(sched),
           NEW x \in Nat, ~Retained(at + x + Lease)
    PROVE  lag + onTop + x > 0
<1>1. /\ at \in Nat /\ onTop \in Nat /\ lag \in Nat /\ Lease \in Nat /\ n \in Nat
      /\ sched.maxAge \in Nat /\ ~OutlivesStream(sched)
      /\ TimeToDeadLetter(sched) \in Int
      /\ \A k \in Nat : CumulativeTo(sched, k) \in Int
  BY RideFacts
<1>2. sched.maxAge > 0 /\ ~(lag + (at + x + Lease) < sched.maxAge)
  BY <1>1 DEF Retained
<1>3. ~(TimeToDeadLetter(sched) >= sched.maxAge)
  BY <1>1, <1>2 DEF OutlivesStream
<1>4. /\ at + Lease = CumulativeTo(sched, n + 1) + onTop
      /\ CumulativeTo(sched, n + 1) <= TimeToDeadLetter(sched)
  BY NextRung
<1>5. CumulativeTo(sched, n + 1) \in Int
  BY <1>1
<1> QED
  BY <1>1, <1>2, <1>3, <1>4, <1>5

\* A message the breaker claims was not one that could still recover in time.
LEMMA TripsLate ==
    ASSUME LadderInv, Fits(sched), OnSchedule, onTop = 0,
           NEW t \in at..(at + Lease), NEW since \in Nat,
           sched.floorAge > 0, t - since >= sched.floorAge
    PROVE  n >= sched.recoverBy
<1> SUFFICES ASSUME ~(n >= sched.recoverBy) PROVE FALSE
  OBVIOUS
<1>1. /\ sched \in Schedules /\ DeadLetterDelivery(sched) \in Nat
      /\ n \in Nat /\ n >= 1 /\ at \in Nat /\ Lease \in Nat
      /\ sched.recoverBy \in Nat /\ sched.floorAge \in Nat
      /\ ~RecoversTooLate(sched)
      /\ \A k \in Nat : CumulativeTo(sched, k) \in Int
  BY RideFacts
<1>2. /\ sched.recoverBy <= DeadLetterDelivery(sched)
      /\ ~(CumulativeTo(sched, sched.recoverBy) >= sched.floorAge)
  BY <1>1 DEF RecoversTooLate
<1>3. n + 1 \in Nat /\ 1 <= n + 1 /\ n + 1 <= sched.recoverBy /\ n < DeadLetterDelivery(sched)
  BY <1>1, <1>2
<1>4. at + Lease = CumulativeTo(sched, n + 1)
  BY <1>1, <1>3, NextRung
<1>5. CumulativeTo(sched, n + 1) <= CumulativeTo(sched, sched.recoverBy)
  BY <1>1, <1>2, <1>3, CumulativeGrows
<1>6. CumulativeTo(sched, n + 1) \in Int /\ CumulativeTo(sched, sched.recoverBy) \in Int
  BY <1>1, <1>3
<1> QED
  BY <1>1, <1>2, <1>4, <1>5, <1>6

\* A rung of the ladder of an armed breaker is no longer than its threshold.
LEMMA RungWithinFloorAge ==
    ASSUME LadderInv, sched.floorAge > 0, n < DeadLetterDelivery(sched)
    PROVE  Lease <= sched.floorAge
<1>1. /\ sched \in Schedules /\ DeadLetterDelivery(sched) \in Nat /\ n \in Nat /\ n >= 1
      /\ Lease = RungBefore(sched, n + 1) /\ Lease \in Nat
      /\ sched.floorAge \in Nat /\ ~InertBreaker(sched)
  BY RideFacts
<1>2. ~(LongestRung(sched) > sched.floorAge)
  BY <1>1 DEF InertBreaker
<1>3. n + 1 \in 2..DeadLetterDelivery(sched)
  BY <1>1
<1>4. RungBefore(sched, n + 1) <= LongestRung(sched) /\ LongestRung(sched) \in Nat
  BY <1>1, <1>3, RungBounded
<1> QED
  BY <1>1, <1>2, <1>4

-----------------------------------------------------------------------------
(* The steps *)

\* A lost delivery adds one rung to the pin's bound.
LEMMA LostKeepsPin ==
    ASSUME LadderInv, Lost PROVE PinIsBounded'
<1> SUFFICES ASSUME outcome' = "riding", noticed' # -1, failed' >= sched'.minDeliveries,
                    n' <= DeadLetterDelivery(sched')
             PROVE  \E clock \in {first', noticed'} :
                        at' < clock + (n' - failed' + 1) * sched'.floorAge
  BY DEF PinIsBounded
<1>1. /\ outcome = "riding" /\ Redeliver(Lease) /\ first' = first /\ failed' = failed
      /\ sched' = sched /\ noticed' = noticed
  BY DEF Lost, fixed
<1>2. /\ at \in Nat /\ n \in Nat /\ failed \in Nat /\ Lease \in Nat /\ sched.floorAge \in Nat
      /\ DeadLetterDelivery(sched) \in Nat /\ noticed \in Int
      /\ first \in Int /\ sched.floorAge > 0
  BY <1>1, RideFacts DEF LadderInv
<1>3. n' = n + 1 /\ at' = at + Lease
  BY <1>1 DEF Redeliver
<1>4. n < DeadLetterDelivery(sched) /\ n <= DeadLetterDelivery(sched)
  BY <1>1, <1>2, <1>3
<1>5. PICK clock \in {first, noticed} : at < clock + (n - failed + 1) * sched.floorAge
  BY <1>1, <1>4 DEF LadderInv, PinIsBounded
<1>6. Lease <= sched.floorAge
  BY <1>2, <1>4, RungWithinFloorAge
<1>7. (n + 1 - failed + 1) * sched.floorAge = (n - failed + 1) * sched.floorAge + sched.floorAge
  BY <1>2
<1>8. (n - failed + 1) * sched.floorAge \in Int /\ clock \in Int
  BY <1>2, <1>5
<1>9. at + Lease < clock + ((n - failed + 1) * sched.floorAge + sched.floorAge)
  BY <1>2, <1>5, <1>6, <1>8
<1>10. at' < clock + (n' - failed' + 1) * sched.floorAge
  <2>1. n' - failed' + 1 = n + 1 - failed + 1
    BY <1>1, <1>2, <1>3
  <2>2. (n' - failed' + 1) * sched.floorAge = (n - failed + 1) * sched.floorAge + sched.floorAge
    BY <1>7, <2>1, Zenon
  <2> QED
    BY <1>3, <1>9, <2>2, Zenon
<1> QED
  BY <1>1, <1>5, <1>10

LEMMA LostStep == LadderInv /\ Promises /\ Lost => LadderInv' /\ Promises'
<1> SUFFICES ASSUME LadderInv, Promises, Lost PROVE LadderInv' /\ Promises'
  OBVIOUS
<1>1. /\ outcome = "riding" /\ Redeliver(Lease) /\ first' = first /\ failed' = failed
      /\ sched' = sched /\ lag' = lag /\ noticed' = noticed
      /\ onTop' = onTop + (IF LadderSpent THEN Lease ELSE 0)
  BY DEF Lost, fixed
<1>2. /\ at \in Nat /\ n \in Nat /\ n >= 1 /\ onTop \in Nat /\ lag \in Nat
      /\ sched.maxDeliver \in Nat
      /\ Lease \in Nat /\ Lease > 0 /\ DeadLetterDelivery(sched) \in Nat
      /\ DeadLetterDelivery(sched) = sched.maxDeliver - sched.reserve
      /\ TimeToDeadLetter(sched) \in Int /\ \A k \in Nat : CumulativeTo(sched, k) \in Int
  BY RideFacts
<1>3. /\ n < DeadLetterDelivery(sched) => onTop' = onTop
      /\ n >= DeadLetterDelivery(sched) => onTop' = onTop + Lease
  <2>1. n < DeadLetterDelivery(sched) => ~LadderSpent
    BY <1>2 DEF LadderSpent
  <2>2. n >= DeadLetterDelivery(sched) => LadderSpent
    BY <1>2 DEF LadderSpent
  <2> QED
    BY <1>1, <1>2, <2>1, <2>2
<1>4. onTop' \in Nat /\ onTop <= onTop'
  BY <1>2, <1>3
<1>5. LadderInv'
  <2>1. PinIsBounded'
    BY LostKeepsPin
  <2>2. n' \in 1..sched.maxDeliver /\ at' \in Nat /\ n <= n' /\ at <= at'
        /\ outcome' \in {"riding", "quarantined", "exhausted", "discarded"}
    BY <1>1, <1>2 DEF LadderInv, Redeliver
  <2>3. failed' \in 0..n'
    BY <1>1, <1>2, <2>2 DEF LadderInv
  <2> QED
    BY <1>1, <1>4, <2>1, <2>2, <2>3 DEF LadderInv
<1>6. ASSUME Fits(sched) PROVE /\ outcome' = "riding" => OnSchedule'
                               /\ RecoveryWindowIsSafe' /\ DeadLetterInTime'
  <2>1. OnSchedule
    BY <1>1, <1>6 DEF Promises
  <2>2. CASE Retained(at + Lease) /\ n' = n + 1 /\ at' = at + Lease /\ outcome' = outcome
    <3>1. CASE n < DeadLetterDelivery(sched)
      <4>1. onTop' = onTop
        BY <1>3, <3>1
      <4>2. at + Lease = CumulativeTo(sched, n + 1) + onTop
        BY <1>6, <2>1, <3>1, NextRung
      <4>3. n + 1 >= DeadLetterDelivery(sched) => n + 1 = DeadLetterDelivery(sched)
        BY <1>2, <3>1
      <4>4. OnSchedule'
        BY <1>1, <2>2, <4>1, <4>2, <4>3 DEF OnSchedule, TimeToDeadLetter
      <4> QED
        BY <1>1, <2>2, <4>4 DEF RecoveryWindowIsSafe, DeadLetterInTime
    <3>2. CASE n >= DeadLetterDelivery(sched)
      <4>1. onTop' = onTop + Lease
        BY <1>3, <3>2
      <4>2. at = TimeToDeadLetter(sched) + onTop
        BY <2>1, <3>2 DEF OnSchedule
      <4>3. at + Lease = TimeToDeadLetter(sched) + (onTop + Lease)
        BY <1>2, <4>2
      <4>4. ~(n + 1 <= DeadLetterDelivery(sched))
        BY <1>2, <3>2
      <4>5. OnSchedule'
        BY <1>1, <2>2, <4>1, <4>3, <4>4 DEF OnSchedule
      <4> QED
        BY <1>1, <2>2, <4>5 DEF RecoveryWindowIsSafe, DeadLetterInTime
    <3> QED
      BY <1>2, <3>1, <3>2
  <2>3. CASE ~Retained(at + Lease) /\ outcome' = "discarded" /\ UNCHANGED <<n, at>>
    <3>1. CASE n < DeadLetterDelivery(sched)
      <4>1. onTop' = onTop
        BY <1>3, <3>1
      <4>2. 0 \in Nat /\ at + 0 + Lease = at + Lease
        BY <1>2
      <4>3. lag + onTop + 0 > 0
        BY <1>6, <2>1, <2>3, <3>1, <4>2, DiscardedByMargin
      <4> QED
        BY <1>1, <1>2, <2>3, <4>1, <4>3 DEF RecoveryWindowIsSafe, DeadLetterInTime
    <3>2. CASE n >= DeadLetterDelivery(sched)
      <4>1. onTop' = onTop + Lease
        BY <1>3, <3>2
      <4> QED
        BY <1>1, <1>2, <2>3, <4>1 DEF RecoveryWindowIsSafe, DeadLetterInTime
    <3> QED
      BY <1>2, <3>1, <3>2
  <2> QED
    BY <1>1, <2>2, <2>3 DEF Redeliver
<1>7. Promises'
  BY <1>1, <1>6 DEF Promises, Fits
<1> QED
  BY <1>5, <1>7

\* A delivery that fails and is left to its lease was judged inside the threshold, and
\* the next one follows within a rung.
LEMMA RetriedKeepsPin ==
    ASSUME LadderInv, NEW x \in Nat, NEW t \in (at + x)..(at + x + Lease), NEW since \in Int,
           n < DeadLetterDelivery(sched), sched.floorAge > 0, noticed # -1,
           n >= sched.minDeliveries, ~MayTrip(t, since)
    PROVE  \E clock \in {since, noticed} :
              at + (x + Lease) < clock + (n + 1 - n + 1) * sched.floorAge
<1>1. /\ at \in Nat /\ n \in Nat /\ Lease \in Nat /\ sched.floorAge \in Nat /\ noticed \in Int
      /\ t \in Int /\ t >= at + x
  BY RideFacts
<1>2. Lease <= sched.floorAge
  BY RungWithinFloorAge
<1>3. t - noticed < sched.floorAge \/ t - since < sched.floorAge
  BY <1>1 DEF MayTrip
<1>4. PICK clock \in {since, noticed} : t - clock < sched.floorAge /\ clock \in Int
  BY <1>1, <1>3
<1>5. at + (x + Lease) < clock + (sched.floorAge + sched.floorAge)
  BY <1>1, <1>2, <1>4
<1>6. n + 1 - n + 1 = 2 /\ 2 * sched.floorAge = sched.floorAge + sched.floorAge
  BY <1>1
<1> QED
  BY <1>4, <1>5, <1>6

LEMMA FailsStep == LadderInv /\ Promises /\ Fails => LadderInv' /\ Promises'
<1> SUFFICES ASSUME LadderInv, Promises, Fails PROVE LadderInv' /\ Promises'
  OBVIOUS
<1>1. /\ outcome = "riding" /\ sched' = sched /\ lag' = lag /\ noticed' = noticed
  BY DEF Fails, fixed
<1>2. PICK x \in Extensions : \E t \in (at + x)..(at + x + Lease) :
          LET since == IF first = -1 THEN t ELSE first
              trips == MayTrip(t, since)
          IN  /\ first' = since /\ failed' = n /\ onTop' = onTop + x
              /\ \/ trips /\ outcome' = "quarantined" /\ UNCHANGED <<n, at>>
                 \/ /\ trips => noticed = -1
                    /\ \/ LadderSpent /\ outcome' = "exhausted" /\ UNCHANGED <<n, at>>
                       \/ ~LadderSpent /\ Redeliver(x + Lease)
  BY DEF Fails
<1>3. PICK t \in (at + x)..(at + x + Lease) :
          LET since == IF first = -1 THEN t ELSE first
              trips == MayTrip(t, since)
          IN  /\ first' = since /\ failed' = n /\ onTop' = onTop + x
              /\ \/ trips /\ outcome' = "quarantined" /\ UNCHANGED <<n, at>>
                 \/ /\ trips => noticed = -1
                    /\ \/ LadderSpent /\ outcome' = "exhausted" /\ UNCHANGED <<n, at>>
                       \/ ~LadderSpent /\ Redeliver(x + Lease)
  BY <1>2
<1> DEFINE since == IF first = -1 THEN t ELSE first
<1>4. /\ at \in Nat /\ n \in Nat /\ n >= 1 /\ n <= sched.maxDeliver /\ onTop \in Nat /\ lag \in Nat
      /\ sched.maxDeliver \in Nat /\ sched.minDeliveries \in Nat /\ sched.minDeliveries >= 1
      /\ sched.maxTime \in Nat /\ sched.floorAge \in Nat
      /\ Lease \in Nat /\ Lease > 0 /\ DeadLetterDelivery(sched) \in Nat
      /\ DeadLetterDelivery(sched) = sched.maxDeliver - sched.reserve
      /\ TimeToDeadLetter(sched) \in Int /\ \A k \in Nat : CumulativeTo(sched, k) \in Int
      /\ ~PastBound(sched)
      /\ x \in Nat /\ t \in Nat /\ since \in Nat
  <2>1. x \in Nat
    BY ScheduleAssumption
  <2>2. at \in Nat /\ Lease \in Nat
    BY RideFacts
  <2>3. t \in Nat
    BY <2>1, <2>2
  <2>4. since \in Nat
    BY <2>3 DEF LadderInv
  <2> HIDE DEF since
  <2> QED
    BY <2>1, <2>3, <2>4, RideFacts
<1>5. first' = since /\ failed' = n /\ onTop' = onTop + x /\ onTop' \in Nat
  BY <1>3, <1>4
<1>6. \/ MayTrip(t, since) /\ outcome' = "quarantined" /\ UNCHANGED <<n, at>>
      \/ LadderSpent /\ outcome' = "exhausted" /\ UNCHANGED <<n, at>>
      \/ ~LadderSpent /\ Redeliver(x + Lease) /\ (MayTrip(t, since) => noticed = -1)
  BY <1>3
<1> HIDE DEF since
<1>7. LadderInv'
  <2>1. n' \in 1..sched.maxDeliver /\ at' \in Nat /\ n <= n' /\ at <= at'
        /\ outcome' \in {"riding", "quarantined", "exhausted", "discarded"}
    BY <1>1, <1>4, <1>6 DEF Redeliver
  <2>2. failed' \in 0..n' /\ (failed' # 0 => first' # -1) /\ first' \in Nat
    BY <1>4, <1>5, <2>1
  <2>3. PinIsBounded'
    <3> SUFFICES ASSUME outcome' = "riding", noticed' # -1, failed' >= sched'.minDeliveries,
                        n' <= DeadLetterDelivery(sched')
                 PROVE  \E clock \in {first', noticed'} :
                            at' < clock + (n' - failed' + 1) * sched'.floorAge
      BY DEF PinIsBounded
    <3>1. Redeliver(x + Lease) /\ ~MayTrip(t, since) /\ n' = n + 1 /\ at' = at + (x + Lease)
      BY <1>1, <1>6 DEF Redeliver
    <3>2. n < DeadLetterDelivery(sched) /\ n >= sched.minDeliveries /\ noticed # -1
      BY <1>1, <1>4, <1>5, <3>1
    <3>3. sched.floorAge > 0 /\ since \in Int
      BY <1>4, <3>2 DEF LadderInv
    <3>4. PICK clock \in {since, noticed} :
              at + (x + Lease) < clock + (n + 1 - n + 1) * sched.floorAge
      BY <1>4, <3>1, <3>2, <3>3, RetriedKeepsPin
    <3>5. clock \in {first', noticed'}
      BY <1>1, <1>5
    <3>6. n' - failed' + 1 = n + 1 - n + 1 /\ sched' = sched
      BY <1>1, <1>4, <1>5, <3>1
    <3>7. at' < clock + (n' - failed' + 1) * sched'.floorAge
      BY <3>1, <3>4, <3>6, Zenon
    <3> QED
      BY <3>5, <3>7
  <2> QED
    BY <1>1, <1>5, <2>1, <2>2, <2>3 DEF LadderInv
<1>8. ASSUME Fits(sched) PROVE /\ outcome' = "riding" => OnSchedule'
                               /\ RecoveryWindowIsSafe' /\ DeadLetterInTime'
  <2>1. OnSchedule
    BY <1>1, <1>8 DEF Promises
  <2>2. CASE MayTrip(t, since) /\ outcome' = "quarantined" /\ UNCHANGED <<n, at>>
    <3>1. ASSUME onTop' = 0 PROVE n >= sched.recoverBy
      <4>1. onTop = 0 /\ x = 0
        BY <1>4, <1>5, <3>1
      <4>2. t \in at..(at + Lease)
        BY <1>4, <4>1
      <4>3. sched.floorAge > 0 /\ t - since >= sched.floorAge
        BY <2>2 DEF MayTrip
      <4> QED
        BY <1>4, <1>8, <2>1, <4>1, <4>2, <4>3, TripsLate
    <3> QED
      BY <1>1, <2>2, <3>1 DEF RecoveryWindowIsSafe, DeadLetterInTime
  <2>3. CASE LadderSpent /\ outcome' = "exhausted" /\ UNCHANGED <<n, at>>
    <3>1. n >= DeadLetterDelivery(sched)
      BY <1>4, <2>3 DEF LadderSpent
    <3>2. at = TimeToDeadLetter(sched) + onTop
      BY <2>1, <3>1 DEF OnSchedule
    <3>3. sched.maxTime > 0 => TimeToDeadLetter(sched) <= sched.maxTime
      BY <1>4 DEF PastBound
    <3>4. sched.maxTime > 0 => at <= sched.maxTime + (onTop + x)
      BY <1>4, <3>2, <3>3
    <3> QED
      BY <1>1, <1>5, <2>3, <3>4 DEF RecoveryWindowIsSafe, DeadLetterInTime
  <2>4. CASE ~LadderSpent /\ Redeliver(x + Lease)
    <3>1. n < DeadLetterDelivery(sched)
      BY <1>4, <2>4 DEF LadderSpent
    <3>2. at + Lease = CumulativeTo(sched, n + 1) + onTop
      BY <1>8, <2>1, <3>1, NextRung
    <3>3. CASE n' = n + 1 /\ at' = at + (x + Lease) /\ outcome' = outcome
      <4>1. at' = CumulativeTo(sched, n + 1) + onTop'
        BY <1>4, <1>5, <3>2, <3>3
      <4>2. n + 1 >= DeadLetterDelivery(sched) => n + 1 = DeadLetterDelivery(sched)
        BY <1>4, <3>1
      <4>3. OnSchedule'
        BY <1>1, <3>3, <4>1, <4>2 DEF OnSchedule, TimeToDeadLetter
      <4> QED
        BY <1>1, <3>3, <4>3 DEF RecoveryWindowIsSafe, DeadLetterInTime
    <3>4. CASE ~Retained(at + (x + Lease)) /\ outcome' = "discarded"
      <4>1. at + x + Lease = at + (x + Lease)
        BY <1>4
      <4>2. lag + onTop + x > 0
        BY <1>4, <1>8, <2>1, <3>1, <3>4, <4>1, DiscardedByMargin
      <4> QED
        BY <1>1, <1>4, <1>5, <3>4, <4>2 DEF RecoveryWindowIsSafe, DeadLetterInTime
    <3> QED
      BY <2>4, <3>3, <3>4 DEF Redeliver
  <2> QED
    BY <1>6, <2>2, <2>3, <2>4
<1>9. Promises'
  BY <1>1, <1>8 DEF Promises, Fits
<1> QED
  BY <1>7, <1>9

LEMMA LadderStep == LadderInv /\ Promises /\ [Next]_vars => LadderInv' /\ Promises'
<1>1. ASSUME LadderInv, Promises, UNCHANGED vars PROVE LadderInv' /\ Promises'
  <2>1. /\ UNCHANGED <<sched, lag, noticed, n, at, first, failed, onTop, outcome>>
    BY <1>1 DEF vars
  <2>2. LadderInv'
    BY <1>1, <2>1 DEF LadderInv, PinIsBounded
  <2>3. Promises'
    BY <1>1, <2>1
       DEF Promises, OnSchedule, RecoveryWindowIsSafe, DeadLetterInTime
  <2> QED
    BY <2>2, <2>3
<1> QED
  BY <1>1, LostStep, FailsStep DEF Next

LEMMA LadderInit == Init => LadderInv /\ Promises
<1> SUFFICES ASSUME Init PROVE LadderInv /\ Promises
  OBVIOUS
<1>1. /\ sched \in Accepted /\ lag \in Lags /\ noticed \in -1..PollLag
      /\ noticed # -1 => sched.floorAge > 0
      /\ n = 1 /\ at = 0 /\ first = -1 /\ failed = 0 /\ onTop = 0 /\ outcome = "riding"
  BY DEF Init
<1>2. /\ sched \in Schedules /\ sched.maxDeliver \in Nat
      /\ DeadLetterDelivery(sched) \in Nat /\ DeadLetterDelivery(sched) >= 1
      /\ DeadLetterDelivery(sched) <= sched.maxDeliver
      /\ sched.minDeliveries \in Nat \ {0}
  BY <1>1, AcceptedFacts, ScheduleAssumption DEF Schedules
<1>3. CumulativeTo(sched, 1) = 0
  BY <1>2, CumulativeSteps
<1>4. OnSchedule
  BY <1>1, <1>2, <1>3 DEF OnSchedule, TimeToDeadLetter
<1>5. PinIsBounded
  BY <1>1, <1>2 DEF PinIsBounded
<1>6. LadderInv
  BY <1>1, <1>2, <1>5, ScheduleAssumption DEF LadderInv
<1> QED
  BY <1>1, <1>4, <1>6 DEF Promises, RecoveryWindowIsSafe, DeadLetterInTime

LEMMA LadderHolds == Spec => [](LadderInv /\ Promises)
  BY LadderInit, LadderStep, PTL DEF Spec

-----------------------------------------------------------------------------
(* The theorems *)

\* The state of a ride keeps its type on every accepted schedule, overflowing or
\* not: the arithmetic only decides what is accepted.
THEOREM TypeCorrect == Spec => []TypeOK
<1>1. LadderInv => TypeOK
  BY RideFacts DEF LadderInv, TypeOK
<1> QED
  BY <1>1, LadderHolds, PTL

\* A transient that clears by RecoverBy is not quarantined first, on any accepted
\* schedule whose totals are durations, by a handler that does not extend its lease.
THEOREM RecoveryHolds == Spec => [](Fits(sched) => RecoveryWindowIsSafe)
<1>1. Promises => (Fits(sched) => RecoveryWindowIsSafe)
  BY DEF Promises
<1> QED
  BY <1>1, LadderHolds, PTL

\* The ladder of an accepted schedule is spent within its bound and the time on top,
\* and the stream discards no message before its capture that had neither backlog nor
\* time on top.  Without Fits the total can wrap round to one that passes Validate,
\* which the run schedule_overflow shows.
THEOREM DeadLetterArrives == Spec => [](Fits(sched) => DeadLetterInTime)
<1>1. Promises => (Fits(sched) => DeadLetterInTime)
  BY DEF Promises
<1> QED
  BY <1>1, LadderHolds, PTL

\* A failing message that alone pins the floor has met the breaker within FloorAge and
\* a rung of its first failure or the monitor's notice, whichever is later, on every
\* accepted schedule that arms it: overflowing totals do not matter here.
THEOREM PinHolds == Spec => []PinIsBounded
<1>1. LadderInv => PinIsBounded
  BY DEF LadderInv
<1> QED
  BY <1>1, LadderHolds, PTL

=============================================================================
