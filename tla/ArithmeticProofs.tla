---------------------------- MODULE ArithmeticProofs ----------------------------
(***************************************************************************)
(* The two components that calculate: the contract's clock and its         *)
(* signature verifier.                                                     *)
(*                                                                         *)
(* The clock, for any offsets, lengths of a day and fractions of a second: *)
(* what is read is the whole second that the instant fell in.  The wall    *)
(* clock divides twice and the contract once more; what the last two take  *)
(* apart is put together again (UtcSecondsIsSecond).                       *)
(*                                                                         *)
(* The verifier, for any curve of which CurveAssumption holds: it accepts  *)
(* exactly the low solutions of the signature equation.  A point is its    *)
(* number of additions of G (Log); adding points adds these numbers modulo *)
(* N (LogOfSum), so every turn of a multiplication keeps its Total         *)
(* (TurnKeepsTotal), and what the loops end with is the right-hand side of *)
(* the equation divided by s.                                              *)
(*                                                                         *)
(* The first two sections are the facts about integers these proofs need.  *)
(***************************************************************************)
EXTENDS TransactionTimestamp, Secp256k1, FiniteSetTheorems, WellFoundedInduction, TLAPS

-----------------------------------------------------------------------------
(* Division with remainder, by any positive number. *)
LEMMA DivisionTyped ==
    ASSUME NEW a \in Int, NEW b \in Nat \ {0}
    PROVE  a \div b \in Int /\ a % b \in Int
  OBVIOUS

LEMMA Division ==
    ASSUME NEW a \in Int, NEW b \in Nat \ {0}
    PROVE  a = (b * (a \div b)) + (a % b)
  OBVIOUS

LEMMA Remainder ==
    ASSUME NEW a \in Int, NEW b \in Nat \ {0}
    PROVE  0 <= a % b /\ a % b < b
<1>1. 0 <= a % b
  OBVIOUS
<1>2. a % b < b
  OBVIOUS
<1> QED
  BY <1>1, <1>2

(* Products with one factor are ordered as the other factors are. *)
LEMMA ProductOrder ==
    ASSUME NEW m \in Int, NEW n \in Int, NEW t \in Nat \ {0}
    PROVE  /\ m <= n => m * t <= n * t
           /\ m * t < n * t => m < n
  OBVIOUS

(* Distributivity, for factors that are not constants. *)
LEMMA Distributes ==
    ASSUME NEW a \in Int, NEW b \in Int, NEW c \in Int
    PROVE  /\ a * b \in Int /\ a * b = b * a
           /\ a * (b + c) = (a * b) + (a * c)
           /\ a * (b - c) = (a * b) - (a * c)
           /\ (a + b) * c = (a * c) + (b * c)
           /\ (a - b) * c = (a * c) - (b * c)
  OBVIOUS

LEMMA Associates ==
    ASSUME NEW a \in Int, NEW b \in Int, NEW c \in Int
    PROVE  a * (b * c) = (a * b) * c /\ a * (b * c) \in Int
  OBVIOUS

(* Numbers have the same remainder when they differ by a multiple. *)
LEMMA SameRemainder ==
    ASSUME NEW n \in Nat \ {0}, NEW a \in Int, NEW b \in Int
    PROVE  a % n = b % n <=> \E k \in Int : a = b + k * n
<1> DEFINE p == a \div n
           q == b \div n
           x == a % n
           y == b % n
<1>1. /\ p \in Int /\ q \in Int /\ x \in Int /\ y \in Int
      /\ a = (n * p) + x /\ b = (n * q) + y
      /\ 0 <= x /\ x < n /\ 0 <= y /\ y < n
  BY DivisionTyped, Division, Remainder
<1> HIDE DEF p, q, x, y
<1>2. ASSUME x = y
      PROVE  \E k \in Int : a = b + k * n
  <2>1. (p - q) * n = (n * p) - (n * q) /\ n * p \in Int /\ n * q \in Int
    BY <1>1, Distributes
  <2>2. a = b + (p - q) * n
    BY <1>1, <1>2, <2>1
  <2>3. p - q \in Int
    BY <1>1
  <2> QED
    BY <2>2, <2>3, Zenon
<1>3. ASSUME NEW k \in Int, a = b + k * n
      PROVE  x = y
  <2> DEFINE d == q + k - p
  <2>1. d \in Int /\ d * n = (n * q) + (k * n) - (n * p)
    <3>1. /\ d * n = ((q + k) * n) - (p * n) /\ (q + k) * n = (q * n) + (k * n)
          /\ p * n = n * p /\ q * n = n * q
          /\ p * n \in Int /\ q * n \in Int /\ k * n \in Int
      BY <1>1, Distributes
    <3> QED
      BY <1>1, <3>1
  <2>2. n * q \in Int /\ k * n \in Int /\ n * p \in Int /\ d * n \in Int
    BY <1>1, <2>1, Distributes
  <2>3. x - y = d * n
    BY <1>1, <1>3, <2>1, <2>2
  <2> HIDE DEF d
  <2>4. ASSUME 1 <= d
        PROVE  FALSE
    <3>1. 1 * n <= d * n
      BY <2>1, <2>4, ProductOrder
    <3> QED
      BY <1>1, <2>2, <2>3, <3>1
  <2>5. ASSUME d <= -1
        PROVE  FALSE
    <3>1. d * n <= (-1) * n
      BY <2>1, <2>5, ProductOrder
    <3> QED
      BY <1>1, <2>2, <2>3, <3>1
  <2>6. d = 0
    BY <2>1, <2>4, <2>5
  <2> QED
    BY <1>1, <2>3, <2>6
<1> QED
  BY <1>2, <1>3 DEF x, y

LEMMA RemainderOfSmall ==
    ASSUME NEW n \in Nat \ {0}, NEW a \in 0..n-1
    PROVE  a % n = a
  OBVIOUS

\* A number has the remainder of its remainder.
LEMMA RemainderTwice ==
    ASSUME NEW n \in Nat \ {0}, NEW a \in Int
    PROVE  (a % n) % n = a % n
BY DivisionTyped, Remainder, RemainderOfSmall

\* Products may be reduced anywhere.
LEMMA ProductRemainder ==
    ASSUME NEW n \in Nat \ {0}, NEW a \in Int, NEW b \in Int, NEW c \in Int,
           a % n = b % n
    PROVE  (c * a) % n = (c * b) % n
<1>1. PICK k \in Int : a = b + k * n
  BY SameRemainder
<1>2. c * a = (c * b) + (c * k) * n
  <2>1. k * n \in Int
    BY Distributes
  <2>2. c * (b + k * n) = (c * b) + (c * (k * n))
    BY <2>1, Distributes
  <2> QED
    BY <1>1, <2>2, Associates
<1>3. c * a \in Int /\ c * b \in Int /\ c * k \in Int
  BY Distributes
<1>4. \E i \in Int : c * a = (c * b) + i * n
  BY <1>2, <1>3, Zenon
<1> QED
  BY <1>3, <1>4, SameRemainder, Zenon

-----------------------------------------------------------------------------
(* A set of natural numbers that is not empty has a least member: the      *)
(* finite sets below its members have a minimal one.                       *)
LEMMA LeastMember ==
    ASSUME NEW T \in SUBSET Nat, T # {}
    PROVE  \E n \in T : \A m \in T : n <= m
<1> DEFINE Below(n) == 0..n-1
           Segments == {Below(n) : n \in T}
<1>1. IsWellFoundedOn(StrictSubsetOrdering(Nat), FiniteSubsetsOf(Nat))
  BY FS_StrictSubsetOrderingWellFounded
<1>2. \A n \in T : IsFiniteSet(Below(n)) /\ Below(n) \subseteq Nat
  BY FS_Interval
<1>3. Segments \subseteq FiniteSubsetsOf(Nat) /\ Segments # {}
  BY <1>2 DEF FiniteSubsetsOf
<1>4. PICK x \in Segments :
        \A y \in Segments : ~(<<y, x>> \in StrictSubsetOrdering(Nat))
  <2> HIDE DEF Segments
  <2> QED
    BY <1>1, <1>3, WFMin
<1>5. PICK n \in T : x = Below(n)
  OBVIOUS
<1>6. ASSUME NEW m \in T, m < n
      PROVE  FALSE
  <2>1. Below(m) \subseteq Below(n) /\ Below(m) # Below(n)
    <3>1. m \in Nat /\ n \in Nat
      OBVIOUS
    <3>2. m \in Below(n) /\ m \notin Below(m)
      BY <1>6, <3>1
    <3>3. Below(m) \subseteq Below(n)
      BY <1>6, <3>1
    <3> QED
      BY <3>2, <3>3
  <2>2. Below(m) \in SUBSET Nat /\ Below(n) \in SUBSET Nat
    BY <1>2
  <2>3. <<Below(m), Below(n)>> \in StrictSubsetOrdering(Nat)
    <3> HIDE DEF Below
    <3> QED
      BY <2>1, <2>2 DEF StrictSubsetOrdering
  <2>4. Below(m) \in Segments
    OBVIOUS
  <2> HIDE DEF Below, Segments
  <2> QED
    BY <1>4, <1>5, <2>3, <2>4
<1> QED
  BY <1>6

\* Induction: a set with zero and every successor has all natural numbers.
LEMMA Induction ==
    ASSUME NEW T, 0 \in T, \A n \in Nat : n \in T => n + 1 \in T
    PROVE  \A n \in Nat : n \in T
<1> DEFINE Missing == Nat \ T
<1>1. ASSUME Missing # {}
      PROVE  FALSE
  <2>1. PICK n \in Missing : \A m \in Missing : n <= m
    <3> HIDE DEF Missing
    <3>1. Missing \in SUBSET Nat
      BY DEF Missing
    <3> QED
      BY <1>1, <3>1, LeastMember
  <2>2. n # 0 /\ n - 1 \in Nat
    OBVIOUS
  <2>3. n - 1 \in T
    BY <2>1, <2>2
  <2>4. (n - 1) + 1 = n
    OBVIOUS
  <2> QED
    BY <2>2, <2>3, <2>4
<1> QED
  BY <1>1

\* The first n values that a step makes of a start.
IsSteps(f, S, start, step, n) ==
    /\ f \in [0..n -> S]
    /\ f[0] = start
    /\ \A k \in 1..n : f[k] = step[f[k - 1]]

\* A recursion has a value for every number: there are steps of any length.
LEMMA StepsExist ==
    ASSUME NEW S, NEW start \in S, NEW step \in [S -> S], NEW length \in Nat
    PROVE  \E f : IsSteps(f, S, start, step, length)
<1> DEFINE Steps(f, n) == IsSteps(f, S, start, step, n)
           T == {n \in Nat : \E f : Steps(f, n)}
<1>1. 0 \in T
  <2>1. Steps([k \in 0..0 |-> start], 0)
    BY DEF IsSteps
  <2> HIDE DEF Steps
  <2> QED
    BY <2>1
<1>2. ASSUME NEW n \in Nat, n \in T
      PROVE  n + 1 \in T
  <2>1. PICK f : Steps(f, n)
    BY <1>2
  <2> DEFINE g == [k \in 0..n+1 |-> IF k = n + 1 THEN step[f[n]] ELSE f[k]]
  <2>2. g \in [0..n+1 -> S]
    BY <2>1 DEF IsSteps
  <2>3. Steps(g, n + 1)
    <3>1. g[0] = start
      BY <2>1 DEF IsSteps
    <3>2. ASSUME NEW k \in 1..n+1
          PROVE  g[k] = step[g[k - 1]]
      <4>1. CASE k = n + 1
        BY <4>1
      <4>2. CASE k \in 1..n
        <5>1. g[k] = f[k] /\ g[k - 1] = f[k - 1]
          BY <4>2
        <5> QED
          BY <2>1, <4>2, <5>1 DEF IsSteps
      <4> QED
        BY <4>1, <4>2
    <3> HIDE DEF g
    <3> QED
      BY <2>2, <3>1, <3>2 DEF IsSteps
  <2> HIDE DEF Steps, g
  <2> QED
    BY <2>3
<1>3. \A n \in Nat : n \in T
  <2> HIDE DEF T
  <2> QED
    BY <1>1, <1>2, Induction
<1> QED
  BY <1>3

-----------------------------------------------------------------------------
(* The clock. *)

\* Second q of the clock is the one instant i falls in.
IsSecondOf(q, i) ==
    /\ q * TicksPerSecond <= i
    /\ i < (q + 1) * TicksPerSecond

ClockInv ==
    /\ instant \in Int
    /\ reading # << >> =>
         /\ reading[1].instant \in Int /\ reading[1].instant <= instant
         /\ reading[1].seconds \in Int /\ 0 <= reading[1].seconds
         /\ IsSecondOf(reading[1].seconds, reading[1].instant)
         /\ level = WindowLevel(reading[1].seconds)

(* A second is determined by its instant, in order. *)
LEMMA SecondsInOrder ==
    ASSUME NEW i \in Int, NEW j \in Int, NEW p \in Int, NEW q \in Int,
           IsSecondOf(p, i), IsSecondOf(q, j), i <= j
    PROVE  p <= q
<1> DEFINE t == TicksPerSecond
<1>1. t \in Nat \ {0}
  BY CalendarAssumption
<1> HIDE DEF t
<1>2. p * t <= i /\ j < (q + 1) * t
  BY DEF IsSecondOf, t
<1>3. p * t \in Int /\ (q + 1) * t \in Int
  BY <1>1
<1>4. p * t < (q + 1) * t
  BY <1>2, <1>3
<1>5. p < q + 1
  BY <1>1, <1>4, ProductOrder
<1> QED
  BY <1>5

(* The day and the second read off a wall clock, less its offset, are the  *)
(* seconds elapsed at the instant, whatever the offset and also before the *)
(* epoch (_transaction_timestamp).                                         *)
LEMMA UtcSecondsIsSecond ==
    ASSUME NEW i \in Int, NEW o \in Int
    PROVE  /\ UtcSeconds(WallClock(i, o)) \in Int
           /\ IsSecondOf(UtcSeconds(WallClock(i, o)), i)
<1> DEFINE t == TicksPerSecond
           day == SecondsPerDay
           local == i + o * t
           full == local \div t
           delta == (full \div day) * day + (full % day) - o
<1>1. t \in Nat \ {0} /\ day \in Nat \ {0}
  BY CalendarAssumption
<1>2. UtcSeconds(WallClock(i, o)) = (delta \div day) * day + (delta % day)
  BY DEF UtcSeconds, WallClock
<1> HIDE DEF t, day
<1>3. local \in Int
  BY <1>1
<1> HIDE DEF local
<1>4. /\ full \in Int /\ local % t \in Int
      /\ local = (t * full) + (local % t)
      /\ 0 <= local % t /\ local % t < t
  BY <1>1, <1>3, DivisionTyped, Division, Remainder DEF full
<1> HIDE DEF full
<1>5. delta = full - o
  <2>1. /\ full \div day \in Int /\ full % day \in Int
        /\ full = (day * (full \div day)) + (full % day)
    BY <1>1, <1>4, DivisionTyped, Division
  <2>2. day * (full \div day) = (full \div day) * day
    BY <1>1, <2>1
  <2> QED
    BY <1>1, <2>1, <2>2 DEF delta
<1>6. (delta \div day) * day + (delta % day) = delta
  <2> HIDE DEF delta
  <2>1. delta \in Int
    BY <1>4, <1>5
  <2>2. /\ delta \div day \in Int /\ delta % day \in Int
        /\ delta = (day * (delta \div day)) + (delta % day)
    BY <1>1, <2>1, DivisionTyped, Division
  <2>3. day * (delta \div day) = (delta \div day) * day
    BY <1>1, <2>2
  <2> QED
    BY <2>1, <2>2, <2>3
<1>7. UtcSeconds(WallClock(i, o)) = full - o
  BY <1>2, <1>5, <1>6
<1>8. /\ (full - o) * t = (t * full) - (o * t)
      /\ (full - o + 1) * t = (t * full) - (o * t) + t
  BY <1>1, <1>4
<1>9. i = (t * full) - (o * t) + (local % t)
  <2>1. local = i + o * t
    BY DEF local
  <2>2. t * full \in Int /\ o * t \in Int
    BY <1>1, <1>4
  <2> QED
    BY <1>4, <2>1, <2>2
<1>10. t * full \in Int /\ o * t \in Int
  BY <1>1, <1>4
<1>11. (full - o) * t <= i /\ i < (full - o + 1) * t
  BY <1>1, <1>4, <1>8, <1>9, <1>10
<1> QED
  BY <1>4, <1>7, <1>11 DEF IsSecondOf, t

-----------------------------------------------------------------------------
(* What an accepted text says, and what is made of it. *)
LEMMA AcceptedText ==
    ASSUME NEW i \in Int, NEW raw \in Stamps(i), IsAcceptedTime(raw)
    PROVE  /\ UtcSeconds(raw) \in Int /\ 0 <= UtcSeconds(raw)
           /\ IsSecondOf(UtcSeconds(raw), i)
<1>1. raw.form = "aware" /\ UtcSeconds(raw) >= 0
  BY DEF IsAcceptedTime
<1>2. PICK o \in Offsets : raw = WallClock(i, o)
  BY <1>1 DEF Stamps, WallClock
<1>3. o \in Int
  BY CalendarAssumption
<1>4. UtcSeconds(raw) \in Int /\ IsSecondOf(UtcSeconds(raw), i)
  BY <1>2, <1>3, UtcSecondsIsSecond
<1> QED
  BY <1>1, <1>4

LEMMA ClockInvariant == ClockSpec => []ClockInv
<1>1. ClockInit => ClockInv
  BY InstantsAssumption DEF ClockInit, ClockInv, Instants
<1>2. ClockInv /\ [ClockNext]_clockVars => ClockInv'
  <2> SUFFICES ASSUME ClockInv, [ClockNext]_clockVars PROVE ClockInv'
    OBVIOUS
  <2>1. CASE UNCHANGED clockVars
    BY <2>1 DEF ClockInv, clockVars
  <2>2. ASSUME NEW later \in Instants, NEW raw \in Stamps(later), Transact(later, raw)
        PROVE  ClockInv'
    <3>1. /\ later \in Int /\ instant <= later /\ instant' = later
      BY <2>2, InstantsAssumption DEF Transact, Instants
    <3>2. CASE Evaluate(later, raw)
      <4>1. /\ UtcSeconds(raw) \in Int /\ 0 <= UtcSeconds(raw)
            /\ IsSecondOf(UtcSeconds(raw), later)
        BY <2>2, <3>1, <3>2, AcceptedText DEF Evaluate
      <4>2. /\ reading'[1].instant = later
            /\ reading'[1].seconds = UtcSeconds(raw)
            /\ level' = WindowLevel(UtcSeconds(raw))
        BY <3>2 DEF Evaluate
      <4> HIDE DEF WindowLevel
      <4> QED
        BY <3>1, <4>1, <4>2 DEF ClockInv
    <3>3. CASE Refuse(raw)
      <4>1. reading' = reading /\ level' = level
        BY <3>3 DEF Refuse
      <4>2. CASE reading = << >>
        BY <3>1, <4>1, <4>2 DEF ClockInv
      <4>3. CASE reading # << >>
        <5>1. reading[1].instant <= later
          BY <3>1, <4>3 DEF ClockInv
        <5> QED
          BY <3>1, <4>1, <4>3, <5>1 DEF ClockInv
      <4> QED
        BY <4>2, <4>3
    <3> QED
      BY <2>2, <3>2, <3>3 DEF Transact
  <2> QED
    BY <2>1, <2>2 DEF ClockNext
<1> QED
  BY <1>1, <1>2, PTL DEF ClockSpec

-----------------------------------------------------------------------------
(* The contract's now is the second its transaction fell in, for all       *)
(* offsets, fractions and lengths of a day (_transaction_timestamp).       *)
THEOREM SecondsAreElapsedCorrect == ClockSpec => []SecondsAreElapsed
<1>1. ClockInv => SecondsAreElapsed
  <2> SUFFICES ASSUME ClockInv, reading # << >>
               PROVE  /\ 0 <= reading[1].instant
                      /\ reading[1].seconds * TicksPerSecond <= reading[1].instant
                      /\ reading[1].instant < (reading[1].seconds + 1) * TicksPerSecond
    BY DEF SecondsAreElapsed
  <2> DEFINE q == reading[1].seconds
             i == reading[1].instant
             t == TicksPerSecond
  <2>1. /\ q \in Int /\ 0 <= q /\ i \in Int
        /\ q * t <= i /\ i < (q + 1) * t
    BY DEF ClockInv, IsSecondOf
  <2>2. t \in Nat \ {0}
    BY CalendarAssumption
  <2> HIDE DEF q, i, t
  <2>3. 0 * t <= q * t
    BY <2>1, <2>2, ProductOrder
  <2>4. 0 * t = 0 /\ q * t \in Int
    BY <2>1, <2>2
  <2>5. 0 <= i
    BY <2>1, <2>3, <2>4
  <2> QED
    BY <2>1, <2>5 DEF q, i, t
<1> QED
  BY <1>1, ClockInvariant, PTL

(* An evaluation is in the window exactly from the first tick of issued_at *)
(* to the last tick of the second expires_at                               *)
(* (_authenticate_stored_manifest).                                        *)
THEOREM WindowIsHonouredCorrect == ClockSpec => []WindowIsHonoured
<1>1. ClockInv => WindowIsHonoured
  <2> SUFFICES ASSUME ClockInv, reading # << >>
               PROVE  level = "IN_WINDOW" <=>
                        /\ issued_at * TicksPerSecond <= reading[1].instant
                        /\ reading[1].instant < (expires_at + 1) * TicksPerSecond
    BY DEF WindowIsHonoured
  <2> DEFINE q == reading[1].seconds
             i == reading[1].instant
             t == TicksPerSecond
  <2>1. /\ q \in Int /\ i \in Int
        /\ q * t <= i /\ i < (q + 1) * t
        /\ level = WindowLevel(q)
    BY DEF ClockInv, IsSecondOf
  <2>2. t \in Nat \ {0} /\ issued_at \in Int /\ expires_at \in Int
    BY CalendarAssumption, WindowAssumption
  <2> HIDE DEF q, i, t
  <2>3. level = "IN_WINDOW" <=> issued_at <= q /\ q <= expires_at
    BY <2>1, <2>2 DEF WindowLevel
  <2>4. /\ q * t \in Int /\ (q + 1) * t \in Int
        /\ issued_at * t \in Int /\ (expires_at + 1) * t \in Int
    BY <2>1, <2>2
  <2>5. issued_at <= q <=> issued_at * t <= i
    <3>1. issued_at <= q => issued_at * t <= q * t
      BY <2>1, <2>2, ProductOrder
    <3>2. issued_at * t < (q + 1) * t => issued_at < q + 1
      BY <2>1, <2>2, ProductOrder
    <3> QED
      BY <2>1, <2>2, <2>4, <3>1, <3>2
  <2>6. q <= expires_at <=> i < (expires_at + 1) * t
    <3>1. q + 1 <= expires_at + 1 => (q + 1) * t <= (expires_at + 1) * t
      BY <2>1, <2>2, ProductOrder
    <3>2. q * t < (expires_at + 1) * t => q < expires_at + 1
      BY <2>1, <2>2, ProductOrder
    <3> QED
      BY <2>1, <2>2, <2>4, <3>1, <3>2
  <2> QED
    BY <2>3, <2>5, <2>6 DEF i, t
<1> QED
  BY <1>1, ClockInvariant, PTL

(* Transactions in order have times in order, whatever their offsets       *)
(* (_transaction_timestamp).                                               *)
THEOREM ClockNeverRunsBackCorrect == ClockSpec => ClockNeverRunsBack
<1>1. ClockInv /\ [ClockNext]_clockVars
        => [reading # << >> => reading'[1].seconds >= reading[1].seconds]_clockVars
  <2> SUFFICES ASSUME ClockInv, ClockNext, reading # << >>
               PROVE  reading'[1].seconds >= reading[1].seconds
    OBVIOUS
  <2>1. PICK later \in Instants : \E raw \in Stamps(later) : Transact(later, raw)
    BY DEF ClockNext
  <2>2. PICK raw \in Stamps(later) : Transact(later, raw)
    BY <2>1
  <2>3. /\ later \in Int /\ instant <= later
        /\ reading[1].instant \in Int /\ reading[1].instant <= instant
        /\ instant \in Int
        /\ reading[1].seconds \in Int
        /\ IsSecondOf(reading[1].seconds, reading[1].instant)
    BY <2>2, InstantsAssumption DEF Transact, Instants, ClockInv
  <2>4. reading[1].instant <= later
    BY <2>3
  <2>5. CASE Evaluate(later, raw)
    <3>1. UtcSeconds(raw) \in Int /\ IsSecondOf(UtcSeconds(raw), later)
      BY <2>3, <2>5, AcceptedText DEF Evaluate
    <3>2. reading[1].seconds <= UtcSeconds(raw)
      BY <2>3, <2>4, <3>1, SecondsInOrder
    <3>3. reading'[1].seconds = UtcSeconds(raw)
      BY <2>5 DEF Evaluate
    <3> QED
      BY <2>3, <3>1, <3>2, <3>3
  <2>6. CASE Refuse(raw)
    <3>1. reading'[1].seconds = reading[1].seconds
      BY <2>6 DEF Refuse
    <3> QED
      BY <2>3, <3>1
  <2> QED
    BY <2>2, <2>5, <2>6 DEF Transact
<1> QED
  BY <1>1, ClockInvariant, PTL DEF ClockSpec, ClockNeverRunsBack

-----------------------------------------------------------------------------
(* Powers, and the inverse of a number. *)

\* Each power is the one before, multiplied once more (_mod_inverse, pow).
LEMMA PowerStep ==
    ASSUME NEW base \in Nat, NEW e \in Nat, NEW modulus \in Nat \ {0}
    PROVE  /\ PowMod(base, e, modulus) \in Int
           /\ PowMod(base, e + 1, modulus) = (PowMod(base, e, modulus) * base) % modulus
<1> DEFINE Powers(f, n) ==
             f = [k \in 0..n |-> IF k = 0 THEN 1 % modulus
                                 ELSE (f[k - 1] * base) % modulus]
           power(n) == CHOOSE f : Powers(f, n)
<1>1. ASSUME NEW n \in Nat
      PROVE  /\ Powers(power(n), n)
             /\ PowMod(base, n, modulus) = power(n)[n]
  <2> DEFINE S == 0..modulus-1
             start == 1 % modulus
             step == [v \in S |-> (v * base) % modulus]
  <2>1. \A v \in Int : v % modulus \in S
    BY DivisionTyped, Remainder
  <2>2. start \in S /\ step \in [S -> S]
    <3>1. \A v \in S : v * base \in Int
      OBVIOUS
    <3> QED
      BY <2>1, <3>1
  <2>3. PICK f : IsSteps(f, S, start, step, n)
    <3> HIDE DEF S, start, step
    <3> QED
      BY <2>2, StepsExist
  <2>4. ASSUME NEW k \in 0..n, k # 0
        PROVE  f[k] = (f[k - 1] * base) % modulus
    <3>1. k \in 1..n /\ k - 1 \in 0..n
      BY <2>4
    <3>2. f[k - 1] \in S
      <4> HIDE DEF S
      <4> QED
        BY <2>3, <3>1 DEF IsSteps
    <3>3. f[k] = step[f[k - 1]]
      <4> HIDE DEF step
      <4> QED
        BY <2>3, <3>1 DEF IsSteps
    <3> QED
      BY <3>2, <3>3
  <2>5. Powers(f, n)
    <3>1. f = [k \in 0..n |-> f[k]] /\ f[0] = start
      BY <2>3 DEF IsSteps
    <3> QED
      BY <2>4, <3>1
  <2>6. Powers(power(n), n)
    <3> HIDE DEF Powers
    <3> QED
      BY <2>5
  <2> QED
    BY <2>6 DEF PowMod
<1> HIDE DEF power
<1>2. ASSUME NEW n \in Nat
      PROVE  /\ power(n)[0] = 1 % modulus
             /\ \A k \in 0..n : k # 0 => power(n)[k] = (power(n)[k - 1] * base) % modulus
  BY <1>1
<1> DEFINE Same ==
             {i \in Nat : i <= e => power(e)[i] \in Int /\ power(e)[i] = power(e + 1)[i]}
<1>3. \A i \in Nat : i \in Same
  <2>1. 0 \in Same
    BY <1>2
  <2>2. ASSUME NEW i \in Nat, i \in Same
        PROVE  i + 1 \in Same
    <3> SUFFICES ASSUME i + 1 <= e
                 PROVE  /\ power(e)[i + 1] \in Int
                        /\ power(e)[i + 1] = power(e + 1)[i + 1]
      OBVIOUS
    <3>1. i + 1 \in 0..e /\ i + 1 \in 0..e+1 /\ i + 1 # 0 /\ (i + 1) - 1 = i /\ i <= e
      OBVIOUS
    <3>2. power(e)[i + 1] = (power(e)[i] * base) % modulus
      BY <1>2, <3>1
    <3>3. power(e + 1)[i + 1] = (power(e + 1)[i] * base) % modulus
      BY <1>2, <3>1
    <3>4. power(e)[i] \in Int /\ power(e)[i] = power(e + 1)[i]
      BY <2>2, <3>1
    <3>5. (power(e)[i] * base) % modulus \in Int
      BY <3>4, DivisionTyped
    <3> QED
      BY <3>2, <3>3, <3>4, <3>5
  <2> HIDE DEF Same
  <2> QED
    BY <2>1, <2>2, Induction
<1>4. power(e)[e] \in Int /\ power(e)[e] = power(e + 1)[e]
  BY <1>3
<1>5. power(e + 1)[e + 1] = (power(e + 1)[e] * base) % modulus
  BY <1>2
<1> QED
  BY <1>1, <1>4, <1>5

\* Fermat's little theorem makes _mod_inverse an inverse modulo the order.
LEMMA InverseInverts ==
    ASSUME NEW x \in 1..N-1
    PROVE  /\ ModInverse(x, N) \in Int
           /\ (x * ModInverse(x, N)) % N = 1
<1>1. N \in Nat \ {0} /\ N > 3 /\ x \in Nat /\ x % N = x
  BY ParametersAssumption, RemainderOfSmall
<1>2. N - 2 \in Nat /\ (N - 2) + 1 = N - 1
  BY <1>1
<1> DEFINE inverse == PowMod(x, N - 2, N)
<1>3. inverse \in Int /\ (inverse * x) % N = 1
  <2>1. inverse \in Int /\ PowMod(x, (N - 2) + 1, N) = (inverse * x) % N
    BY <1>1, <1>2, PowerStep
  <2>2. PowMod(x, N - 1, N) = 1
    BY CurveAssumption
  <2> HIDE DEF inverse
  <2> QED
    BY <1>2, <2>1, <2>2
<1>4. ModInverse(x, N) = inverse
  BY <1>1 DEF ModInverse
<1>5. inverse * x = x * inverse
  BY <1>1, <1>3, Distributes
<1> HIDE DEF inverse
<1> QED
  BY <1>3, <1>4, <1>5

-----------------------------------------------------------------------------
(* The group: a point is its number of additions of G. *)

Multiple[k \in 0..N-1] ==
    IF k = 0 THEN Infinity ELSE PointAdd(Multiple[k - 1], Generator)

LEMMA OrderTyped == N \in Nat \ {0} /\ N \in Int /\ N > 3 /\ 0 \in 0..N-1 /\ 1 \in 0..N-1
BY ParametersAssumption

\* Arithmetic modulo the order.
LEMMA ProductModulo ==
    ASSUME NEW a \in Int, NEW b \in Int, NEW c \in Int, a % N = b % N
    PROVE  (c * a) % N = (c * b) % N
<1> DEFINE n == N
<1>1. n \in Nat \ {0} /\ a % n = b % n
  BY OrderTyped
<1> HIDE DEF n
<1>2. (c * a) % n = (c * b) % n
  BY <1>1, ProductRemainder, Zenon
<1> QED
  BY <1>2 DEF n

LEMMA SumModulo ==
    ASSUME NEW a \in Int, NEW b \in Int, NEW c \in Int, a % N = b % N
    PROVE  (a + c) % N = (b + c) % N
<1> DEFINE n == N
<1>1. n \in Nat \ {0} /\ a % n = b % n
  BY OrderTyped
<1> HIDE DEF n
<1>2. PICK k \in Int : a = b + k * n
  BY <1>1, SameRemainder, Zenon
<1>3. a + c = (b + c) + k * n
  <2>1. k * n \in Int
    BY <1>1, Distributes
  <2> QED
    BY <1>2, <2>1
<1>4. a + c \in Int /\ b + c \in Int
  OBVIOUS
<1>5. (a + c) % n = (b + c) % n
  <2>1. \E i \in Int : a + c = (b + c) + i * n
    BY <1>3, Zenon
  <2> QED
    BY <1>1, <1>4, <2>1, SameRemainder, Zenon
<1> QED
  BY <1>5 DEF n

LEMMA Modulo ==
    ASSUME NEW a \in Int
    PROVE  a % N \in 0..N-1 /\ a % N \in Int /\ (a % N) % N = a % N
<1> DEFINE n == N
<1>1. n \in Nat \ {0}
  BY OrderTyped
<1> HIDE DEF n
<1>2. (a % n) % n = a % n
  BY <1>1, RemainderTwice, Zenon
<1>3. a % n \in 0..n-1 /\ a % n \in Int
  BY <1>1, DivisionTyped, Remainder
<1> QED
  BY <1>2, <1>3 DEF n

LEMMA AddInfinity ==
    ASSUME NEW a \in Group
    PROVE  PointAdd(a, Infinity) = a /\ PointAdd(Infinity, a) = a
BY DEF PointAdd

LEMMA InfinityInGroup == Infinity \in Group
BY DEF Group

\* Adding G one time after another is well defined.
LEMMA MultipleStep ==
    /\ Multiple \in [0..N-1 -> Group]
    /\ Multiple[0] = Infinity
    /\ \A k \in 1..N-1 : Multiple[k] = PointAdd(Multiple[k - 1], Generator)
<1> DEFINE Adds(f) == f = [k \in 0..N-1 |-> IF k = 0 THEN Infinity
                                             ELSE PointAdd(f[k - 1], Generator)]
           step == [a \in Group |-> PointAdd(a, Generator)]
<1>1. step \in [Group -> Group] /\ Infinity \in Group /\ N - 1 \in Nat
  BY CurveAssumption, InfinityInGroup, OrderTyped
<1>2. PICK f : IsSteps(f, Group, Infinity, step, N - 1)
  <2> HIDE DEF step
  <2> QED
    BY <1>1, StepsExist
<1>3. ASSUME NEW k \in 0..N-1, k # 0
      PROVE  f[k] = PointAdd(f[k - 1], Generator)
  <2>1. k \in 1..N-1 /\ k - 1 \in 0..N-1
    BY <1>3, OrderTyped
  <2>2. f[k - 1] \in Group
    BY <1>2, <2>1 DEF IsSteps
  <2>3. f[k] = step[f[k - 1]]
    BY <1>2, <2>1 DEF IsSteps
  <2> QED
    BY <2>2, <2>3
<1>4. f = [k \in 0..N-1 |-> f[k]] /\ f[0] = Infinity
  BY <1>2 DEF IsSteps
<1>5. Adds(f)
  BY <1>3, <1>4
<1>6. Multiple = CHOOSE g : Adds(g)
  BY DEF Multiple
<1>7. Adds(Multiple)
  <2> HIDE DEF Adds
  <2> QED
    BY <1>5, <1>6
<1>8. /\ DOMAIN Multiple = 0..N-1 /\ Multiple = [k \in 0..N-1 |-> Multiple[k]]
      /\ Multiple[0] = Infinity
      /\ \A k \in 1..N-1 : Multiple[k] = PointAdd(Multiple[k - 1], Generator)
  <2>1. \A k \in 0..N-1 : Multiple[k] = IF k = 0 THEN Infinity
                                        ELSE PointAdd(Multiple[k - 1], Generator)
    BY <1>7
  <2>2. \A k \in 1..N-1 : k \in 0..N-1 /\ k # 0
    BY OrderTyped
  <2> QED
    BY <1>7, <2>1, <2>2, OrderTyped
<1> DEFINE InGroup == {k \in Nat : k <= N - 1 => Multiple[k] \in Group}
<1>9. \A k \in Nat : k \in InGroup
  <2>1. 0 \in InGroup
    BY <1>8, InfinityInGroup
  <2>2. ASSUME NEW k \in Nat, k \in InGroup
        PROVE  k + 1 \in InGroup
    <3> SUFFICES ASSUME k + 1 <= N - 1
                 PROVE  Multiple[k + 1] \in Group
      OBVIOUS
    <3>1. k + 1 \in 1..N-1 /\ (k + 1) - 1 = k /\ k <= N - 1
      BY OrderTyped
    <3>2. Multiple[k + 1] = PointAdd(Multiple[k], Generator)
      BY <1>8, <3>1
    <3>3. Multiple[k] \in Group
      BY <2>2, <3>1
    <3> QED
      BY <3>2, <3>3, CurveAssumption
  <2> HIDE DEF InGroup
  <2> QED
    BY <2>1, <2>2, Induction
<1>10. \A k \in 0..N-1 : Multiple[k] \in Group
  BY <1>9, OrderTyped
<1> QED
  BY <1>8, <1>10

LEMMA MultiplesAreMultiple == Multiples = {<<k, Multiple[k]>> : k \in 0..N-1}
BY DEF Multiples, Multiple

\* Every point is one multiple of G.
LEMMA LogOfPoint ==
    ASSUME NEW a \in Group
    PROVE  /\ Log(a) \in 0..N-1
           /\ Multiple[Log(a)] = a
           /\ <<Log(a), a>> \in Multiples
<1>1. \E m \in Multiples : m[2] = a
  BY CurveAssumption
<1> DEFINE m == CHOOSE m \in Multiples : m[2] = a
<1>2. m \in Multiples /\ m[2] = a
  BY <1>1
<1>3. Log(a) = m[1]
  BY DEF Log
<1> HIDE DEF m
<1>4. PICK k \in 0..N-1 : m = <<k, Multiple[k]>>
  BY <1>2, MultiplesAreMultiple
<1>5. m[1] = k /\ m[2] = Multiple[k]
  BY <1>4
<1> QED
  BY <1>2, <1>3, <1>4, <1>5

LEMMA LogOfMultiple ==
    ASSUME NEW k \in 0..N-1
    PROVE  Log(Multiple[k]) = k
<1> DEFINE a == Multiple[k]
           m == <<k, a>>
           n == <<Log(a), a>>
<1>1. a \in Group
  BY MultipleStep
<1>2. m \in Multiples
  BY MultiplesAreMultiple
<1>3. n \in Multiples
  BY <1>1, LogOfPoint
<1>4. m[2] = n[2] => m[1] = n[1]
  <2> HIDE DEF m, n
  <2> QED
    BY <1>2, <1>3, CurveAssumption
<1>5. m[1] = k /\ m[2] = a /\ n[1] = Log(a) /\ n[2] = a
  OBVIOUS
<1> QED
  BY <1>4, <1>5

\* Adding a point adds its number of additions, modulo the order.
LEMMA SumOfMultiples ==
    ASSUME NEW j \in 0..N-1
    PROVE  \A k \in 0..N-1 : PointAdd(Multiple[j], Multiple[k]) = Multiple[(j + k) % N]
<1> DEFINE Adds == {k \in Nat : k <= N - 1 =>
                      PointAdd(Multiple[j], Multiple[k]) = Multiple[(j + k) % N]}
<1>1. Multiple[j] \in Group
  BY MultipleStep
<1>2. 0 \in Adds
  <2>1. (j + 0) % N = j
    BY RemainderOfSmall, OrderTyped
  <2> QED
    BY <1>1, <2>1, AddInfinity, MultipleStep
<1>3. ASSUME NEW k \in Nat, k \in Adds
      PROVE  k + 1 \in Adds
  <2> SUFFICES ASSUME k + 1 <= N - 1
               PROVE  PointAdd(Multiple[j], Multiple[k + 1]) = Multiple[(j + (k + 1)) % N]
    OBVIOUS
  <2>1. /\ k + 1 \in 1..N-1 /\ (k + 1) - 1 = k /\ k <= N - 1 /\ k \in 0..N-1
    BY OrderTyped
  <2> DEFINE total == j + k
             sum == total % N
  <2>2. sum \in 0..N-1
    BY OrderTyped, DivisionTyped, Remainder
  <2>3. Multiple[k] \in Group /\ Multiple[k + 1] = PointAdd(Multiple[k], Generator)
    BY <2>1, MultipleStep
  <2>4. PointAdd(Multiple[j], Multiple[k]) = Multiple[sum]
    BY <1>3, <2>1
  <2>5. PointAdd(Multiple[j], Multiple[k + 1]) = PointAdd(Multiple[sum], Generator)
    BY <1>1, <2>3, <2>4, CurveAssumption
  <2>6. (sum + 1) % N = (j + (k + 1)) % N
    <3>1. total \in Int /\ total + 1 = j + (k + 1)
      BY OrderTyped
    <3> HIDE DEF total
    <3>2. sum \in Int /\ sum % N = total % N
      BY <3>1, Modulo, Zenon
    <3> HIDE DEF sum
    <3>3. (sum + 1) % N = (total + 1) % N
      <4> DEFINE one == 1
      <4>1. one \in Int
        OBVIOUS
      <4> HIDE DEF one
      <4>2. (sum + one) % N = (total + one) % N
        BY <3>1, <3>2, <4>1, SumModulo, Zenon
      <4> QED
        BY <4>2 DEF one
    <3> QED
      BY <3>1, <3>3
  <2> HIDE DEF sum
  <2>7. CASE sum = N - 1
    <3>1. PointAdd(Multiple[sum], Generator) = Infinity
      <4> DEFINE m == <<sum, Multiple[sum]>>
      <4>1. m \in Multiples /\ m[1] = N - 1 /\ m[2] = Multiple[sum]
        BY <2>2, <2>7, MultiplesAreMultiple
      <4> HIDE DEF m
      <4> QED
        BY <4>1, CurveAssumption
    <3>2. (sum + 1) % N = 0
      BY <2>7, OrderTyped
    <3> QED
      BY <2>5, <2>6, <3>1, <3>2, MultipleStep
  <2>8. CASE sum # N - 1
    <3>1. sum + 1 \in 1..N-1 /\ sum + 1 \in 0..N-1 /\ (sum + 1) - 1 = sum
      BY <2>2, <2>8, OrderTyped
    <3>2. Multiple[sum + 1] = PointAdd(Multiple[sum], Generator)
      BY <3>1, MultipleStep
    <3>3. (sum + 1) % N = sum + 1
      BY <3>1, RemainderOfSmall, OrderTyped
    <3> QED
      BY <2>5, <2>6, <3>2, <3>3
  <2> QED
    BY <2>7, <2>8
<1>4. \A k \in Nat : k \in Adds
  <2> HIDE DEF Adds
  <2> QED
    BY <1>2, <1>3, Induction
<1> QED
  BY <1>4, OrderTyped

(* The formulas of _point_add stay on the curve, and add up. *)
LEMMA LogOfSum ==
    ASSUME NEW a \in Group, NEW b \in Group
    PROVE  /\ PointAdd(a, b) \in Group
           /\ Log(PointAdd(a, b)) = (Log(a) + Log(b)) % N
<1> DEFINE sum == (Log(a) + Log(b)) % N
<1>1. /\ Log(a) \in 0..N-1 /\ Log(b) \in 0..N-1
      /\ Multiple[Log(a)] = a /\ Multiple[Log(b)] = b
  BY LogOfPoint
<1>2. sum \in 0..N-1
  BY <1>1, OrderTyped, DivisionTyped, Remainder
<1>3. PointAdd(a, b) = Multiple[sum]
  BY <1>1, SumOfMultiples
<1> HIDE DEF sum
<1>4. PointAdd(a, b) \in Group /\ Log(PointAdd(a, b)) = sum
  BY <1>2, <1>3, MultipleStep, LogOfMultiple
<1> QED
  BY <1>4 DEF sum

LEMMA LogOfInfinityAndGenerator == Log(Infinity) = 0 /\ Log(Generator) = 1
<1>1. Multiple[0] = Infinity /\ Multiple[1] = PointAdd(Multiple[0], Generator)
  <2>1. 1 \in 1..N-1 /\ 1 - 1 = 0
    BY OrderTyped
  <2> QED
    BY <2>1, MultipleStep
<1>2. Multiple[1] = Generator
  BY <1>1, AddInfinity, CurveAssumption
<1> QED
  BY <1>1, <1>2, LogOfMultiple, OrderTyped

-----------------------------------------------------------------------------
(* The signature equation. *)

\* Division by s, undone by multiplying with it.
LEMMA InverseCancels ==
    ASSUME NEW x \in 1..N-1, NEW a \in Int
    PROVE  /\ (a * ModInverse(x, N)) % N \in 0..N-1
           /\ (x * ((a * ModInverse(x, N)) % N)) % N = a % N
           /\ (ModInverse(x, N) * (x * a)) % N = a % N
<1> DEFINE inverse == ModInverse(x, N)
           one == x * inverse
<1>1. x \in Int /\ inverse \in Int /\ one \in Int /\ one % N = 1 % N
  <2>1. x \in Int /\ inverse \in Int /\ one % N = 1
    BY InverseInverts, OrderTyped
  <2>2. one \in Int /\ 1 % N = 1
    BY <2>1, Distributes, RemainderOfSmall, OrderTyped
  <2> HIDE DEF one, inverse
  <2> QED
    BY <2>1, <2>2
<1>2. /\ x * (a * inverse) = a * one
      /\ inverse * (x * a) = a * one
      /\ x * (a * inverse) \in Int /\ a * inverse \in Int
  <2> HIDE DEF inverse
  <2>1. x * (a * inverse) = (x * a) * inverse /\ a * one = (a * x) * inverse
    BY <1>1, Associates
  <2>2. x * a = a * x /\ x * a \in Int
    BY <1>1, Distributes
  <2>3. inverse * (x * a) = (x * a) * inverse
    BY <1>1, <2>2, Distributes
  <2>4. a * inverse \in Int /\ x * (a * inverse) \in Int
    BY <1>1, Distributes, Associates
  <2> HIDE DEF one
  <2> QED
    BY <2>1, <2>2, <2>3, <2>4
<1> HIDE DEF one, inverse
<1>3. (a * one) % N = a % N
  <2> DEFINE unit == 1
  <2>1. unit \in Int /\ one % N = unit % N /\ a * unit = a
    BY <1>1
  <2> HIDE DEF unit
  <2>2. (a * one) % N = (a * unit) % N
    BY <1>1, <2>1, ProductModulo, Zenon
  <2> QED
    BY <2>1, <2>2
<1> DEFINE quotient == (a * inverse) % N
<1>4. quotient \in 0..N-1 /\ quotient \in Int /\ quotient % N = (a * inverse) % N
  BY <1>2, Modulo, Zenon
<1> HIDE DEF quotient
<1>5. (x * quotient) % N = (x * (a * inverse)) % N
  <2> DEFINE other == a * inverse
  <2>1. x \in Int /\ quotient \in Int /\ other \in Int /\ quotient % N = other % N
    BY <1>1, <1>2, <1>4
  <2> HIDE DEF other
  <2>2. (x * quotient) % N = (x * other) % N
    BY <2>1, ProductModulo
  <2> QED
    BY <2>2 DEF other
<1> QED
  BY <1>2, <1>3, <1>4, <1>5 DEF quotient, inverse

\* What s multiplies to the same remainder is the same.
LEMMA Cancel ==
    ASSUME NEW x \in 1..N-1, NEW j \in 0..N-1, NEW k \in 0..N-1,
           (x * j) % N = (x * k) % N
    PROVE  j = k
<1> DEFINE inverse == ModInverse(x, N)
           a == x * j
           b == x * k
<1>1. inverse \in Int /\ x \in Int /\ j \in Int /\ k \in Int /\ a \in Int /\ b \in Int
  BY InverseInverts, Distributes, OrderTyped
<1>2. (inverse * a) % N = j % N /\ (inverse * b) % N = k % N
  BY <1>1, InverseCancels
<1>3. a % N = b % N
  OBVIOUS
<1> HIDE DEF a, b, inverse
<1>4. (inverse * a) % N = (inverse * b) % N
  BY <1>1, <1>3, ProductModulo, Zenon
<1>5. j % N = j /\ k % N = k
  BY RemainderOfSmall, OrderTyped
<1> QED
  BY <1>2, <1>4, <1>5

LEMMA DifferenceRemainder ==
    ASSUME NEW n \in Nat \ {0}, NEW a \in Int, NEW b \in Int
    PROVE  (a - b) % n = 0 <=> a % n = b % n
<1> DEFINE zero == 0
           d == a - b
<1>1. d \in Int /\ zero \in Int /\ zero % n = 0
  BY RemainderOfSmall
<1>2. \A k \in Int : d = zero + k * n <=> a = b + k * n
  <2>1. \A k \in Int : k * n \in Int
    BY Distributes
  <2> QED
    BY <2>1
<1> HIDE DEF zero, d
<1>3. d % n = zero % n <=> \E k \in Int : d = zero + k * n
  BY <1>1, SameRemainder
<1>4. a % n = b % n <=> \E k \in Int : a = b + k * n
  BY SameRemainder
<1>5. d % n = 0 <=> a % n = b % n
  BY <1>1, <1>2, <1>3, <1>4
<1> QED
  BY <1>5 DEF d

\* The keys that _is_valid_public_key lets through are the points of the curve.
LEMMA ValidKeyIsPoint ==
    ASSUME NEW key \in Nat \X Nat
    PROVE  IsValidPublicKey(key) <=> key \in Group \ {Infinity}
<1> DEFINE x == key[1]
           y == key[2]
           square == y * y
           cube == x * x * x + 7
<1>1. key = <<x, y>> /\ x \in Nat /\ y \in Nat /\ key # Infinity
  BY DEF Infinity
<1>2. square \in Int /\ cube \in Int
  <2>1. square \in Int /\ x * x \in Int
    BY <1>1, Distributes
  <2>2. x * x * x \in Int
    BY <1>1, <2>1, Distributes
  <2> QED
    BY <2>1, <2>2
<1>3. IsValidPublicKey(key) <=> x < P /\ y < P /\ (square - cube) % P = 0
  BY DEF IsValidPublicKey
<1>4. key \in Group \ {Infinity} <=>
        x \in 0..P-1 /\ y \in 0..P-1 /\ square % P = cube % P
  <2>1. key \in (0..P-1) \X (0..P-1) <=> x \in 0..P-1 /\ y \in 0..P-1
    BY <1>1
  <2> HIDE DEF x, y
  <2> QED
    BY <1>1, <2>1 DEF Group, x, y
<1> HIDE DEF x, y, square, cube
<1>5. P \in Nat \ {0}
  BY ParametersAssumption
<1>6. (x < P <=> x \in 0..P-1) /\ (y < P <=> y \in 0..P-1)
  BY <1>1, <1>5
<1>7. (square - cube) % P = 0 <=> square % P = cube % P
  BY <1>2, <1>5, DifferenceRemainder
<1> QED
  BY <1>3, <1>4, <1>6, <1>7

-----------------------------------------------------------------------------
(* The two multiplications. *)

LEMMA SumsModulo ==
    ASSUME NEW a \in Int, NEW b \in Int, NEW c \in Int, NEW d \in Int,
           a % N = b % N, c % N = d % N
    PROVE  (a + c) % N = (b + d) % N
<1>1. (a + c) % N = (b + c) % N
  BY SumModulo, Zenon
<1>2. (c + b) % N = (d + b) % N
  BY SumModulo, Zenon
<1>3. b + c = c + b /\ b + d = d + b
  OBVIOUS
<1> QED
  BY <1>1, <1>2, <1>3, Zenon

IsMultiplication(m) ==
    m.result \in Group /\ m.addend \in Group /\ m.remaining \in 0..N-1

LEMMA TotalTyped ==
    ASSUME NEW m, IsMultiplication(m)
    PROVE  /\ Log(m.result) \in Int /\ Log(m.addend) \in Int /\ m.remaining \in Int
           /\ Total(m) \in Int
<1>1. Log(m.result) \in 0..N-1 /\ Log(m.addend) \in 0..N-1
  BY LogOfPoint DEF IsMultiplication
<1>2. Log(m.result) \in Int /\ Log(m.addend) \in Int /\ m.remaining \in Int
  BY <1>1, OrderTyped DEF IsMultiplication
<1>3. m.remaining * Log(m.addend) \in Int
  BY <1>2, Distributes
<1> QED
  BY <1>2, <1>3 DEF Total

\* A turn of the loop of _point_mul moves one bit from what remains to the
\* result, and keeps their total.
LEMMA TurnKeepsTotal ==
    ASSUME NEW m, IsMultiplication(m)
    PROVE  /\ IsMultiplication(NextBit(m))
           /\ Total(NextBit(m)) % N = Total(m) % N
<1> DEFINE x == Log(m.result)
           y == Log(m.addend)
           k == m.remaining
           h == k \div 2
           b == k % 2
           xx == Log(NextBit(m).result)
           yy == Log(NextBit(m).addend)
<1>1. x \in Int /\ y \in Int /\ k \in Int /\ m.result \in Group /\ m.addend \in Group
  BY TotalTyped DEF IsMultiplication
<1>2. /\ NextBit(m).addend \in Group
      /\ yy = (y + y) % N
  BY <1>1, LogOfSum DEF NextBit
<1>3. /\ h \in Int /\ h \in 0..N-1
      /\ k = 2 * h + b
      /\ b \in {0, 1}
  <2>1. k \in 0..N-1
    BY DEF IsMultiplication
  <2> HIDE DEF k
  <2> QED
    BY <1>1, <2>1, OrderTyped
<1>4. /\ NextBit(m).result \in Group
      /\ xx \in Int
      /\ xx % N = (x + b * y) % N
  <2>1. CASE b = 1
    <3>1. NextBit(m).result = PointAdd(m.result, m.addend)
      BY <2>1 DEF NextBit
    <3>2. NextBit(m).result \in Group /\ xx = (x + y) % N
      BY <1>1, <3>1, LogOfSum
    <3>3. x + y \in Int /\ b * y = y
      BY <1>1, <2>1
    <3> HIDE DEF x, y, b, xx
    <3>4. xx \in Int /\ xx % N = (x + y) % N
      BY <3>2, <3>3, Modulo, Zenon
    <3> QED
      BY <3>2, <3>3, <3>4
  <2>2. CASE b = 0
    <3>1. NextBit(m).result = m.result
      BY <2>2 DEF NextBit
    <3>2. b * y = 0
      BY <1>1, <2>2
    <3>3. xx = x /\ x + b * y = x
      <4>1. xx = x
        BY <3>1
      <4> HIDE DEF x, y, b, xx
      <4> QED
        BY <1>1, <3>2, <4>1
    <3> HIDE DEF x, y, b
    <3> QED
      BY <1>1, <3>1, <3>3
  <2> QED
    BY <1>3, <2>1, <2>2
<1>5. NextBit(m).remaining = h
  BY DEF NextBit
<1>6. Total(NextBit(m)) = xx + h * yy /\ Total(m) = x + k * y
  BY <1>5 DEF Total
<1>7. IsMultiplication(NextBit(m))
  BY <1>2, <1>3, <1>4, <1>5 DEF IsMultiplication
<1> HIDE DEF x, y, k, h, b, xx, yy
<1> DEFINE double == y + y
<1>8. double \in Int /\ yy \in Int /\ yy % N = double % N
  <2>1. double \in Int /\ yy = double % N
    BY <1>1, <1>2
  <2> HIDE DEF double
  <2> QED
    BY <2>1, Modulo, Zenon
<1> DEFINE rest == h * yy
           doubles == h * double
           begun == x + b * y
<1>9. rest \in Int /\ doubles \in Int /\ begun \in Int /\ rest % N = doubles % N
  <2>1. rest \in Int /\ doubles \in Int
    BY <1>3, <1>8, Distributes
  <2>2. b * y \in Int
    BY <1>1, <1>3, Distributes
  <2>3. rest % N = doubles % N
    <3> HIDE DEF double
    <3> QED
      BY <1>3, <1>8, ProductModulo, Zenon
  <2> QED
    BY <1>1, <2>1, <2>2, <2>3
<1>10. begun + doubles = x + k * y
  <2> DEFINE hy == h * y
             by == b * y
  <2>1. hy \in Int /\ by \in Int /\ doubles = hy + hy
    BY <1>1, <1>3, Distributes
  <2>2. k * y = (hy + hy) + by
    <3>1. k = (h + h) + b
      BY <1>3
    <3>2. ((h + h) + b) * y = ((h + h) * y) + by /\ (h + h) * y = hy + hy
      BY <1>1, <1>3, Distributes
    <3> QED
      BY <3>1, <3>2
  <2> HIDE DEF hy, doubles
  <2> QED
    BY <1>1, <2>1, <2>2
<1>11. (xx + rest) % N = (begun + doubles) % N
  <2>1. xx % N = begun % N /\ xx \in Int
    BY <1>4
  <2> HIDE DEF rest, doubles, begun, xx
  <2>2. /\ xx \in Int /\ begun \in Int /\ rest \in Int /\ doubles \in Int
        /\ xx % N = begun % N /\ rest % N = doubles % N
    BY <1>9, <2>1
  <2> QED
    BY <2>2, SumsModulo
<1> QED
  BY <1>6, <1>7, <1>10, <1>11

\* A multiplication that starts has all of its product to add.
LEMMA TotalAtStart ==
    ASSUME NEW k \in 0..N-1, NEW point \in Group
    PROVE  /\ IsMultiplication(Times(k, point))
           /\ Total(Times(k, point)) = k * Log(point)
<1> DEFINE y == Log(point)
<1>1. y \in Int /\ k \in Int
  <2>1. y \in 0..N-1
    BY LogOfPoint
  <2> HIDE DEF y
  <2> QED
    BY <2>1, OrderTyped
<1>2. Total(Times(k, point)) = Log(Infinity) + k * y
  BY DEF Total, Times
<1> HIDE DEF y
<1>3. k * y \in Int
  BY <1>1, Distributes
<1>4. Log(Infinity) + k * y = k * y
  BY <1>3, LogOfInfinityAndGenerator
<1>5. IsMultiplication(Times(k, point))
  BY InfinityInGroup DEF IsMultiplication, Times
<1> QED
  BY <1>2, <1>4, <1>5 DEF y

\* A multiplication that has nothing left has its total as its result.
LEMMA TotalAtEnd ==
    ASSUME NEW m, IsMultiplication(m), m.remaining = 0
    PROVE  Total(m) = Log(m.result)
<1>1. Log(m.result) \in Int /\ Log(m.addend) \in Int
  BY TotalTyped
<1> QED
  BY <1>1 DEF Total

-----------------------------------------------------------------------------
(* Every state the verifier reaches. *)
VerifierInv ==
    /\ public_key \in Nat \X Nat /\ r \in Nat /\ s \in Nat /\ message_number \in Nat
    /\ IsMultiplication(first) /\ IsMultiplication(second)
    /\ verdict \in {"received", "pending", "accepted", "rejected"}
    /\ verdict = "pending" => IsValidPublicKey(public_key) /\ InRange
    /\ MultiplicationIsExact
    /\ VerdictIsExact

LEMMA VerifierInitHolds == VerifierInit => VerifierInv
<1> SUFFICES ASSUME VerifierInit
             PROVE  VerifierInv
  OBVIOUS
<1>1. IsMultiplication(NotStarted)
  BY TotalAtStart, InfinityInGroup, OrderTyped DEF NotStarted
<1>2. /\ public_key \in Nat \X Nat /\ r \in Nat /\ s \in Nat /\ message_number \in Nat
      /\ first = NotStarted /\ second = NotStarted /\ verdict = "received"
  BY ParametersAssumption DEF VerifierInit
<1> QED
  BY <1>1, <1>2 DEF VerifierInv, MultiplicationIsExact, VerdictIsExact

\* r and s in range, as the proofs use it.
LEMMA RangeMeans ==
    ASSUME r \in Nat, s \in Nat
    PROVE  InRange <=> r \in 1..N-1 /\ IsLow
<1> DEFINE half == N \div 2
<1>1. N = 2 * half + 1 /\ half \in Nat
  BY OrderTyped, CurveAssumption
<1> HIDE DEF half
<1>2. InRange <=> r > 0 /\ r < N /\ s > 0 /\ s <= half
  BY DEF InRange, half
<1>3. IsLow <=> s \in 1..N-1 /\ s < N - s
  BY DEF IsLow
<1> QED
  BY <1>1, <1>2, <1>3, OrderTyped

\* Start sets up message/s times G and r/s times the public key.
LEMMA StartKeepsInv ==
    ASSUME VerifierInv, Start
    PROVE  VerifierInv'
<1>1. /\ public_key \in Nat \X Nat /\ r \in Nat /\ s \in Nat /\ message_number \in Nat
      /\ public_key' = public_key /\ r' = r /\ s' = s /\ message_number' = message_number
  BY DEF VerifierInv, Start
<1>2. CASE ~(IsValidPublicKey(public_key) /\ InRange)
  <2>1. verdict' = "rejected" /\ first' = first /\ second' = second
    BY <1>2 DEF Start
  <2>2. ~(IsSignature /\ IsLow)
    <3>1. IsValidPublicKey(public_key) <=> public_key \in Group \ {Infinity}
      BY <1>1, ValidKeyIsPoint
    <3>2. InRange <=> r \in 1..N-1 /\ IsLow
      BY <1>1, RangeMeans
    <3> QED
      BY <1>2, <3>1, <3>2 DEF IsSignature
  <2>3. ~(IsSignature' /\ IsLow')
    BY <1>1, <2>2 DEF IsSignature, IsLow
  <2> QED
    BY <1>1, <2>1, <2>3 DEF VerifierInv, MultiplicationIsExact, VerdictIsExact, IsMultiplication
<1>3. CASE IsValidPublicKey(public_key) /\ InRange
  <2> DEFINE j == (message_number * ModInverse(s, N)) % N
             k == (r * ModInverse(s, N)) % N
             log == Log(public_key)
  <2>1. verdict' = "pending" /\ first' = Times(j, Generator) /\ second' = Times(k, public_key)
    BY <1>3 DEF Start
  <2>2. public_key \in Group /\ s \in 1..N-1 /\ Generator \in Group
    BY <1>1, <1>3, ValidKeyIsPoint, RangeMeans, CurveAssumption DEF IsLow
  <2>3. message_number \in Int /\ r \in Int /\ s \in Int
    BY <1>1
  <2>4. /\ j \in 0..N-1 /\ (s * j) % N = message_number % N
        /\ k \in 0..N-1 /\ (s * k) % N = r % N
    BY <2>2, <2>3, InverseCancels
  <2> HIDE DEF j, k
  <2>5. /\ IsMultiplication(first') /\ Total(first') = j
        /\ IsMultiplication(second') /\ Total(second') = k * log
    <3>1. j * Log(Generator) = j
      BY <2>4, LogOfInfinityAndGenerator, OrderTyped
    <3> QED
      BY <2>1, <2>2, <2>4, <3>1, TotalAtStart
  <2>6. (s * (k * log)) % N = (r * log) % N
    <3>1. j \in Int /\ k \in Int /\ log \in Int
      <4>1. log \in 0..N-1
        BY <2>2, LogOfPoint
      <4> HIDE DEF log
      <4> QED
        BY <2>4, <4>1, OrderTyped
    <3> DEFINE product == s * k
    <3> HIDE DEF log
    <3>2. product \in Int /\ product % N = r % N
      BY <2>3, <2>4, <3>1, Distributes
    <3>3. s * (k * log) = product * log
      BY <2>3, <3>1, Associates
    <3> HIDE DEF product
    <3>4. product * log = log * product /\ r * log = log * r
      BY <2>3, <3>1, <3>2, Distributes
    <3>5. (log * product) % N = (log * r) % N
      BY <2>3, <3>1, <3>2, ProductModulo, Zenon
    <3> QED
      BY <3>3, <3>4, <3>5
  <2>7. MultiplicationIsExact'
    BY <1>1, <2>4, <2>5, <2>6 DEF MultiplicationIsExact
  <2>8. IsValidPublicKey(public_key)' /\ InRange'
    BY <1>1, <1>3 DEF IsValidPublicKey, InRange
  <2> HIDE DEF log
  <2> QED
    BY <1>1, <2>1, <2>5, <2>7, <2>8 DEF VerifierInv, VerdictIsExact, IsMultiplication
<1> QED
  BY <1>2, <1>3

LEMMA MultiplyKeepsInv ==
    ASSUME VerifierInv, Multiply
    PROVE  VerifierInv'
<1>1. /\ public_key \in Nat \X Nat /\ r \in Nat /\ s \in Nat /\ message_number \in Nat
      /\ public_key' = public_key /\ r' = r /\ s' = s /\ message_number' = message_number
      /\ verdict = "pending" /\ verdict' = "pending"
  BY DEF VerifierInv, Multiply
<1>2. /\ IsMultiplication(first) /\ IsMultiplication(second) /\ MultiplicationIsExact
      /\ IsValidPublicKey(public_key) /\ InRange
  BY <1>1 DEF VerifierInv
<1>3. IsValidPublicKey(public_key)' /\ InRange'
  BY <1>1, <1>2 DEF IsValidPublicKey, InRange
<1>4. ASSUME NEW m, IsMultiplication(m)
      PROVE  (s * Total(NextBit(m))) % N = (s * Total(m)) % N
  <2> DEFINE before == Total(m)
             after == Total(NextBit(m))
  <2>1. /\ before \in Int /\ after \in Int /\ s \in Int /\ after % N = before % N
    BY <1>1, <1>4, TurnKeepsTotal, TotalTyped
  <2> HIDE DEF before, after
  <2>2. (s * after) % N = (s * before) % N
    BY <2>1, ProductModulo, Zenon
  <2> QED
    BY <2>2 DEF before, after
<1>5. CASE first' = NextBit(first) /\ second' = second
  <2>1. IsMultiplication(first') /\ IsMultiplication(second')
    BY <1>2, <1>5, TurnKeepsTotal
  <2>2. MultiplicationIsExact'
    BY <1>1, <1>2, <1>4, <1>5 DEF MultiplicationIsExact
  <2> QED
    BY <1>1, <1>3, <2>1, <2>2 DEF VerifierInv, VerdictIsExact, IsMultiplication
<1>6. CASE second' = NextBit(second) /\ first' = first
  <2>1. IsMultiplication(first') /\ IsMultiplication(second')
    BY <1>2, <1>6, TurnKeepsTotal
  <2>2. MultiplicationIsExact'
    BY <1>1, <1>2, <1>4, <1>6 DEF MultiplicationIsExact
  <2> QED
    BY <1>1, <1>3, <2>1, <2>2 DEF VerifierInv, VerdictIsExact, IsMultiplication
<1> QED
  BY <1>5, <1>6 DEF Multiply

\* The loops end with the point that has the right-hand side of the equation,
\* divided by s, as its number of additions: no other nonce solves it.
LEMMA ConcludeKeepsInv ==
    ASSUME VerifierInv, Conclude
    PROVE  VerifierInv'
<1>1. /\ public_key \in Nat \X Nat /\ r \in Nat /\ s \in Nat /\ message_number \in Nat
      /\ public_key' = public_key /\ r' = r /\ s' = s /\ message_number' = message_number
      /\ first' = first /\ second' = second
      /\ verdict = "pending" /\ first.remaining = 0 /\ second.remaining = 0
  BY DEF VerifierInv, Conclude
<1>2. /\ IsMultiplication(first) /\ IsMultiplication(second) /\ MultiplicationIsExact
      /\ IsValidPublicKey(public_key) /\ InRange
  BY <1>1 DEF VerifierInv
<1>3. /\ public_key \in Group \ {Infinity}
      /\ r \in 1..N-1 /\ s \in 1..N-1 /\ IsLow
  BY <1>1, <1>2, ValidKeyIsPoint, RangeMeans DEF IsLow
<1> DEFINE point == PointAdd(first.result, second.result)
           nonce == Log(point)
           right == message_number + r * Log(public_key)
<1>4. point \in Group /\ nonce \in 0..N-1 /\ Multiple[nonce] = point /\ <<nonce, point>> \in Multiples
  <2>1. point \in Group
    BY <1>2, LogOfSum DEF IsMultiplication
  <2> HIDE DEF point
  <2> QED
    BY <2>1, LogOfPoint
<1>5. (s * nonce) % N = right % N
  <2> DEFINE a == Log(first.result)
             c == Log(second.result)
             b == message_number
             d == r * Log(public_key)
             sum == a + c
             sa == s * a
             sc == s * c
  <2>1. sa % N = b % N /\ sc % N = d % N
    BY <1>1, <1>2, TotalAtEnd DEF MultiplicationIsExact
  <2>2. nonce = sum % N
    BY <1>2, LogOfSum DEF IsMultiplication
  <2>3. a \in Int /\ c \in Int /\ b \in Int /\ s \in Int /\ r \in Int /\ Log(public_key) \in Int
    <3>1. Log(public_key) \in 0..N-1
      BY <1>3, LogOfPoint
    <3>2. a \in Int /\ c \in Int
      BY <1>2, TotalTyped
    <3> HIDE DEF a, c
    <3> QED
      BY <1>1, <3>1, <3>2, OrderTyped
  <2>4. sa \in Int /\ sc \in Int /\ d \in Int /\ s * sum = sa + sc
    <3> HIDE DEF a, c
    <3> QED
      BY <2>3, Distributes
  <2>5. sum \in Int
    BY <2>3
  <2> HIDE DEF a, b, c, d, sa, sc, nonce
  <2>6. (sa + sc) % N = (b + d) % N
    <3>1. sa \in Int /\ sc \in Int /\ b \in Int /\ d \in Int
      BY <2>3, <2>4
    <3>2. sa % N = b % N
      BY <2>1
    <3>3. sc % N = d % N
      BY <2>1
    <3>4. (sa + sc) % N = (b + sc) % N
      BY <3>1, <3>2, SumModulo, Zenon
    <3>5. (sc + b) % N = (d + b) % N
      BY <3>1, <3>3, SumModulo, Zenon
    <3>6. b + sc = sc + b /\ d + b = b + d
      BY <3>1
    <3> QED
      BY <3>4, <3>5, <3>6
  <2>7. (s * nonce) % N = (s * sum) % N
    <3> HIDE DEF sum
    <3>1. nonce \in Int /\ nonce % N = sum % N
      BY <2>2, <2>5, Modulo, Zenon
    <3> QED
      BY <2>3, <2>5, <3>1, ProductModulo, Zenon
  <2> QED
    BY <2>4, <2>6, <2>7 DEF b, d
<1>6. verdict' = IF Matches(point) THEN "accepted" ELSE "rejected"
  BY DEF Conclude
<1> HIDE DEF point, nonce, right
<1>7. Matches(point) => IsSignature
  <2> DEFINE m == <<nonce, point>>
  <2>1. m \in Multiples /\ m[1] = nonce /\ m[2] = point
    BY <1>4
  <2> HIDE DEF m
  <2> QED
    BY <1>3, <1>5, <2>1 DEF IsSignature, Matches, right
<1>8. IsSignature => Matches(point)
  <2> SUFFICES ASSUME IsSignature
               PROVE  Matches(point)
    OBVIOUS
  <2>1. PICK m \in Multiples : /\ m[2] # Infinity
                               /\ m[2][1] % N = r
                               /\ (s * m[1]) % N = right % N
    BY DEF IsSignature, right
  <2>2. m[1] \in 0..N-1 /\ m[2] = Multiple[m[1]]
    <3>1. PICK k \in 0..N-1 : m = <<k, Multiple[k]>>
      BY MultiplesAreMultiple
    <3> QED
      BY <3>1
  <2>3. m[1] = nonce
    <3> DEFINE k == m[1]
    <3>1. k \in 0..N-1 /\ (s * k) % N = (s * nonce) % N
      BY <1>5, <2>1, <2>2
    <3> HIDE DEF k
    <3>2. k = nonce
      BY <1>3, <1>4, <3>1, Cancel, Zenon
    <3> QED
      BY <3>2 DEF k
  <2>4. m[2] = point
    BY <1>4, <2>2, <2>3
  <2> QED
    BY <2>1, <2>4 DEF Matches
<1>9. VerdictIsExact'
  <2>1. (IsSignature' <=> IsSignature) /\ (IsLow' <=> IsLow)
    BY <1>1 DEF IsSignature, IsLow
  <2> QED
    BY <1>3, <1>6, <1>7, <1>8, <2>1 DEF VerdictIsExact
<1>10. verdict' # "pending" /\ verdict' \in {"accepted", "rejected"}
  BY <1>6
<1> QED
  BY <1>1, <1>2, <1>9, <1>10 DEF VerifierInv, MultiplicationIsExact, IsMultiplication

LEMMA VerifierInvariant == VerifierSpec => []VerifierInv
<1>1. VerifierInv /\ [VerifierNext]_verifierVars => VerifierInv'
  <2> SUFFICES ASSUME VerifierInv, [VerifierNext]_verifierVars
               PROVE  VerifierInv'
    OBVIOUS
  <2>1. CASE UNCHANGED verifierVars
    <3> USE <2>1 DEF verifierVars
    <3>1. (IsSignature' <=> IsSignature) /\ (IsLow' <=> IsLow) /\ (InRange' <=> InRange)
      BY DEF IsSignature, IsLow, InRange
    <3>2. MultiplicationIsExact' <=> MultiplicationIsExact
      BY DEF MultiplicationIsExact
    <3> QED
      BY <3>1, <3>2 DEF VerifierInv, VerdictIsExact, IsMultiplication, IsValidPublicKey
  <2> QED
    BY <2>1, StartKeepsInv, MultiplyKeepsInv, ConcludeKeepsInv DEF VerifierNext
<1> QED
  BY <1>1, VerifierInitHolds, PTL DEF VerifierSpec

(* Whatever is submitted, the formulas stay in the group of order N: the   *)
(* loops of _point_mul meet no point off the curve and no inverse of zero. *)
THEOREM VerifierTypeCorrect == VerifierSpec => []VerifierTypeOK
<1>1. VerifierInv => VerifierTypeOK
  BY CurveAssumption DEF VerifierInv, VerifierTypeOK, IsMultiplication
<1> QED
  BY <1>1, VerifierInvariant, PTL

(* At every bit, what both loops have added up and still have to add are   *)
(* message/s times G and r/s times the public key.                         *)
THEOREM MultiplicationIsExactCorrect == VerifierSpec => []MultiplicationIsExact
<1>1. VerifierInv => MultiplicationIsExact
  BY DEF VerifierInv
<1> QED
  BY <1>1, VerifierInvariant, PTL

(* On every curve that is well chosen, for every key, digest, r and s:     *)
(* _verify_secp256k1_sha256 accepts exactly the low solutions of the       *)
(* signature equation.                                                     *)
THEOREM VerdictIsExactCorrect == VerifierSpec => []VerdictIsExact
<1>1. VerifierInv => VerdictIsExact
  BY DEF VerifierInv
<1> QED
  BY <1>1, VerifierInvariant, PTL
=============================================================================
