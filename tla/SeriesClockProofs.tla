------------------------- MODULE SeriesClockProofs --------------------------
(***************************************************************************)
(* What schedule_next_recurring computes, for every length of day, week    *)
(* and month, every day of a rule and however late a firing is handled:    *)
(* the next occurrence is in the future, and it is the first one that the  *)
(* rule allows.                                                            *)
(***************************************************************************)
EXTENDS SeriesClock, SequenceTheorems, WellFoundedInduction, TLAPS

(* Induction, on a set of numbers: its least counterexample has none.      *)
LEMMA LeastNatural ==
  ASSUME NEW T \in SUBSET Nat, T # {}
  PROVE  \E m \in T : \A k \in T : m <= k
<1>1. PICK R : R = OpToRel(<, Nat)
  OBVIOUS
<1>2. IsWellFoundedOn(R, Nat)
  BY <1>1, NatLessThanWellFounded
<1>3. PICK m \in T : \A k \in T : <<k, m>> \notin R
  BY <1>2, WFMin
<1>4. \A k \in T : ~(k < m)
  BY <1>1, <1>3 DEF OpToRel
<1>. QED
  BY <1>4

LEMMA Induction ==
  ASSUME NEW S, 0 \in S, \A n \in Nat : n \in S => n + 1 \in S
  PROVE  \A n \in Nat : n \in S
<1>1. SUFFICES ASSUME Nat \ S # {} PROVE FALSE
  OBVIOUS
<1>2. PICK m \in Nat \ S : \A k \in Nat \ S : m <= k
  BY <1>1, LeastNatural
<1>3. m # 0 /\ m - 1 \in Nat /\ m - 1 \in S
  BY <1>2
<1>. QED
  BY <1>2, <1>3

-----------------------------------------------------------------------------
(* Division with remainder, and products.                                  *)
LEMMA ProductKeepsOrder ==
  ASSUME NEW a \in Nat, NEW b \in Nat, NEW c \in Nat, a <= b
  PROVE  a * c <= b * c
BY Z3

LEMMA Division ==
  ASSUME NEW a \in Nat, NEW b \in Nat \ {0}
  PROVE  /\ a \div b \in Nat /\ a % b \in 0..(b - 1)
         /\ a = (a \div b) * b + (a % b)
BY Z3

LEMMA DivisionIsUnique ==
  ASSUME NEW b \in Nat \ {0}, NEW q \in Nat, NEW r \in 0..(b - 1)
  PROVE  (q * b + r) \div b = q /\ (q * b + r) % b = r
<1>1. PICK a \in Nat : a = q * b + r
  <2>1. q * b \in Nat /\ r \in Nat
    OBVIOUS
  <2>2. q * b + r \in Nat
    BY <2>1
  <2>. QED
    BY <2>2
<1>2. PICK p \in Nat, s \in 0..(b - 1) : p = a \div b /\ s = a % b /\ a = p * b + s
  BY Division
<1>3. ~(p + 1 <= q)
  <2>1. SUFFICES ASSUME p + 1 <= q PROVE FALSE
    OBVIOUS
  <2>2. (p + 1) * b <= q * b
    BY <2>1, ProductKeepsOrder
  <2>3. (p + 1) * b = p * b + b
    BY Z3
  <2>4. PICK x \in Nat, y \in Nat : x = p * b /\ y = q * b
    OBVIOUS
  <2>. QED
    BY <1>1, <1>2, <2>2, <2>3, <2>4
<1>4. ~(q + 1 <= p)
  <2>1. SUFFICES ASSUME q + 1 <= p PROVE FALSE
    OBVIOUS
  <2>2. (q + 1) * b <= p * b
    BY <2>1, ProductKeepsOrder
  <2>3. (q + 1) * b = q * b + b
    BY Z3
  <2>4. PICK x \in Nat, y \in Nat : x = p * b /\ y = q * b
    OBVIOUS
  <2>. QED
    BY <1>1, <1>2, <2>2, <2>3, <2>4
<1>5. p = q
  BY <1>3, <1>4
<1>6. s = r
  <2>1. PICK x \in Nat : x = p * b /\ x = q * b
    BY <1>5
  <2>. QED
    BY <1>1, <1>2, <2>1
<1>. QED
  BY <1>1, <1>2, <1>5, <1>6

-----------------------------------------------------------------------------
(* The weekly rule.                                                        *)
LEMMA WeekPositive == Week \in Nat \ {0}
<1>1. DayTicks \in Nat \ {0} /\ WeekDays \in Nat \ {0}
  BY WeekAssumption
<1>2. WeekDays * DayTicks \in Nat \ {0}
  BY <1>1, Z3
<1>. QED
  BY <1>2 DEF Week

(* The weeks a late bot counts are those that have passed, and one more.   *)
LEMMA WeeksBehindIs ==
  ASSUME NEW next \in Nat, NEW now \in Nat, next <= now
  PROVE  \E weeks \in Nat : /\ WeeksBehind(next, now) = weeks + 1
                            /\ next + weeks * Week <= now
                            /\ now < next + (weeks + 1) * Week
<1>0. DayTicks \in Nat \ {0} /\ WeekDays \in Nat \ {0}
  BY WeekAssumption
<1>1. PICK lag \in Nat : lag = now - next
  OBVIOUS
<1>2. PICK days \in Nat, ticks \in 0..(DayTicks - 1) :
        days = lag \div DayTicks /\ lag = days * DayTicks + ticks
  BY <1>0, Division
<1>3. PICK weeks \in Nat, rest \in 0..(WeekDays - 1) :
        weeks = days \div WeekDays /\ days = weeks * WeekDays + rest
  BY <1>0, Division
<1>4. WeeksBehind(next, now) = weeks + 1
  BY <1>1, <1>2, <1>3 DEF WeeksBehind
<1>5. PICK x \in Nat : x = weeks * Week /\ (weeks + 1) * Week = x + Week
  <2>1. weeks * Week \in Nat /\ (weeks + 1) * Week = weeks * Week + Week
    BY WeekPositive, Z3
  <2>. QED
    BY <2>1
<1>6. lag = x + rest * DayTicks + ticks
  <2>1. (weeks * WeekDays + rest) * DayTicks = weeks * (WeekDays * DayTicks) + rest * DayTicks
    BY <1>0, Z3
  <2>. QED
    BY <1>2, <1>3, <1>5, <2>1 DEF Week
<1>7. PICK y \in Nat : y = rest * DayTicks /\ y + ticks < Week
  <2>1. rest \in Nat /\ rest <= WeekDays - 1 /\ WeekDays - 1 \in Nat
    BY <1>0
  <2>2. rest * DayTicks <= (WeekDays - 1) * DayTicks
    BY <1>0, <2>1, ProductKeepsOrder
  <2>3. (WeekDays - 1) * DayTicks = Week - DayTicks
    BY <1>0, Z3 DEF Week
  <2>4. rest * DayTicks \in Nat
    BY <1>0, <2>1
  <2>. QED
    BY <1>0, <2>2, <2>3, <2>4, WeekPositive
<1>8. x <= lag /\ lag < x + Week
  BY <1>6, <1>7, WeekPositive
<1>. QED
  BY <1>1, <1>4, <1>5, <1>8, WeekPositive

(* The next weekly occurrence is a number of weeks after the one that      *)
(* fired, and one week earlier would not be after now.                     *)
LEMMA WeeklyNextIs ==
  ASSUME NEW fired \in Nat, NEW now \in Nat, fired <= now
  PROVE  \E k \in Nat : /\ WeeklyNext(fired, now) = fired + (k + 1) * Week
                        /\ WeeklyNext(fired, now) \in Nat
                        /\ WeeklyNext(fired, now) > now
                        /\ fired + k * Week <= now
<1>1. PICK next \in Nat : next = fired + Week
  BY WeekPositive
<1>2. CASE next > now
  <2>1. WeeklyNext(fired, now) = next
    BY <1>1, <1>2 DEF WeeklyNext
  <2>2. (0 + 1) * Week = Week /\ 0 * Week = 0
    BY WeekPositive
  <2>3. 0 \in Nat /\ WeeklyNext(fired, now) = fired + (0 + 1) * Week /\ fired + 0 * Week <= now
    BY <1>1, <2>1, <2>2
  <2>. QED
    BY <1>2, <2>1, <2>3
<1>3. CASE ~(next > now)
  <2>1. PICK weeks \in Nat : /\ WeeksBehind(next, now) = weeks + 1
                             /\ next + weeks * Week <= now
                             /\ now < next + (weeks + 1) * Week
    <3>1. next <= now
      BY <1>3
    <3>. QED
      BY <3>1, WeeksBehindIs
  <2>2. WeeklyNext(fired, now) = next + (weeks + 1) * Week
    BY <1>1, <1>3, <2>1 DEF WeeklyNext
  <2>3. /\ next + weeks * Week = fired + (weeks + 1) * Week
        /\ next + (weeks + 1) * Week = fired + ((weeks + 1) + 1) * Week
        /\ next + (weeks + 1) * Week \in Nat
    BY <1>1, WeekPositive, Z3
  <2>4. weeks + 1 \in Nat
    OBVIOUS
  <2>. QED
    BY <2>1, <2>2, <2>3, <2>4
<1>. QED
  BY <1>2, <1>3

-----------------------------------------------------------------------------
(* Stamps: their parts, and their order.                                   *)
Ticks == 0..(DayTicks - 1)
Days  == 0..31

LEMMA StampOfParts ==
  ASSUME NEW m \in Nat, NEW d \in Days, NEW t \in Ticks
  PROVE  /\ Stamp(m, d, t) \in Nat
         /\ MonthOf(Stamp(m, d, t)) = m
         /\ DayOf(Stamp(m, d, t)) = d
         /\ TickOf(Stamp(m, d, t)) = t
<1>0. DayTicks \in Nat \ {0} /\ d \in 0..(32 - 1) /\ t \in 0..(DayTicks - 1)
  BY WeekAssumption DEF Days, Ticks
<1>1. PICK q \in Nat : q = m * 32 + d
  BY <1>0
<1>2. q \div 32 = m /\ q % 32 = d
  BY <1>0, <1>1, DivisionIsUnique
<1>3. PICK s \in Nat : s = Stamp(m, d, t) /\ s = q * DayTicks + t
  <2>1. q * DayTicks \in Nat /\ t \in Nat
    BY <1>0
  <2>2. q * DayTicks + t \in Nat
    BY <2>1
  <2>. QED
    BY <1>1, <2>2 DEF Stamp
<1>4. s \div DayTicks = q /\ s % DayTicks = t
  BY <1>0, <1>3, DivisionIsUnique
<1>. QED
  BY <1>2, <1>3, <1>4 DEF MonthOf, DayOf, TickOf

LEMMA PartsOfStamp ==
  ASSUME NEW s \in Nat
  PROVE  /\ MonthOf(s) \in Nat /\ DayOf(s) \in Days /\ TickOf(s) \in Ticks
         /\ s = Stamp(MonthOf(s), DayOf(s), TickOf(s))
<1>1. PICK q \in Nat, t \in Ticks : q = s \div DayTicks /\ t = s % DayTicks /\ s = q * DayTicks + t
  BY WeekAssumption, Division DEF Ticks
<1>2. PICK m \in Nat, d \in Days : m = q \div 32 /\ d = q % 32 /\ q = m * 32 + d
  <2>1. 32 \in Nat \ {0} /\ 32 - 1 = 31
    OBVIOUS
  <2>. QED
    BY <2>1, Division DEF Days
<1>. QED
  BY <1>1, <1>2 DEF MonthOf, DayOf, TickOf, Stamp

LEMMA StampOrder ==
  ASSUME NEW m \in Nat, NEW d \in Days, NEW t \in Ticks,
         NEW n \in Nat, NEW e \in Days, NEW u \in Ticks, m < n
  PROVE  Stamp(m, d, t) < Stamp(n, e, u)
<1>0. DayTicks \in Nat \ {0} /\ t \in 0..(DayTicks - 1) /\ u \in 0..(DayTicks - 1)
  BY WeekAssumption DEF Ticks
<1>1. PICK a \in Nat, b \in Nat : a = m * 32 + d /\ b = n * 32 + e /\ a + 1 <= b
  <2>1. m * 32 + d \in Nat /\ n * 32 + e \in Nat /\ (m * 32 + d) + 1 <= n * 32 + e
    BY DEF Days
  <2>. QED
    BY <2>1
<1>2. (a + 1) * DayTicks <= b * DayTicks
  BY <1>0, <1>1, ProductKeepsOrder
<1>3. (a + 1) * DayTicks = a * DayTicks + DayTicks
  BY <1>0, Z3
<1>4. PICK x \in Nat, y \in Nat : x = a * DayTicks /\ y = b * DayTicks
  BY <1>0
<1>5. x + t < y + u
  BY <1>0, <1>2, <1>3, <1>4
<1>. QED
  BY <1>1, <1>4, <1>5 DEF Stamp

(* The length of a month is that of some month.                            *)
LEMMA MonthLength ==
  ASSUME NEW m \in Nat
  PROVE  DaysIn(m) \in 28..31
<1>1. PICK l \in Nat \ {0} : l = Len(MonthDays)
  BY MonthAssumption
<1>2. m % l \in 0..(l - 1)
  BY Division
<1>3. (m % l) + 1 \in 1..Len(MonthDays)
  BY <1>1, <1>2
<1>4. MonthDays[(m % l) + 1] \in 28..31
  BY <1>3, MonthAssumption, ElementOfSeq
<1>. QED
  BY <1>1, <1>4 DEF DaysIn

-----------------------------------------------------------------------------
(* The month after a month, with the carry into the next year.             *)
LEMMA MonthAfter ==
  ASSUME NEW y \in Nat, NEW k \in 0..(Months - 1)
  PROVE  Month(y + (IF k + 2 > Months THEN 1 ELSE 0), IF k + 2 > Months THEN 1 ELSE k + 2)
           = (y * Months + k) + 1
<1>1. Months \in Nat \ {0} /\ k \in Nat /\ k <= Months - 1
  BY MonthAssumption
<1>2. PICK a \in Nat : a = y * Months
  BY <1>1
<1>3. (y + 1) * Months = a + Months
  BY <1>1, <1>2, Z3
<1>4. CASE k + 2 > Months
  <2>1. k = Months - 1
    BY <1>1, <1>4
  <2>2. Month(y + 1, 1) = (a + Months) + (1 - 1)
    BY <1>3 DEF Month
  <2>. QED
    BY <1>1, <1>2, <1>4, <2>1, <2>2
<1>5. CASE ~(k + 2 > Months)
  <2>1. Month(y + 0, k + 2) = a + ((k + 2) - 1)
    BY <1>2 DEF Month
  <2>. QED
    BY <1>1, <1>2, <1>5, <2>1
<1>. QED
  BY <1>4, <1>5

(* MonthlyStep counts the months on, whatever the length of a year.        *)
LEMMA StepCountsMonths ==
  ASSUME NEW day, NEW s \in Nat
  PROVE  MonthlyStep(day, s) = IF day \in 1..DaysIn(MonthOf(s) + 1)
                                 THEN Stamp(MonthOf(s) + 1, day, TickOf(s))
                                 ELSE Stamp((MonthOf(s) + 1) + 1, 1, TickOf(s))
<1>0. Months \in Nat \ {0}
  BY MonthAssumption
<1>1. PICK n \in Nat : n = MonthOf(s)
  BY PartsOfStamp
<1>2. PICK y \in Nat, k \in 0..(Months - 1) : y = n \div Months /\ k = n % Months /\ n = y * Months + k
  BY <1>0, Division
<1>3. k \in Nat /\ k <= Months - 1
  BY <1>0, <1>2
<1>4. Year(s) = y /\ MonthInYear(s) = k + 1
  BY <1>1, <1>2 DEF Year, MonthInYear
<1>. DEFINE m  == IF MonthInYear(s) + 1 > Months THEN 1 ELSE MonthInYear(s) + 1
            z  == Year(s) + (IF MonthInYear(s) + 1 > Months THEN 1 ELSE 0)
            m2 == IF m < Months THEN m + 1 ELSE 1
            z2 == z + (IF m = Months THEN 1 ELSE 0)
<1>5. m = (IF k + 2 > Months THEN 1 ELSE k + 2) /\ z = y + (IF k + 2 > Months THEN 1 ELSE 0)
  BY <1>0, <1>3, <1>4
<1>6. Month(z, m) = n + 1
  BY <1>2, <1>5, MonthAfter
<1>7. z \in Nat /\ m - 1 \in 0..(Months - 1)
  BY <1>0, <1>3, <1>5
<1>8. Month(z2, m2) = (n + 1) + 1
  <2>1. PICK j \in 0..(Months - 1) : j = m - 1
    BY <1>7
  <2>2. j \in Nat /\ m = j + 1
    BY <1>0, <1>3, <1>5, <2>1
  <2>. HIDE DEF m, z
  <2>3. Month(z + (IF j + 2 > Months THEN 1 ELSE 0), IF j + 2 > Months THEN 1 ELSE j + 2)
          = (z * Months + j) + 1
    BY <1>7, MonthAfter
  <2>4. z * Months + j = n + 1
    BY <1>6, <2>1 DEF Month
  <2>5. z2 = z + (IF j + 2 > Months THEN 1 ELSE 0) /\ m2 = IF j + 2 > Months THEN 1 ELSE j + 2
    BY <1>0, <2>1, <2>2
  <2>. QED
    BY <2>3, <2>4, <2>5
<1>9. MonthlyStep(day, s) = IF day \in 1..DaysIn(Month(z, m))
                              THEN Stamp(Month(z, m), day, TickOf(s))
                              ELSE Stamp(Month(z2, m2), 1, TickOf(s))
  BY DEF MonthlyStep
<1>. HIDE DEF m, z, m2, z2
<1>. QED
  BY <1>1, <1>6, <1>8, <1>9

(* A step of the monthly rule leads to a later month, and to a date.       *)
LEMMA MonthlyStepIs ==
  ASSUME NEW day, NEW s \in Nat
  PROVE  /\ MonthlyStep(day, s) \in Nat
         /\ MonthlyStep(day, s) > s
         /\ IsDate(MonthlyStep(day, s))
         /\ MonthOf(MonthlyStep(day, s)) \in {MonthOf(s) + 1, MonthOf(s) + 2}
         /\ TickOf(MonthlyStep(day, s)) = TickOf(s)
         /\ OnRule(day, MonthlyStep(day, s))
<1>1. PICK n \in Nat, e \in Days, u \in Ticks :
        n = MonthOf(s) /\ u = TickOf(s) /\ s = Stamp(n, e, u)
  BY PartsOfStamp
<1>2. PICK m \in Nat, d \in Days :
        /\ m > n /\ d \in 1..DaysIn(m) /\ MonthlyStep(day, s) = Stamp(m, d, u)
        /\ m \in {n + 1, n + 2}
        /\ d = day \/ (d = 1 /\ day \notin 1..DaysIn(m - 1))
  <2>1. n + 1 \in Nat /\ n + 1 > n /\ (n + 1) + 1 \in Nat /\ (n + 1) + 1 > n
    OBVIOUS
  <2>2. DaysIn(n + 1) \in 28..31 /\ DaysIn((n + 1) + 1) \in 28..31
    BY <2>1, MonthLength
  <2>3. CASE day \in 1..DaysIn(n + 1)
    <3>1. day \in Days
      BY <2>2, <2>3 DEF Days
    <3>2. MonthlyStep(day, s) = Stamp(n + 1, day, u)
      BY <1>1, <2>3, StepCountsMonths
    <3>. QED
      BY <2>1, <2>3, <3>1, <3>2
  <2>4. CASE day \notin 1..DaysIn(n + 1)
    <3>1. 1 \in Days /\ 1 \in 1..DaysIn((n + 1) + 1)
      BY <2>2 DEF Days
    <3>2. MonthlyStep(day, s) = Stamp((n + 1) + 1, 1, u)
      BY <1>1, <2>4, StepCountsMonths
    <3>3. ((n + 1) + 1) - 1 = n + 1 /\ (n + 1) + 1 = n + 2
      OBVIOUS
    <3>. QED
      BY <2>1, <2>4, <3>1, <3>2, <3>3
  <2>. QED
    BY <2>3, <2>4
<1>3. /\ Stamp(m, d, u) \in Nat
      /\ MonthOf(Stamp(m, d, u)) = m /\ DayOf(Stamp(m, d, u)) = d
      /\ TickOf(Stamp(m, d, u)) = u
  BY StampOfParts
<1>4. Stamp(n, e, u) < Stamp(m, d, u)
  BY <1>2, StampOrder
<1>5. PICK v \in Nat : v = MonthlyStep(day, s) /\ v = Stamp(m, d, u)
  BY <1>2, <1>3
<1>6. v > s
  <2>1. s < v
    BY <1>1, <1>4, <1>5
  <2>. QED
    BY <2>1
<1>. QED
  BY <1>1, <1>2, <1>3, <1>5, <1>6 DEF IsDate, OnRule

(* The recursive function of MonthlyNext exists: one that is right for all *)
(* stamps less than n before now is right, one step on, for n + 1.         *)
RightWithin(g, n, day, now) ==
  /\ g \in [Nat -> Nat]
  /\ \A s \in Nat : s + n > now => g[s] = IF s > now THEN s ELSE g[MonthlyStep(day, s)]

LEMMA NextExists ==
  ASSUME NEW day, NEW now \in Nat
  PROVE  \E g \in [Nat -> Nat] : g = [s \in Nat |-> IF s > now THEN s ELSE g[MonthlyStep(day, s)]]
<1>. DEFINE P(n) == \E g : RightWithin(g, n, day, now)
            S    == {n \in Nat : P(n)}
<1>1. P(0)
  <2>1. PICK g : g = [s \in Nat |-> s]
    OBVIOUS
  <2>2. g \in [Nat -> Nat] /\ \A s \in Nat : g[s] = s
    BY <2>1
  <2>3. \A s \in Nat : s + 0 > now => s > now
    OBVIOUS
  <2>4. RightWithin(g, 0, day, now)
    BY <2>2, <2>3 DEF RightWithin
  <2>. QED
    BY <2>4
<1>2. ASSUME NEW n \in Nat, P(n)
      PROVE  P(n + 1)
  <2>1. PICK g : RightWithin(g, n, day, now)
    BY <1>2
  <2>2. \A s \in Nat : g[s] \in Nat
    BY <2>1 DEF RightWithin
  <2>3. PICK h : h = [s \in Nat |-> IF s > now THEN s ELSE g[MonthlyStep(day, s)]]
    OBVIOUS
  <2>4. \A s \in Nat : h[s] = IF s > now THEN s ELSE g[MonthlyStep(day, s)]
    BY <2>3
  <2>5. h \in [Nat -> Nat]
    <3>1. \A s \in Nat : (IF s > now THEN s ELSE g[MonthlyStep(day, s)]) \in Nat
      BY <2>2, MonthlyStepIs
    <3>. QED
      BY <2>3, <3>1
  <2>6. ASSUME NEW s \in Nat, s + (n + 1) > now
        PROVE  h[s] = IF s > now THEN s ELSE h[MonthlyStep(day, s)]
    <3>1. PICK v \in Nat : v = MonthlyStep(day, s) /\ v > s
      BY MonthlyStepIs
    <3>2. v + n > now
      BY <2>6, <3>1
    <3>3. g[v] = IF v > now THEN v ELSE g[MonthlyStep(day, v)]
      BY <2>1, <3>2 DEF RightWithin
    <3>4. h[v] = g[v]
      BY <2>4, <3>3
    <3>. QED
      BY <2>4, <3>1, <3>4
  <2>7. RightWithin(h, n + 1, day, now)
    BY <2>5, <2>6 DEF RightWithin
  <2>. QED
    BY <2>7
<1>. HIDE DEF P
<1>3. 0 \in S /\ \A n \in Nat : n \in S => n + 1 \in S
  BY <1>1, <1>2
<1>4. now + 1 \in S
  <2>1. now + 1 \in Nat
    OBVIOUS
  <2>. HIDE DEF S
  <2>. QED
    BY <1>3, <2>1, Induction
<1>5. PICK g : RightWithin(g, now + 1, day, now)
  BY <1>4 DEF P
<1>6. g \in [Nat -> Nat] /\ \A s \in Nat : g[s] = IF s > now THEN s ELSE g[MonthlyStep(day, s)]
  <2>1. \A s \in Nat : s + (now + 1) > now
    OBVIOUS
  <2>. QED
    BY <1>5, <2>1 DEF RightWithin
<1>7. g = [s \in Nat |-> IF s > now THEN s ELSE g[MonthlyStep(day, s)]]
  BY <1>6
<1>. QED
  BY <1>6, <1>7

(* What MonthlyNext applies, as facts about its values.                    *)
Iterated(g, day, now) ==
  \A s \in Nat : g[s] = IF s > now THEN s ELSE g[MonthlyStep(day, s)]

LEMMA MonthlyNextIs ==
  ASSUME NEW day, NEW fired, NEW now \in Nat
  PROVE  \E g : Iterated(g, day, now) /\ MonthlyNext(day, fired, now) = g[fired]
<1>. DEFINE Solves(g) == g = [s \in Nat |-> IF s > now THEN s ELSE g[MonthlyStep(day, s)]]
<1>1. \E g : Solves(g)
  <2>1. PICK g \in [Nat -> Nat] : g = [s \in Nat |-> IF s > now THEN s ELSE g[MonthlyStep(day, s)]]
    BY NextExists
  <2>2. Solves(g)
    BY <2>1
  <2>. QED
    BY <2>2
<1>2. PICK g : Solves(g) /\ MonthlyNext(day, fired, now) = g[fired]
  BY <1>1 DEF MonthlyNext
<1>3. Iterated(g, day, now)
  BY <1>2 DEF Iterated
<1>. QED
  BY <1>2, <1>3

(* The next monthly occurrence is after now, and a date.                   *)
LEMMA MonthlyNextAhead ==
  ASSUME NEW day, NEW fired \in Nat, IsDate(fired), NEW now \in Nat
  PROVE  /\ MonthlyNext(day, fired, now) \in Nat
         /\ MonthlyNext(day, fired, now) > now
         /\ IsDate(MonthlyNext(day, fired, now))
<1>1. PICK g : Iterated(g, day, now) /\ MonthlyNext(day, fired, now) = g[fired]
  BY MonthlyNextIs
<1>. DEFINE Good(s) == g[s] \in Nat /\ g[s] > now /\ IsDate(g[s])
            P(n) == \A s \in Nat : IsDate(s) /\ s + n > now => Good(s)
            S    == {n \in Nat : P(n)}
<1>2. P(0)
  <2>1. SUFFICES ASSUME NEW s \in Nat, IsDate(s), s + 0 > now PROVE Good(s)
    OBVIOUS
  <2>2. s > now
    BY <2>1
  <2>3. g[s] = s
    BY <1>1, <2>2 DEF Iterated
  <2>. QED
    BY <2>1, <2>2, <2>3
<1>3. ASSUME NEW n \in Nat, P(n)
      PROVE  P(n + 1)
  <2>1. SUFFICES ASSUME NEW s \in Nat, IsDate(s), s + (n + 1) > now PROVE Good(s)
    OBVIOUS
  <2>2. CASE s > now
    <3>1. g[s] = s
      BY <1>1, <2>2 DEF Iterated
    <3>. QED
      BY <2>1, <2>2, <3>1
  <2>3. CASE ~(s > now)
    <3>1. PICK v \in Nat : v = MonthlyStep(day, s) /\ v > s /\ IsDate(v)
      BY MonthlyStepIs
    <3>2. g[s] = g[v]
      BY <1>1, <2>3, <3>1 DEF Iterated
    <3>3. v + n > now
      BY <2>1, <3>1
    <3>4. Good(v)
      BY <1>3, <3>1, <3>3
    <3>. QED
      BY <3>2, <3>4
  <2>. QED
    BY <2>2, <2>3
<1>. HIDE DEF P
<1>4. 0 \in S /\ \A n \in Nat : n \in S => n + 1 \in S
  BY <1>2, <1>3
<1>5. now + 1 \in S
  <2>1. now + 1 \in Nat
    OBVIOUS
  <2>. HIDE DEF S
  <2>. QED
    BY <1>4, <2>1, Induction
<1>6. fired + (now + 1) > now
  OBVIOUS
<1>7. Good(fired)
  <2>1. P(now + 1)
    BY <1>5
  <2>. HIDE DEF Good
  <2>. QED
    BY <1>6, <2>1 DEF P
<1>. QED
  BY <1>1, <1>7

(* Wherever the recursion starts, it ends on the rule, at the same time of *)
(* day, in a later month and no more than two months after now.            *)
LEMMA LaterHasLaterMonth ==
  ASSUME NEW s \in Nat, NEW t \in Nat, s <= t
  PROVE  MonthOf(s) <= MonthOf(t)
<1>1. PICK m \in Nat, d \in Days, u \in Ticks : m = MonthOf(s) /\ s = Stamp(m, d, u)
  BY PartsOfStamp
<1>2. PICK n \in Nat, e \in Days, v \in Ticks : n = MonthOf(t) /\ t = Stamp(n, e, v)
  BY PartsOfStamp
<1>3. n < m => t < s
  BY <1>1, <1>2, StampOrder
<1>. QED
  BY <1>1, <1>2, <1>3

InPace(t, day, s, now) ==
  /\ TickOf(t) = TickOf(s)
  /\ MonthOf(t) \in (MonthOf(s) + 1)..(MonthOf(now) + 2)
  /\ OnRule(day, t)

LEMMA MonthlyNextInPace ==
  ASSUME NEW day, NEW fired \in Nat, NEW now \in Nat, fired <= now
  PROVE  InPace(MonthlyNext(day, fired, now), day, fired, now)
<1>1. PICK g : Iterated(g, day, now) /\ MonthlyNext(day, fired, now) = g[fired]
  BY MonthlyNextIs
<1>. DEFINE P(n) == \A s \in Nat : s <= now /\ s + n > now => InPace(g[s], day, s, now)
            S    == {n \in Nat : P(n)}
<1>2. P(0)
  OBVIOUS
<1>3. ASSUME NEW n \in Nat, P(n)
      PROVE  P(n + 1)
  <2>1. SUFFICES ASSUME NEW s \in Nat, s <= now, s + (n + 1) > now PROVE InPace(g[s], day, s, now)
    OBVIOUS
  <2>2. PICK v \in Nat : /\ v = MonthlyStep(day, s) /\ v > s
                         /\ MonthOf(v) \in {MonthOf(s) + 1, MonthOf(s) + 2}
                         /\ TickOf(v) = TickOf(s) /\ OnRule(day, v)
    BY MonthlyStepIs
  <2>3. g[s] = g[v]
    BY <1>1, <2>1, <2>2 DEF Iterated
  <2>4. PICK a \in Nat, b \in Nat, c \in Nat :
          a = MonthOf(s) /\ b = MonthOf(v) /\ c = MonthOf(now) /\ a <= c /\ b \in {a + 1, a + 2}
    BY <2>1, <2>2, LaterHasLaterMonth, PartsOfStamp
  <2>5. CASE v > now
    <3>1. g[v] = v
      BY <1>1, <2>5 DEF Iterated
    <3>2. b \in (a + 1)..(c + 2)
      BY <2>4
    <3>. QED
      BY <2>2, <2>3, <2>4, <3>1, <3>2 DEF InPace
  <2>6. CASE v <= now
    <3>1. v + n > now
      BY <2>1, <2>2
    <3>2. InPace(g[v], day, v, now)
      BY <1>3, <2>6, <3>1
    <3>3. (b + 1)..(c + 2) \subseteq (a + 1)..(c + 2)
      BY <2>4
    <3>. QED
      BY <2>2, <2>3, <2>4, <3>2, <3>3 DEF InPace
  <2>. QED
    BY <2>5, <2>6
<1>. HIDE DEF P
<1>4. 0 \in S /\ \A n \in Nat : n \in S => n + 1 \in S
  BY <1>2, <1>3
<1>5. now + 1 \in S
  <2>1. now + 1 \in Nat
    OBVIOUS
  <2>. HIDE DEF S
  <2>. QED
    BY <1>4, <2>1, Induction
<1>6. fired + (now + 1) > now
  OBVIOUS
<1>7. P(now + 1)
  BY <1>5
<1>8. InPace(g[fired], day, fired, now)
  BY <1>6, <1>7 DEF P
<1>. QED
  BY <1>1, <1>8

(* A day that every month has: from one month to the next the rule goes    *)
(* through all of them, and stops at the first that is after now.          *)
CommonDays == 1..28

FirstAfter(n, m, day, tick, now) ==
  /\ m <= n /\ Stamp(n, day, tick) > now
  /\ \A j \in m..(n - 1) : Stamp(j, day, tick) <= now

LEMMA MonthlyFirst ==
  ASSUME NEW day \in CommonDays, NEW tick \in Ticks, NEW now \in Nat, NEW g, Iterated(g, day, now),
         NEW m \in Nat
  PROVE  \E n \in Nat : FirstAfter(n, m, day, tick, now) /\ g[Stamp(m, day, tick)] = Stamp(n, day, tick)
<1>. DEFINE On(k) == Stamp(k, day, tick)
            Stops(k, n) == /\ k <= n /\ g[On(k)] = On(n) /\ On(n) > now
                           /\ \A j \in k..(n - 1) : On(j) <= now
            P(i) == \A k \in Nat : On(k) + i > now => \E n \in Nat : Stops(k, n)
            S    == {i \in Nat : P(i)}
<1>0. day \in 1..28 /\ day \in Days
  BY DEF Days, CommonDays
<1>1. \A k \in Nat : On(k) \in Nat /\ MonthOf(On(k)) = k /\ TickOf(On(k)) = tick
  BY <1>0, StampOfParts
<1>2. \A k \in Nat : MonthlyStep(day, On(k)) = On(k + 1)
  <2>1. SUFFICES ASSUME NEW k \in Nat PROVE MonthlyStep(day, On(k)) = On(k + 1)
    OBVIOUS
  <2>2. k + 1 \in Nat /\ DaysIn(k + 1) \in 28..31
    BY MonthLength
  <2>3. day \in 1..DaysIn(k + 1)
    BY <1>0, <2>2
  <2>4. MonthOf(On(k)) = k /\ TickOf(On(k)) = tick
    BY <1>1
  <2>. HIDE DEF On
  <2>5. MonthlyStep(day, On(k)) = Stamp(k + 1, day, tick)
    <3>1. PICK v \in Nat : v = On(k)
      BY <1>1
    <3>2. MonthOf(v) = k /\ TickOf(v) = tick
      BY <2>4, <3>1
    <3>3. MonthlyStep(day, v) = Stamp(k + 1, day, tick)
      BY <2>3, <3>2, StepCountsMonths
    <3>. QED
      BY <3>1, <3>3
  <2>. QED
    BY <2>5 DEF On
<1>. HIDE DEF On
<1>3. ASSUME NEW k \in Nat, On(k) > now
      PROVE  Stops(k, k)
  <2>1. g[On(k)] = On(k)
    BY <1>1, <1>3 DEF Iterated
  <2>2. k..(k - 1) = {}
    OBVIOUS
  <2>. QED
    BY <1>3, <2>1, <2>2
<1>4. P(0)
  <2>1. SUFFICES ASSUME NEW k \in Nat, On(k) + 0 > now PROVE \E n \in Nat : Stops(k, n)
    OBVIOUS
  <2>2. On(k) > now
    BY <1>1, <2>1
  <2>. HIDE DEF Stops
  <2>. QED
    BY <1>3, <2>2
<1>5. ASSUME NEW i \in Nat, P(i)
      PROVE  P(i + 1)
  <2>1. SUFFICES ASSUME NEW k \in Nat, On(k) + (i + 1) > now PROVE \E n \in Nat : Stops(k, n)
    OBVIOUS
  <2>2. CASE On(k) > now
    <3>. HIDE DEF Stops
    <3>. QED
      BY <1>3, <2>2
  <2>3. CASE ~(On(k) > now)
    <3>1. PICK v \in Nat, s \in Nat, l \in Nat : l = k + 1 /\ s = On(k) /\ v = On(l) /\ v > s
      <4>1. k + 1 \in Nat /\ On(k) \in Nat
        BY <1>1
      <4>2. MonthlyStep(day, On(k)) \in Nat /\ MonthlyStep(day, On(k)) > On(k)
        BY <4>1, MonthlyStepIs
      <4>. QED
        BY <1>2, <4>1, <4>2
    <3>2. g[On(k)] = g[On(l)]
      BY <1>1, <1>2, <2>3, <3>1 DEF Iterated
    <3>3. On(l) + i > now
      BY <2>1, <3>1
    <3>4. PICK n \in Nat : Stops(l, n)
      <4>. HIDE DEF Stops
      <4>. QED
        BY <1>5, <3>1, <3>3
    <3>5. ASSUME NEW j \in k..(n - 1)
          PROVE  On(j) <= now
      <4>1. CASE j = k
        BY <1>1, <2>3, <4>1
      <4>2. CASE j # k
        <5>1. j \in l..(n - 1)
          BY <3>1, <4>2
        <5>. QED
          BY <3>4, <5>1
      <4>. QED
        BY <4>1, <4>2
    <3>6. Stops(k, n)
      <4>1. k <= n
        BY <3>1, <3>4
      <4>. QED
        BY <3>2, <3>4, <3>5, <4>1
    <3>. QED
      BY <3>6
  <2>. QED
    BY <2>2, <2>3
<1>. HIDE DEF P, Stops
<1>6. 0 \in S /\ \A i \in Nat : i \in S => i + 1 \in S
  BY <1>4, <1>5
<1>7. now + 1 \in S
  <2>1. now + 1 \in Nat
    OBVIOUS
  <2>. HIDE DEF S
  <2>. QED
    BY <1>6, <2>1, Induction
<1>8. \E n \in Nat : Stops(m, n)
  <2>1. On(m) + (now + 1) > now
    BY <1>1
  <2>. QED
    BY <1>7, <2>1 DEF P
<1>. QED
  BY <1>8 DEF Stops, On, FirstAfter

LEMMA MonthlyNextFirst ==
  ASSUME NEW day \in CommonDays, NEW fired \in Nat, NEW now \in Nat, fired <= now
  PROVE  \E n \in Nat : /\ FirstAfter(n, MonthOf(fired) + 1, day, TickOf(fired), now)
                        /\ MonthlyNext(day, fired, now) = Stamp(n, day, TickOf(fired))
<1>1. PICK first \in Nat, tick \in Ticks : first = MonthOf(fired) + 1 /\ tick = TickOf(fired)
  BY PartsOfStamp
<1>2. PICK g : Iterated(g, day, now) /\ MonthlyNext(day, fired, now) = g[fired]
  BY MonthlyNextIs
<1>3. MonthlyStep(day, fired) = Stamp(first, day, tick)
  <2>1. DaysIn(first) \in 28..31
    BY MonthLength
  <2>2. day \in 1..DaysIn(first)
    BY <2>1 DEF CommonDays
  <2>. QED
    BY <1>1, <2>2, StepCountsMonths
<1>4. g[fired] = g[Stamp(first, day, tick)]
  BY <1>2, <1>3 DEF Iterated
<1>5. \E n \in Nat : FirstAfter(n, first, day, tick, now) /\ g[Stamp(first, day, tick)] = Stamp(n, day, tick)
  BY <1>2, MonthlyFirst
<1>. QED
  BY <1>1, <1>2, <1>4, <1>5

(* Of the moments the rule allows, it is the first after now.              *)
FirstOf(t, day, fired, now) ==
  LET days == {Stamp(m, day, TickOf(fired)) : m \in (MonthOf(fired) + 1)..(MonthOf(now) + 2)}
  IN  /\ t \in days
      /\ \A s \in days : s > now => t <= s

LEMMA MonthlyNextIsFirst ==
  ASSUME NEW day \in CommonDays, NEW fired \in Nat, NEW now \in Nat, fired <= now
  PROVE  FirstOf(MonthlyNext(day, fired, now), day, fired, now)
<1>1. PICK to \in Nat, e \in Days, u \in Ticks : to = MonthOf(now) /\ now = Stamp(to, e, u)
  BY PartsOfStamp
<1>2. PICK from \in Nat, tick \in Ticks : from = MonthOf(fired) /\ tick = TickOf(fired)
  BY PartsOfStamp
<1>3. PICK first \in Nat : first = from + 1
  OBVIOUS
<1>4. day \in Days
  BY DEF Days, CommonDays
<1>5. from <= to
  <2>1. PICK d \in Days, t \in Ticks : fired = Stamp(from, d, t)
    BY <1>2, PartsOfStamp
  <2>2. to < from => now < fired
    BY <1>1, <2>1, StampOrder
  <2> QED BY <2>2
<1>6. PICK n \in Nat : /\ FirstAfter(n, first, day, tick, now)
                       /\ MonthlyNext(day, fired, now) = Stamp(n, day, tick)
  <2>1. \E n \in Nat : /\ FirstAfter(n, MonthOf(fired) + 1, day, TickOf(fired), now)
                       /\ MonthlyNext(day, fired, now) = Stamp(n, day, TickOf(fired))
    BY MonthlyNextFirst
  <2> QED BY <1>2, <1>3, <2>1
<1>7. /\ first <= n /\ Stamp(n, day, tick) > now
      /\ \A j \in first..(n - 1) : Stamp(j, day, tick) <= now
  BY <1>6 DEF FirstAfter
<1>8. n <= to + 2
  <2>1. CASE n = first
    BY <1>3, <1>5, <2>1
  <2>2. CASE n # first
    <3>1. PICK j \in Nat : j = n - 1 /\ j \in first..(n - 1)
      BY <1>7, <2>2
    <3>2. Stamp(j, day, tick) <= now /\ Stamp(j, day, tick) \in Nat
      BY <1>4, <1>7, <3>1, StampOfParts
    <3>3. to < j => now < Stamp(j, day, tick)
      BY <1>1, <1>4, StampOrder
    <3> QED BY <3>1, <3>2, <3>3
  <2> QED BY <2>1, <2>2
<1>9. n \in first..(to + 2)
  BY <1>8, <1>7
<1>10. ASSUME NEW j \in first..(to + 2), Stamp(j, day, tick) > now
       PROVE  Stamp(n, day, tick) <= Stamp(j, day, tick)
  <2>1. j \in Nat /\ Stamp(j, day, tick) \in Nat /\ Stamp(n, day, tick) \in Nat
    BY <1>4, StampOfParts
  <2>2. ~(j < n)
    <3>1. SUFFICES ASSUME j < n PROVE FALSE
      OBVIOUS
    <3>2. j \in first..(n - 1)
      BY <2>1, <3>1
    <3>3. Stamp(j, day, tick) <= now
      BY <1>7, <3>2
    <3> QED BY <1>10, <2>1, <3>3
  <2>3. CASE j = n
    BY <2>1, <2>3
  <2>4. CASE n < j
    <3>1. Stamp(n, day, tick) < Stamp(j, day, tick)
      BY <1>4, <2>1, <2>4, StampOrder
    <3> QED BY <2>1, <3>1
  <2> QED BY <2>1, <2>2, <2>3, <2>4
<1> QED BY <1>1, <1>2, <1>3, <1>6, <1>9, <1>10 DEF FirstOf

-----------------------------------------------------------------------------
(* The steps of a series.                                                  *)
LEMMA FireIs ==
  ASSUME TypeOK, Fire
  PROVE  /\ fireAt \in Nat /\ handled' \in Nat /\ fireAt <= handled'
         /\ rule \in Rules /\ rule' = rule
         /\ rule.unit = "monthly" => IsDate(fireAt)
         /\ rule.unit = "weekly" => fireAt' = WeeklyNext(fireAt, handled')
         /\ rule.unit = "monthly" => fireAt' = MonthlyNext(rule.arg, fireAt, handled')
<1>1. fireAt \in Nat /\ rule \in Rules /\ rule.unit = "monthly" => IsDate(fireAt)
  BY DEF TypeOK
<1>2. PICK l \in Nat : l = fireAt + MaxLate
  BY <1>1, SeriesAssumption DEF TypeOK
<1>3. handled' \in fireAt..l
  BY <1>2 DEF Fire, HandlingMoments
<1>4. handled' \in Nat /\ fireAt <= handled'
  BY <1>3 DEF TypeOK
<1>. QED
  BY <1>4 DEF Fire, NextOccurrence, TypeOK

LEMMA FireLeadsAhead ==
  ASSUME TypeOK, Fire
  PROVE  fireAt' \in Nat /\ fireAt' > handled' /\ (rule.unit = "monthly" => IsDate(fireAt'))
<1>1. CASE rule.unit = "weekly"
  <2>1. PICK fired \in Nat, now \in Nat :
          fired = fireAt /\ now = handled' /\ fired <= now /\ fireAt' = WeeklyNext(fired, now)
    BY <1>1, FireIs
  <2>2. WeeklyNext(fired, now) \in Nat /\ WeeklyNext(fired, now) > now
    BY <2>1, WeeklyNextIs
  <2>. QED
    BY <1>1, <2>1, <2>2
<1>2. CASE rule.unit = "monthly"
  <2>1. PICK fired \in Nat, now \in Nat, day \in {rule.arg} :
          fired = fireAt /\ now = handled' /\ IsDate(fired) /\ fireAt' = MonthlyNext(day, fired, now)
    BY <1>2, FireIs
  <2>2. /\ MonthlyNext(day, fired, now) \in Nat /\ MonthlyNext(day, fired, now) > now
        /\ IsDate(MonthlyNext(day, fired, now))
    BY <2>1, MonthlyNextAhead
  <2>. QED
    BY <2>1, <2>2
<1>3. rule.unit \in {"weekly", "monthly"}
  BY FireIs DEF Rules
<1>. QED
  BY <1>1, <1>2, <1>3

(* The fire time of a series is a moment, of a monthly one a date, however *)
(* late its firings are handled and whatever day its rule names.           *)
THEOREM SeriesAreTyped == Spec => []TypeOK
<1>1. Init => TypeOK
  <2>1. SUFFICES ASSUME Init PROVE TypeOK
    OBVIOUS
  <2>2. rule \in Rules /\ handled = 0 /\ firings = 0 /\ 0 \in 0..MaxFirings
    BY <2>1, SeriesAssumption DEF Init
  <2>3. CASE rule.unit = "weekly"
    BY <2>1, <2>2, <2>3, SeriesAssumption DEF Init, TypeOK
  <2>4. CASE rule.unit # "weekly"
    BY <2>1, <2>2, <2>4, SeriesAssumption DEF Init, TypeOK
  <2> QED BY <2>3, <2>4
<1>2. TypeOK /\ [Next]_vars => TypeOK'
  <2>1. ASSUME TypeOK, Fire PROVE TypeOK'
    <3>1. fireAt' \in Nat /\ (rule.unit = "monthly" => IsDate(fireAt'))
      BY <2>1, FireLeadsAhead
    <3>2. rule' = rule /\ rule \in Rules /\ handled' \in Nat
      BY <2>1, FireIs
    <3>3. firings' \in 0..MaxFirings
      BY <2>1, SeriesAssumption DEF Fire, TypeOK
    <3>4. IsDate(fireAt)' <=> IsDate(fireAt')
      BY DEF IsDate, DayOf, MonthOf, DaysIn
    <3> QED BY <3>1, <3>2, <3>3, <3>4 DEF TypeOK, Rules
  <2>2. CASE UNCHANGED vars
    BY <2>2 DEF vars, TypeOK, Rules, IsDate, DayOf, MonthOf, DaysIn
  <2> QED BY <2>1, <2>2 DEF Next
<1> QED BY <1>1, <1>2, PTL DEF Spec

(* schedule_next_recurring leaves no occurrence in the past, so that an    *)
(* outage of any length ends with one firing and not with a burst.         *)
THEOREM NextIsAlwaysAhead == Spec => NextIsAhead
<1>1. ASSUME TypeOK, [Next]_vars PROVE [fireAt' > handled']_vars
  BY <1>1, FireLeadsAhead DEF Next
<1> QED BY <1>1, SeriesAreTyped, PTL DEF Spec, NextIsAhead

(* A weekly series skips exactly the weeks that have passed: the next      *)
(* occurrence is the first after now on the weekday and at the time of the *)
(* one that fired.                                                         *)
THEOREM WeeklySeriesSkipNoWeek == Spec => WeeklyIsFirstOnGrid
<1>. DEFINE First == rule.unit = "weekly" =>
                       LET grid == {fireAt + k * Week : k \in 1..(handled' + 1)}
                       IN  /\ fireAt' \in grid
                           /\ \A t \in grid : t > handled' => fireAt' <= t
<1>1. ASSUME TypeOK, Fire PROVE First
  <2>1. SUFFICES ASSUME rule.unit = "weekly"
                 PROVE  LET grid == {fireAt + k * Week : k \in 1..(handled' + 1)}
                        IN  /\ fireAt' \in grid
                            /\ \A t \in grid : t > handled' => fireAt' <= t
    OBVIOUS
  <2>2. PICK fired \in Nat, now \in Nat :
          fired = fireAt /\ now = handled' /\ fired <= now /\ fireAt' = WeeklyNext(fired, now)
    BY <1>1, <2>1, FireIs
  <2>3. PICK k \in Nat : fireAt' = fired + (k + 1) * Week /\ fireAt' > now /\ fired + k * Week <= now
    BY <2>2, WeeklyNextIs
  <2>4. k + 1 \in 1..(now + 1)
    <3>1. 1 * k <= Week * k
      BY WeekPositive, ProductKeepsOrder
    <3>2. Week * k = k * Week /\ 1 * k = k /\ k * Week \in Nat
      BY WeekPositive
    <3> QED BY <2>3, <3>1, <3>2
  <2>5. ASSUME NEW j \in 1..(now + 1), fired + j * Week > now
        PROVE  fired + (k + 1) * Week <= fired + j * Week
    <3>1. PICK i \in Nat : i = j
      OBVIOUS
    <3>2. k + 1 <= i
      <4>1. SUFFICES ASSUME i <= k PROVE FALSE
        BY <3>1
      <4>2. i * Week <= k * Week
        BY <4>1, WeekPositive, ProductKeepsOrder
      <4>3. i * Week \in Nat /\ k * Week \in Nat
        BY WeekPositive
      <4> QED BY <2>3, <2>5, <3>1, <4>2, <4>3
    <3>3. (k + 1) * Week <= i * Week
      BY <3>2, WeekPositive, ProductKeepsOrder
    <3>4. i * Week \in Nat /\ (k + 1) * Week \in Nat
      BY WeekPositive
    <3> QED BY <3>1, <3>3, <3>4
  <2> QED BY <2>2, <2>3, <2>4, <2>5
<1>2. ASSUME TypeOK, [Next]_vars PROVE [First]_vars
  <2> HIDE DEF First
  <2> QED BY <1>1, <1>2 DEF Next
<1> QED BY <1>2, SeriesAreTyped, PTL DEF Spec, WeeklyIsFirstOnGrid

(* A monthly series stays at its time of day and on the day of its rule, or*)
(* on the first of a month after one without that day, and is never more   *)
(* than two months ahead; for a day that every month has it skips exactly  *)
(* the occurrences that have passed.                                       *)
THEOREM MonthlySeriesKeepPace == Spec => MonthlyIsFirstOnDay
<1>. DEFINE First == rule.unit = "monthly" =>
       LET months == (MonthOf(fireAt) + 1)..(MonthOf(handled') + 2)
           days   == {Stamp(n, rule.arg, TickOf(fireAt)) : n \in months}
       IN  /\ TickOf(fireAt') = TickOf(fireAt)
           /\ MonthOf(fireAt') \in months
           /\ OnRule(rule.arg, fireAt')
           /\ rule.arg \in 1..28 => \A t \in days : t > handled' => fireAt' <= t
<1>1. ASSUME TypeOK, Fire PROVE First
  <2>1. SUFFICES ASSUME rule.unit = "monthly" PROVE First
    BY DEF First
  <2>2. PICK fired \in Nat, now \in Nat, day \in {rule.arg}, next \in {fireAt'} :
          /\ fired = fireAt /\ now = handled' /\ day = rule.arg /\ fired <= now
          /\ next = MonthlyNext(day, fired, now)
    BY <1>1, <2>1, FireIs
  <2>3. InPace(next, day, fired, now)
    BY <2>2, MonthlyNextInPace
  <2>4. day \in 1..28 => FirstOf(next, day, fired, now)
    BY <2>2, MonthlyNextIsFirst DEF CommonDays
  <2>5. next = fireAt'
    BY <2>2
  <2>. HIDE DEF First
  <2>6. /\ TickOf(fireAt') = TickOf(fireAt)
        /\ MonthOf(fireAt') \in (MonthOf(fireAt) + 1)..(MonthOf(handled') + 2)
        /\ OnRule(rule.arg, fireAt')
    BY <2>2, <2>3, <2>5 DEF InPace
  <2>7. rule.arg \in 1..28 =>
          \A t \in {Stamp(n, rule.arg, TickOf(fireAt)) :
                     n \in (MonthOf(fireAt) + 1)..(MonthOf(handled') + 2)} : t > handled' => fireAt' <= t
    BY <2>2, <2>4, <2>5 DEF FirstOf
  <2> QED BY <2>6, <2>7 DEF First
<1>2. ASSUME TypeOK, [Next]_vars PROVE [First]_vars
  <2> HIDE DEF First
  <2> QED BY <1>1, <1>2 DEF Next
<1> QED BY <1>2, SeriesAreTyped, PTL DEF Spec, MonthlyIsFirstOnDay

=============================================================================
