-------------------------- MODULE DailyFileSink_proof --------------------------
(***************************************************************************)
(* Theorems about DailyFileSink, for any length of the day, any hours of   *)
(* rotation and of summer, and any logs, faults and crashes.  The types    *)
(* and NotDatedEarly ask nothing more; OldestGoesFirst asks that no file   *)
(* was dated ahead of the clock before the first start, and NoLogVanishes  *)
(* that no two rotations fall on one day, which the last theorem reduces   *)
(* to the hour of rotation.                                                *)
(***************************************************************************)
EXTENDS DailyFileSink, FiniteSetTheorems, TLAPS

------------------------------------------------------------------------------
(* Whole days.                                                              *)

LEMMA DayNat == DayLength \in Nat /\ DayLength >= 2
BY DailyAssumption

\* A product with the length of a day grows with its factor.
LEMMA DaysGrow ==
  ASSUME NEW k \in Nat, NEW l \in Nat, k < l
  PROVE  /\ k * DayLength \in Nat /\ l * DayLength \in Nat
         /\ k * DayLength + DayLength <= l * DayLength
<1>1. PICK j \in Nat : l = k + 1 + j
  <2>1. l - k - 1 \in Nat /\ l = k + 1 + (l - k - 1)
    OBVIOUS
  <2> QED
    BY <2>1
<1>2. l * DayLength = k * DayLength + DayLength + j * DayLength
  BY <1>1, DayNat
<1>3. k * DayLength \in Nat /\ j * DayLength \in Nat /\ l * DayLength \in Nat
  BY DayNat
<1> QED
  BY <1>2, <1>3, DayNat

LEMMA DivBounds ==
  ASSUME NEW a \in Nat
  PROVE  /\ a \div DayLength \in Nat
         /\ (a \div DayLength) * DayLength \in Nat
         /\ (a \div DayLength) * DayLength <= a
         /\ a < (a \div DayLength) * DayLength + DayLength
BY DayNat

LEMMA DivIs ==
  ASSUME NEW a \in Nat, NEW k \in Nat, k * DayLength <= a, a < k * DayLength + DayLength
  PROVE  a \div DayLength = k
<1> DEFINE q == a \div DayLength
<1>1. /\ q \in Nat /\ q * DayLength \in Nat
      /\ q * DayLength <= a /\ a < q * DayLength + DayLength
  BY DivBounds
<1> HIDE DEF q
<1>2. ASSUME q < k PROVE FALSE
  BY <1>1, <1>2, DaysGrow, DayNat
<1>3. ASSUME k < q PROVE FALSE
  BY <1>1, <1>3, DaysGrow, DayNat
<1>4. q = k
  BY <1>1, <1>2, <1>3
<1> QED
  BY <1>4 DEF q

LEMMA DivMonotone ==
  ASSUME NEW a \in Nat, NEW b \in Nat, a <= b
  PROVE  a \div DayLength <= b \div DayLength
<1> DEFINE q == a \div DayLength
           r == b \div DayLength
<1>1. /\ q \in Nat /\ q * DayLength \in Nat /\ r \in Nat /\ r * DayLength \in Nat
      /\ q * DayLength <= a /\ b < r * DayLength + DayLength
  BY DivBounds
<1> HIDE DEF q, r
<1>2. ASSUME r < q PROVE FALSE
  BY <1>1, <1>2, DaysGrow, DayNat
<1>3. q <= r
  BY <1>1, <1>2
<1> QED
  BY <1>3 DEF q, r

------------------------------------------------------------------------------
(* The times of rotation of one hour, day after day.                        *)

\* Timestamp(k, h) is the k-th; the next is a day later.
LEMMA Rotations ==
  ASSUME NEW h \in 0..DayLength - 1, NEW k \in Nat
  PROVE  /\ Timestamp(k, h) = k * DayLength + h
         /\ Timestamp(k, h) \in Nat
         /\ Timestamp(k + 1, h) = Timestamp(k, h) + DayLength
<1>1. Timestamp(k, h) = k * DayLength + h /\ Timestamp(k + 1, h) = (k + 1) * DayLength + h
  BY DEF Timestamp, StandardTm
<1>2. k * DayLength \in Nat /\ (k + 1) * DayLength = k * DayLength + DayLength
  BY DayNat
<1> QED
  BY <1>1, <1>2, DayNat

LEMMA RotationsApart ==
  ASSUME NEW h \in 0..DayLength - 1, NEW k \in Nat, NEW l \in Nat
  PROVE  /\ k < l => Timestamp(k, h) + DayLength <= Timestamp(l, h)
         /\ Timestamp(k, h) < Timestamp(l, h) => k < l
<1>1. /\ Timestamp(k, h) = k * DayLength + h /\ Timestamp(l, h) = l * DayLength + h
      /\ Timestamp(k, h) \in Nat /\ Timestamp(l, h) \in Nat
  BY Rotations
<1>2. k < l => Timestamp(k, h) + DayLength <= Timestamp(l, h)
  BY <1>1, DaysGrow, DayNat
<1>3. ASSUME ~ (k < l), Timestamp(k, h) < Timestamp(l, h) PROVE FALSE
  <2>1. CASE k = l
    BY <1>1, <1>3, <2>1
  <2>2. CASE l < k
    BY <1>1, <1>3, <2>2, DaysGrow, DayNat
  <2> QED
    BY <1>3, <2>1, <2>2
<1> QED
  BY <1>2, <1>3

LEMMA LocaltimeNat ==
  ASSUME NEW t \in Nat
  PROVE  Localtime(t) \in Nat /\ t <= Localtime(t) /\ Localtime(t) <= t + 1
BY DEF Localtime

\* The day on which a time falls: never before the day of standard time, and at
\* most one after.
LEMMA DayOf ==
  ASSUME NEW t \in Nat
  PROVE  /\ LocalDay(t) = Localtime(t) \div DayLength
         /\ LocalDay(t) \in Nat
         /\ CalcLogFile(t) = LocalDay(t)
         /\ t \div DayLength <= LocalDay(t) /\ LocalDay(t) <= (t + 1) \div DayLength
<1>1. Localtime(t) \in Nat /\ t <= Localtime(t) /\ Localtime(t) <= t + 1
  BY LocaltimeNat
<1>2. LocalDay(t) = Localtime(t) \div DayLength
  BY DEF LocalDay, DateTime
<1> QED
  BY <1>1, <1>2, DivBounds, DivMonotone DEF CalcLogFile

\* Later rotations fall on no earlier day.
LEMMA DaysInOrder ==
  ASSUME NEW s \in Nat, NEW t \in Nat, s + DayLength <= t
  PROVE  LocalDay(s) <= LocalDay(t)
<1>1. Localtime(s) \in Nat /\ Localtime(t) \in Nat /\ Localtime(s) <= Localtime(t)
  BY LocaltimeNat, DayNat
<1> QED
  BY <1>1, DayOf, DivMonotone

\* A rotation before the last hour of the day falls on the day it is set for,
\* summer or not.
LEMMA OwnDay ==
  ASSUME NEW h \in 0..DayLength - 1, NEW k \in Nat, h + 1 < DayLength
  PROVE  CalcLogFile(Timestamp(k, h)) = k
<1> DEFINE t == Timestamp(k, h)
<1>1. t = k * DayLength + h /\ t \in Nat
  BY Rotations
<1>2. k * DayLength \in Nat
  BY DayNat
<1> HIDE DEF t
<1>3. Localtime(t) \in Nat /\ t <= Localtime(t) /\ Localtime(t) <= t + 1
  BY <1>1, LocaltimeNat
<1>4. Localtime(t) \div DayLength = k
  BY <1>1, <1>2, <1>3, DivIs, DayNat
<1>5. CalcLogFile(t) = k
  BY <1>1, <1>4, DayOf
<1> QED
  BY <1>5 DEF t

\* The first day that a rotation can fall on.
LEMMA DayRange ==
  ASSUME NEW h \in 0..DayLength - 1, NEW k \in Nat
  PROVE  k <= LocalDay(Timestamp(k, h)) /\ LocalDay(Timestamp(k, h)) <= k + 1
<1> DEFINE t == Timestamp(k, h)
<1>1. /\ t = k * DayLength + h /\ t \in Nat
      /\ k * DayLength \in Nat /\ (k + 1) * DayLength = k * DayLength + DayLength
  BY Rotations, DayNat
<1> HIDE DEF t
<1>2. t \div DayLength = k
  BY <1>1, DivIs, DayNat
<1>3. ((k + 1) * DayLength) \div DayLength = k + 1
  BY <1>1, DivIs, DayNat
<1>4. (t + 1) \div DayLength <= k + 1
  BY <1>1, <1>3, DivMonotone, DayNat
<1>5. k <= LocalDay(t) /\ LocalDay(t) <= k + 1
  <2>1. (t + 1) \div DayLength \in Nat
    BY <1>1, DivBounds
  <2> QED
    BY <1>1, <1>2, <1>4, <2>1, DayOf
<1> QED
  BY <1>5 DEF t

\* _rotateTime after the constructor: a time of rotation that is not past.
LEMMA FirstRotationIs ==
  ASSUME hour \in 0..DayLength - 1, NEW now \in Nat, FirstHour <= now
  PROVE  \E k \in Nat \ {0} : FirstRotation(now) = Timestamp(k + 1, hour) /\ now <= FirstRotation(now)
<1> DEFINE q == LocalDay(now)
           r == Timestamp(q, hour)
<1>1. /\ q \in Nat /\ q * DayLength \in Nat /\ now < q * DayLength + DayLength
  <2>1. Localtime(now) \in Nat /\ now <= Localtime(now)
    BY LocaltimeNat
  <2>2. q = Localtime(now) \div DayLength
    BY DayOf
  <2>3. /\ q \in Nat /\ q * DayLength \in Nat /\ Localtime(now) < q * DayLength + DayLength
    BY <2>1, <2>2, DivBounds
  <2> HIDE DEF q
  <2> QED
    BY <2>1, <2>3, DayNat
<1>2. 2 <= q
  <2>1. (2 * DayLength) \div DayLength = 2
    BY DivIs, DayNat
  <2>2. 2 * DayLength \in Nat /\ 2 * DayLength <= now
    BY DayNat DEF FirstHour
  <2>3. 2 <= now \div DayLength
    BY <2>1, <2>2, DivMonotone
  <2>4. now \div DayLength \in Nat /\ now \div DayLength <= q
    BY DivBounds, DayOf
  <2> QED
    BY <1>1, <2>3, <2>4
<1>3. FirstRotation(now) = IF r < now THEN r + DayLength ELSE r
  BY DEF FirstRotation
<1> HIDE DEF q
<1>4. /\ r = q * DayLength + hour /\ r \in Nat /\ Timestamp(q + 1, hour) = r + DayLength
  BY <1>1, Rotations
<1> HIDE DEF r
<1>5. CASE r < now
  <2>1. q \in Nat \ {0}
    BY <1>1, <1>2
  <2>2. FirstRotation(now) = Timestamp(q + 1, hour)
    BY <1>3, <1>4, <1>5
  <2>3. now <= FirstRotation(now)
    BY <1>1, <1>3, <1>4, <1>5, DayNat
  <2> QED
    BY <2>1, <2>2, <2>3
<1>6. CASE ~ (r < now)
  <2>1. q - 1 \in Nat \ {0} /\ (q - 1) + 1 = q
    BY <1>1, <1>2
  <2>2. FirstRotation(now) = Timestamp((q - 1) + 1, hour)
    BY <1>3, <1>6, <2>1 DEF r
  <2>3. now <= FirstRotation(now)
    BY <1>3, <1>4, <1>6
  <2> QED
    BY <2>1, <2>2, <2>3
<1> QED
  BY <1>5, <1>6

\* The loop of log_it: a later time of rotation, not before the log.
LEMMA NextRotationIs ==
  ASSUME hour \in 0..DayLength - 1, NEW k \in Nat, rotateTime = Timestamp(k + 1, hour),
         NEW t \in Nat, rotateTime < t
  PROVE  \E l \in Nat : k < l /\ NextRotation(t) = Timestamp(l + 1, hour) /\ t <= NextRotation(t)
<1> DEFINE x == t - rotateTime
           m == (x + DayLength - 1) \div DayLength
<1>1. /\ rotateTime = (k + 1) * DayLength + hour /\ rotateTime \in Nat
  BY Rotations
<1>2. x \in Nat /\ 1 <= x /\ t = rotateTime + x
  BY <1>1
<1>3. NextRotation(t) = rotateTime + DayLength * m
  BY DEF NextRotation
<1> HIDE DEF x
<1>4. x + DayLength - 1 \in Nat /\ DayLength <= x + DayLength - 1
  BY <1>2, DayNat
<1>5. m \in Nat /\ m * DayLength \in Nat /\ x + DayLength - 1 < m * DayLength + DayLength
  BY <1>4, DivBounds
<1>6. 1 <= m
  <2>1. DayLength \div DayLength = 1
    BY DivIs, DayNat
  <2> QED
    BY <1>4, <2>1, DivMonotone, DayNat
<1> HIDE DEF m
<1>7. x <= m * DayLength
  BY <1>2, <1>5, DayNat
<1> DEFINE l == k + m
<1>8. l \in Nat /\ k < l
  BY <1>5, <1>6
<1>9. Timestamp(l + 1, hour) = rotateTime + DayLength * m
  <2>1. Timestamp(l + 1, hour) = (l + 1) * DayLength + hour
    BY <1>8, Rotations
  <2>2. (l + 1) * DayLength = (k + 1) * DayLength + m * DayLength
    BY <1>5, DayNat
  <2>3. m * DayLength = DayLength * m /\ (k + 1) * DayLength \in Nat
    BY <1>5, DayNat
  <2> QED
    BY <1>1, <1>5, <2>1, <2>2, <2>3
<1>10. t <= NextRotation(t)
  <2>1. m * DayLength = DayLength * m
    BY <1>5, DayNat
  <2> QED
    BY <1>1, <1>2, <1>3, <1>5, <1>7, <2>1
<1> QED
  BY <1>3, <1>8, <1>9, <1>10

------------------------------------------------------------------------------
(* The listing of the directory by InitFileQueue.                           *)

Older(S, d) == {e \in S : e < d}
Sorted(S) == [i \in 1..Cardinality(S) |-> CHOOSE d \in S : Cardinality(Older(S, d)) = i - 1]

\* Of two members of a finite set of numbers the greater has more before it.
LEMMA Ranks ==
  ASSUME NEW S \in SUBSET Nat, IsFiniteSet(S)
  PROVE  /\ Cardinality(S) \in Nat
         /\ \A d \in S : Cardinality(Older(S, d)) \in Nat /\ Cardinality(Older(S, d)) < Cardinality(S)
         /\ \A d, e \in S : d < e => Cardinality(Older(S, d)) < Cardinality(Older(S, e))
<1>1. Cardinality(S) \in Nat
  BY FS_CardinalityType
<1>2. /\ \A d : Older(S, d) \in SUBSET S
      /\ \A d \in S : d \notin Older(S, d)
  <2>1. \A d \in S : ~ (d < d)
    OBVIOUS
  <2> QED
    BY <2>1 DEF Older
<1>3. \A d : IsFiniteSet(Older(S, d)) /\ Cardinality(Older(S, d)) \in Nat
  BY <1>2, FS_Subset, FS_CardinalityType
<1>4. ASSUME NEW d \in S PROVE Cardinality(Older(S, d)) < Cardinality(S)
  <2>1. Cardinality(Older(S, d)) <= Cardinality(S) /\ Cardinality(Older(S, d)) # Cardinality(S)
    BY <1>2, <1>4, FS_Subset
  <2> QED
    BY <1>1, <1>3, <2>1
<1>5. ASSUME NEW d \in S, NEW e \in S, d < e
      PROVE  Cardinality(Older(S, d)) < Cardinality(Older(S, e))
  <2>1. Older(S, d) \in SUBSET Older(S, e) /\ d \in Older(S, e) /\ d \notin Older(S, d)
    <3>1. \A c \in S : c < d => c < e
      BY <1>5
    <3> QED
      BY <1>2, <1>5, <3>1 DEF Older
  <2>2. /\ Cardinality(Older(S, d)) <= Cardinality(Older(S, e))
        /\ Cardinality(Older(S, d)) # Cardinality(Older(S, e))
    BY <1>3, <2>1, FS_Subset
  <2> QED
    BY <1>3, <2>2
<1> QED
  BY <1>1, <1>3, <1>4, <1>5

\* So each is in the list, at its rank, and the list ascends.
LEMMA SortedSorts ==
  ASSUME NEW S \in SUBSET Nat, IsFiniteSet(S)
  PROVE  /\ Sorted(S) \in Seq(S)
         /\ \A i, j \in DOMAIN Sorted(S) : i < j => Sorted(S)[i] < Sorted(S)[j]
         /\ \A d \in S : \E i \in DOMAIN Sorted(S) : Sorted(S)[i] = d
<1> DEFINE n == Cardinality(S)
           f == [d \in S |-> Cardinality(Older(S, d)) + 1]
<1>1. n \in Nat
  BY Ranks
<1>2. \A d \in S : f[d] \in 1..n
  BY Ranks
<1>3. \A d, e \in S : d < e => f[d] < f[e]
  BY Ranks
<1>4. \A d \in S : f[d] = Cardinality(Older(S, d)) + 1 /\ Cardinality(Older(S, d)) \in Nat
  BY Ranks
<1>5. f \in [S -> 1..n]
  BY <1>2
<1>6. n = Cardinality(S)
  OBVIOUS
<1>7. Sorted(S) = [i \in 1..n |-> CHOOSE d \in S : Cardinality(Older(S, d)) = i - 1]
  BY DEF Sorted
<1> HIDE DEF f, n
<1>8. \A d, e \in S : f[d] = f[e] => d = e
  <2> SUFFICES ASSUME NEW d \in S, NEW e \in S, f[d] = f[e] PROVE d = e
    OBVIOUS
  <2>1. d \in Nat /\ e \in Nat /\ f[d] \in Nat /\ f[e] \in Nat
    BY <1>2
  <2>2. ~ (f[d] < f[e]) /\ ~ (f[e] < f[d])
    BY <2>1
  <2>3. ~ (d < e) /\ ~ (e < d)
    BY <1>3, <2>2
  <2> QED
    BY <2>1, <2>3
<1>9. f \in Injection(S, 1..n)
  BY <1>5, <1>8 DEF Injection, IsInjective
<1>10. IsFiniteSet(1..n) /\ Cardinality(1..n) = n
  <2>1. IsFiniteSet(1..n) /\ Cardinality(1..n) = IF 1 > n THEN 0 ELSE n - 1 + 1
    BY <1>1, FS_Interval
  <2> QED
    BY <1>1, <2>1
<1>11. f \in Surjection(S, 1..n)
  BY <1>6, <1>9, <1>10, FS_Injection
<1>12. \A i \in 1..n : \E d \in S : Cardinality(Older(S, d)) = i - 1
  <2> SUFFICES ASSUME NEW i \in 1..n PROVE \E d \in S : Cardinality(Older(S, d)) = i - 1
    OBVIOUS
  <2>1. PICK d \in S : f[d] = i
    BY <1>11 DEF Surjection
  <2>2. Cardinality(Older(S, d)) = i - 1
    BY <1>4, <2>1
  <2> QED
    BY <2>2
<1>13. \A i \in 1..n : Sorted(S)[i] \in S /\ f[Sorted(S)[i]] = i
  <2> SUFFICES ASSUME NEW i \in 1..n PROVE Sorted(S)[i] \in S /\ f[Sorted(S)[i]] = i
    OBVIOUS
  <2>1. Sorted(S)[i] = CHOOSE d \in S : Cardinality(Older(S, d)) = i - 1
    BY <1>7
  <2>2. Sorted(S)[i] \in S /\ Cardinality(Older(S, Sorted(S)[i])) = i - 1
    BY <1>12, <2>1
  <2>3. f[Sorted(S)[i]] = (i - 1) + 1
    BY <1>4, <2>2
  <2> QED
    BY <2>2, <2>3
<1>14. Sorted(S) \in Seq(S) /\ DOMAIN Sorted(S) = 1..n
  <2>1. Sorted(S) = [i \in 1..n |-> Sorted(S)[i]]
    BY <1>7
  <2>2. Sorted(S) \in [1..n -> S]
    BY <1>13, <2>1
  <2> QED
    BY <1>1, <2>2
<1>15. \A d \in S : Sorted(S)[f[d]] = d
  BY <1>2, <1>8, <1>13
<1>16. ASSUME NEW i \in 1..n, NEW j \in 1..n, i < j PROVE Sorted(S)[i] < Sorted(S)[j]
  <2>1. Sorted(S)[i] \in S /\ Sorted(S)[j] \in S /\ f[Sorted(S)[i]] = i /\ f[Sorted(S)[j]] = j
    BY <1>13
  <2>2. ~ (Sorted(S)[j] < Sorted(S)[i])
    <3>1. Sorted(S)[j] < Sorted(S)[i] => j < i
      BY <1>3, <2>1
    <3> QED
      BY <1>16, <3>1
  <2>3. Sorted(S)[i] # Sorted(S)[j]
    BY <1>16, <2>1
  <2>4. Sorted(S)[i] \in Nat /\ Sorted(S)[j] \in Nat
    BY <2>1
  <2> QED
    BY <2>2, <2>3, <2>4
<1> QED
  BY <1>2, <1>14, <1>15, <1>16

------------------------------------------------------------------------------
(* The inductive invariant.                                                 *)

InRotation == pc \in {"rename", "truncate", "append", "delete"}

\* The stream is open only when the file is there, and closed while it is renamed.
StreamInv ==
    /\ isOpen => file # NoFile /\ pc \in {"idle", "delete"}
    /\ pc = "truncate" => file = NoFile

\* _rotateTime is a time of rotation, and _fileTime the one before.
TimesInv ==
    pc # "down" =>
        \E k \in Nat \ {0} : rotateTime = Timestamp(k + 1, hour) /\ fileTime = Timestamp(k, hour)

\* A log waits in a rotation only, for which it came late enough; no log is from
\* the future, and the file has none that is due in the next.
StampsInv ==
    /\ \A log \in inbox : log.timestamp <= clock
    /\ pending # NoLog <=> InRotation
    /\ InRotation => rotateTime < pending.timestamp /\ pending.timestamp <= clock
    /\ file # NoFile => \A i \in DOMAIN file :
           file[i].timestamp <= clock /\ (pc # "down" => file[i].timestamp <= rotateTime)
    /\ pc \in {"rename", "truncate"} => target = CalcLogFile(fileTime)

Base == TypeOK /\ StreamInv /\ TimesInv /\ StampsInv

LEMMA HourRange == Hours \subseteq 0..DayLength - 1
BY DailyAssumption

LEMMA LogFields == \A log \in Log : /\ log.n \in 1..MaxLogs
                                    /\ log.timestamp \in Nat /\ log.timestamp <= LastHour
BY DayNat, DailyAssumption DEF Log, FirstHour

\* A log that is due in the next rotation moves both times on.
LEMMA AdvanceTimes ==
  ASSUME Base, pc # "down", NEW log \in Log, rotateTime < log.timestamp, Advance(log), hour' = hour
  PROVE  /\ \E k \in Nat \ {0} : rotateTime' = Timestamp(k + 1, hour') /\ fileTime' = Timestamp(k, hour')
         /\ rotateTime' \in Nat /\ fileTime' \in Nat
         /\ log.timestamp <= rotateTime' /\ rotateTime < rotateTime'
         /\ fileTime + DayLength <= fileTime'
<1>1. hour \in 0..DayLength - 1 /\ log.timestamp \in Nat
  BY HourRange, LogFields DEF Base, TypeOK
<1>2. PICK k \in Nat \ {0} : rotateTime = Timestamp(k + 1, hour) /\ fileTime = Timestamp(k, hour)
  BY DEF Base, TimesInv
<1>3. PICK l \in Nat : k < l /\ NextRotation(log.timestamp) = Timestamp(l + 1, hour)
                             /\ log.timestamp <= NextRotation(log.timestamp)
  BY <1>1, <1>2, NextRotationIs
<1>4. rotateTime' = Timestamp(l + 1, hour) /\ fileTime' = rotateTime' - DayLength
  BY <1>3 DEF Advance
<1>5. /\ Timestamp(l, hour) \in Nat /\ Timestamp(l + 1, hour) = Timestamp(l, hour) + DayLength
      /\ Timestamp(k, hour) \in Nat /\ Timestamp(k + 1, hour) = Timestamp(k, hour) + DayLength
      /\ Timestamp(k, hour) + DayLength <= Timestamp(l, hour)
  BY <1>1, <1>3, Rotations, RotationsApart
<1>6. fileTime' = Timestamp(l, hour)
  BY <1>4, <1>5, DayNat
<1>7. l \in Nat \ {0}
  BY <1>3
<1>8. rotateTime' \in Nat /\ fileTime' \in Nat /\ rotateTime < rotateTime'
      /\ fileTime + DayLength <= fileTime'
  BY <1>2, <1>4, <1>5, <1>6, DayNat
<1> QED
  BY <1>3, <1>4, <1>6, <1>7, <1>8

\* The times that a start sets.
LEMMA StartTimes ==
  ASSUME Base, NEW first, first = FirstRotation(clock)
  PROVE  \E k \in Nat \ {0} : /\ first = Timestamp(k + 1, hour) /\ first - DayLength = Timestamp(k, hour)
                              /\ first \in Nat /\ first - DayLength \in Nat
                              /\ clock <= first
<1>1. hour \in 0..DayLength - 1 /\ clock \in Nat /\ FirstHour <= clock
  BY HourRange, DayNat, DailyAssumption DEF Base, TypeOK, FirstHour
<1>2. PICK k \in Nat \ {0} : first = Timestamp(k + 1, hour) /\ clock <= first
  BY <1>1, FirstRotationIs
<1>3. /\ Timestamp(k, hour) \in Nat /\ Timestamp(k + 1, hour) = Timestamp(k, hour) + DayLength
  BY <1>1, Rotations
<1> QED
  BY <1>2, <1>3, DayNat

\* The day of a rotation that a log makes due is a day of the model.
LEMMA TargetDay ==
  ASSUME Base, pc # "down", NEW log \in Log, rotateTime < log.timestamp
  PROVE  CalcLogFile(fileTime) \in Day
<1>1. PICK k \in Nat \ {0} : rotateTime = Timestamp(k + 1, hour) /\ fileTime = Timestamp(k, hour)
  BY DEF Base, TimesInv
<1>2. hour \in 0..DayLength - 1 /\ log.timestamp \in Nat /\ log.timestamp <= LastHour
  BY HourRange, LogFields DEF Base, TypeOK
<1>3. fileTime \in Nat /\ rotateTime = fileTime + DayLength
  BY <1>1, <1>2, Rotations
<1>4. fileTime + 1 \in Nat /\ fileTime + 1 <= LastHour /\ LastHour \in Nat
  BY <1>2, <1>3, DayNat, DailyAssumption
<1>5. (fileTime + 1) \div DayLength <= LastHour \div DayLength
  BY <1>4, DivMonotone
<1>6. (fileTime + 1) \div DayLength \in Nat /\ LastHour \div DayLength \in Nat
  BY <1>4, DivBounds
<1>7. CalcLogFile(fileTime) \in Nat /\ CalcLogFile(fileTime) <= (fileTime + 1) \div DayLength
  BY <1>3, DayOf
<1> QED
  BY <1>5, <1>6, <1>7 DEF Day

LEMMA InitBase == Init => Base
<1> SUFFICES ASSUME Init PROVE Base
  OBVIOUS
<1>1. dated \in [Day -> Seq(Log) \cup {NoFile}]
  <2>1. <<>> \in Seq(Log)
    OBVIOUS
  <2> QED
    BY <2>1 DEF Init
<1>2. 0 \in Day
  <2>1. LastHour \div DayLength \in Nat
    BY DailyAssumption, DivBounds
  <2> QED
    BY <2>1 DEF Day
<1>3. FirstHour \in FirstHour..LastHour
  BY DayNat, DailyAssumption DEF FirstHour
<1>4. 0 \in 0..MaxLogs /\ 0 \in 0..MaxFaults /\ 0 \in 0..MaxCrashes /\ <<>> \in Seq(Day)
  BY DailyAssumption
<1>5. TypeOK
  BY <1>1, <1>2, <1>3, <1>4 DEF Init, TypeOK
<1>6. StreamInv /\ TimesInv /\ StampsInv
  BY DEF Init, StreamInv, TimesInv, StampsInv, InRotation
<1> QED
  BY <1>5, <1>6 DEF Base

\* Write appends to a stream that is open, and drops what comes to one that is not.
LEMMA WriteDoes ==
  ASSUME TypeOK, StreamInv, NEW log \in Log, Write(log)
  PROVE  /\ file' \in Seq(Log) \cup {NoFile} /\ lost' \subseteq 1..MaxLogs
         /\ isOpen => file' # NoFile
         /\ file' # NoFile => file # NoFile
         /\ file' # NoFile => \A i \in DOMAIN file' : file'[i] = log \/ (i \in DOMAIN file /\ file'[i] = file[i])
         /\ Numbers(file') \cup lost' = Numbers(file) \cup lost \cup {log.n}
<1>1. NoFile \notin Seq(Log) /\ log.n \in 1..MaxLogs
  BY LogFields, DailyAssumption
<1>2. CASE isOpen
  <2>1. file \in Seq(Log) /\ file # NoFile /\ file' = Append(file, log) /\ lost' = lost
    BY <1>2 DEF Write, TypeOK, StreamInv
  <2>2. file' \in Seq(Log) /\ DOMAIN file' = 1..Len(file) + 1 /\ DOMAIN file = 1..Len(file) /\ Len(file) \in Nat
    BY <2>1
  <2>3. \A i \in DOMAIN file' : file'[i] = IF i \in DOMAIN file THEN file[i] ELSE log
    BY <2>1, <2>2
  <2>4. Numbers(file') = Numbers(file) \cup {log.n}
    <3>1. Numbers(file) = {file[i].n : i \in DOMAIN file} /\ Numbers(file') = {file'[i].n : i \in DOMAIN file'}
      BY <1>1, <2>1, <2>2 DEF Numbers
    <3>2. Len(file) + 1 \in DOMAIN file' /\ file'[Len(file) + 1] = log
      BY <2>2, <2>3
    <3>3. DOMAIN file \subseteq DOMAIN file'
      BY <2>2
    <3> QED
      BY <2>3, <3>1, <3>2, <3>3
  <2> QED
    BY <1>1, <2>1, <2>2, <2>3, <2>4 DEF TypeOK
<1>3. CASE ~ isOpen
  <2>1. file' = file /\ lost' = lost \cup {log.n}
    BY <1>3 DEF Write
  <2> QED
    BY <1>1, <1>3, <2>1 DEF TypeOK
<1> QED
  BY <1>2, <1>3

\* A step that leaves the sink alone, but for what its parts do not speak of.
LEMMA TickBase == ASSUME Base, Tick PROVE Base'
<1>1. clock \in Nat /\ FirstHour \in Nat /\ LastHour \in Nat
  BY DayNat, DailyAssumption DEF Base, TypeOK, FirstHour
<1>2. clock' \in FirstHour..LastHour /\ clock <= clock'
  BY <1>1 DEF Tick, Base, TypeOK
<1>3. \A log \in Log : log.timestamp \in Nat
  BY LogFields
<1>4. TypeOK'
  BY <1>2 DEF Base, TypeOK, Tick, times, disk, control, history
<1>5. StreamInv' /\ TimesInv'
  BY DEF Base, StreamInv, TimesInv, Tick, times, disk, control
<1>6. StampsInv'
  <2>1. UNCHANGED <<times, disk, control, inbox>> /\ clock' \in Nat
    BY <1>1 DEF Tick
  <2>2. \A log \in inbox : log.timestamp <= clock'
    BY <1>1, <1>2, <1>3, <2>1 DEF Base, TypeOK, StampsInv
  <2>3. InRotation => pending \in Log
    BY DEF Base, TypeOK, StampsInv
  <2>4. InRotation => pending.timestamp <= clock'
    BY <1>1, <1>2, <1>3, <2>1, <2>3 DEF Base, StampsInv
  <2>5. file # NoFile => \A i \in DOMAIN file : file[i].timestamp <= clock'
    <3> SUFFICES ASSUME file # NoFile, NEW i \in DOMAIN file PROVE file[i].timestamp <= clock'
      OBVIOUS
    <3>1. file[i] \in Log
      BY DEF Base, TypeOK
    <3>2. file[i].timestamp <= clock
      BY DEF Base, StampsInv
    <3> QED
      BY <1>1, <1>2, <1>3, <2>1, <3>1, <3>2
  <2> QED
    BY <2>1, <2>2, <2>4, <2>5 DEF Base, StampsInv, InRotation, times, disk, control
<1> QED
  BY <1>4, <1>5, <1>6 DEF Base

LEMMA StampBase == ASSUME Base, Stamp PROVE Base'
<1> DEFINE log == [n |-> count + 1, timestamp |-> clock]
<1>1. /\ clock \in FirstHour..LastHour /\ clock \in Nat
      /\ count + 1 \in 1..MaxLogs /\ count + 1 \in 0..MaxLogs
  <2>1. FirstHour \in Nat /\ LastHour \in Nat /\ MaxLogs \in Nat
    BY DayNat, DailyAssumption DEF FirstHour
  <2> QED
    BY <2>1 DEF Base, TypeOK, Stamp
<1>2. log \in Log
  BY <1>1 DEF Log
<1>3. log.timestamp <= clock
  BY <1>1
<1>4. inbox' = inbox \cup {log} /\ count' = count + 1
  BY DEF Stamp
<1> HIDE DEF log
<1>5. TypeOK'
  BY <1>1, <1>2, <1>4 DEF Base, TypeOK, Stamp, times, disk, control
<1>6. StreamInv' /\ TimesInv'
  BY DEF Base, StreamInv, TimesInv, Stamp, times, disk, control
<1>7. StampsInv'
  BY <1>3, <1>4 DEF Base, StampsInv, InRotation, Stamp, times, disk, control
<1> QED
  BY <1>5, <1>6, <1>7 DEF Base

------------------------------------------------------------------------------
(* The steps of the sink keep the invariant.                                *)

LEMMA InRange ==
  /\ FirstHour \in Nat /\ LastHour \in Nat /\ NoFile \notin Seq(Log) /\ NoLog \notin Log
  /\ <<>> \in Seq(Log) /\ NoFile # <<>>
<1>1. <<>> \in Seq(Log)
  OBVIOUS
<1>2. FirstHour \in Nat /\ LastHour \in Nat
  BY DayNat, DailyAssumption DEF FirstHour
<1>3. NoFile \notin Seq(Log) /\ NoLog \notin Log
  BY DailyAssumption
<1> QED
  BY <1>1, <1>2, <1>3

LEMMA NumbersIn == \A logs \in Seq(Log) \cup {NoFile} : Numbers(logs) \subseteq 1..MaxLogs
<1> SUFFICES ASSUME NEW logs \in Seq(Log) \cup {NoFile} PROVE Numbers(logs) \subseteq 1..MaxLogs
  OBVIOUS
<1>1. CASE logs = NoFile
  BY <1>1 DEF Numbers
<1>2. CASE logs \in Seq(Log)
  <2>1. \A i \in DOMAIN logs : logs[i].n \in 1..MaxLogs
    BY <1>2, LogFields
  <2> QED
    BY <1>2, <2>1, InRange DEF Numbers
<1> QED
  BY <1>1, <1>2

\* A log that is due: the file is closed for its rotation.
BeginRotation(log) ==
    /\ pc = "idle" /\ log \in inbox /\ inbox' = inbox \ {log}
    /\ rotateTime < log.timestamp /\ file # NoFile /\ file # <<>>
    /\ target' = CalcLogFile(fileTime)
    /\ isOpen' = FALSE /\ synced' = Len(file)
    /\ pc' = "rename" /\ pending' = log
    /\ UNCHANGED <<file, lost, times>>
    /\ UNCHANGED <<clock, hour, dated, fileQue, maxFiles, count, retired, undeleted, faults, crashes>>

\* Any other log is written at once; if it is due, the times move on before it.
WriteAtOnce(log) ==
    /\ pc = "idle" /\ log \in inbox /\ inbox' = inbox \ {log}
    /\ (rotateTime < log.timestamp /\ IsEmpty /\ Advance(log)) \/ (~ (rotateTime < log.timestamp) /\ UNCHANGED times)
    /\ Write(log)
    /\ UNCHANGED <<synced, isOpen, control>>
    /\ UNCHANGED <<clock, hour, dated, fileQue, maxFiles, count, retired, undeleted, faults, crashes>>

LEMMA LogItCases ==
  ASSUME TypeOK, NEW log, LogIt(log)
  PROVE  BeginRotation(log) \/ WriteAtOnce(log)
<1>1. log \in Log /\ log.timestamp \in Nat /\ rotateTime \in Nat
  BY LogFields DEF LogIt, TypeOK
<1>2. log.timestamp > rotateTime <=> rotateTime < log.timestamp
  BY <1>1
<1>3. CASE rotateTime < log.timestamp /\ ~ IsEmpty
  BY <1>2, <1>3 DEF LogIt, BeginRotation, IsEmpty, Close
<1>4. CASE ~ (rotateTime < log.timestamp /\ ~ IsEmpty)
  <2>1. /\ pc = "idle" /\ log \in inbox /\ inbox' = inbox \ {log}
        /\ Write(log) /\ UNCHANGED <<synced, isOpen, control>>
        /\ UNCHANGED <<clock, hour, dated, fileQue, maxFiles, count, retired, undeleted, faults, crashes>>
        /\ IF rotateTime < log.timestamp THEN Advance(log) ELSE UNCHANGED times
    BY <1>2, <1>4 DEF LogIt
  <2> QED
    BY <1>4, <2>1 DEF WriteAtOnce
<1> QED
  BY <1>3, <1>4

LEMMA BeginBase == ASSUME Base, NEW log, BeginRotation(log) PROVE Base'
<1>1. log \in Log /\ file \in Seq(Log) /\ log.timestamp <= clock
  BY DEF BeginRotation, Base, TypeOK, StampsInv
<1>2. CalcLogFile(fileTime) \in Day
  BY <1>1, TargetDay DEF BeginRotation
<1>3. Len(file) \in Nat
  BY <1>1
<1>4. TypeOK'
  BY <1>1, <1>2, <1>3 DEF BeginRotation, Base, TypeOK, times
<1>5. StreamInv' /\ TimesInv'
  BY DEF BeginRotation, Base, StreamInv, TimesInv, times
<1>6. StampsInv'
  BY <1>1, InRange DEF BeginRotation, Base, StampsInv, InRotation, times
<1> QED
  BY <1>4, <1>5, <1>6 DEF Base

\* What is written in either way of a log is no later than the new time of rotation.
LEMMA WriteStamps ==
  ASSUME Base, pc \in {"idle", "delete"}, NEW log \in Log, Write(log),
         rotateTime' \in Nat, rotateTime <= rotateTime', log.timestamp <= rotateTime',
         log.timestamp <= clock
  PROVE  file' # NoFile => \A i \in DOMAIN file' :
             file'[i].timestamp <= clock /\ file'[i].timestamp <= rotateTime'
<1> SUFFICES ASSUME file' # NoFile, NEW i \in DOMAIN file'
             PROVE  file'[i].timestamp <= clock /\ file'[i].timestamp <= rotateTime'
  OBVIOUS
<1>1. file # NoFile /\ (file'[i] = log \/ (i \in DOMAIN file /\ file'[i] = file[i]))
  BY WriteDoes DEF Base
<1>2. CASE file'[i] = log
  BY <1>2
<1>3. CASE i \in DOMAIN file /\ file'[i] = file[i]
  <2>1. file[i] \in Log
    BY <1>1, <1>3 DEF Base, TypeOK
  <2>2. file[i].timestamp <= clock /\ file[i].timestamp <= rotateTime
    BY <1>1, <1>3 DEF Base, StampsInv
  <2>3. file[i].timestamp \in Nat /\ rotateTime \in Nat
    BY <2>1, LogFields DEF Base, TypeOK
  <2> QED
    BY <1>3, <2>2, <2>3
<1> QED
  BY <1>1, <1>2, <1>3

LEMMA WriteBase == ASSUME Base, NEW log, WriteAtOnce(log) PROVE Base'
<1>1. log \in Log /\ log.timestamp <= clock /\ log.timestamp \in Nat /\ rotateTime \in Nat
  BY LogFields DEF WriteAtOnce, Base, TypeOK, StampsInv
<1>2. /\ rotateTime' \in Nat /\ fileTime' \in Nat
      /\ rotateTime <= rotateTime' /\ log.timestamp <= rotateTime'
      /\ \E k \in Nat \ {0} : rotateTime' = Timestamp(k + 1, hour') /\ fileTime' = Timestamp(k, hour')
  <2>1. pc = "idle" /\ hour' = hour
    BY DEF WriteAtOnce
  <2>2. CASE rotateTime < log.timestamp /\ Advance(log)
    BY <1>1, <2>1, <2>2, AdvanceTimes
  <2>3. CASE ~ (rotateTime < log.timestamp) /\ UNCHANGED times
    <3>1. rotateTime' = rotateTime /\ fileTime' = fileTime
      BY <2>3 DEF times
    <3>2. log.timestamp <= rotateTime
      BY <1>1, <2>3
    <3> QED
      BY <1>1, <2>1, <3>1, <3>2 DEF Base, TypeOK, TimesInv
  <2> QED
    BY <2>2, <2>3 DEF WriteAtOnce
<1>3. /\ file' \in Seq(Log) \cup {NoFile} /\ lost' \subseteq 1..MaxLogs
      /\ isOpen => file' # NoFile
  BY <1>1, WriteDoes DEF WriteAtOnce, Base
<1>4. TypeOK'
  BY <1>2, <1>3 DEF WriteAtOnce, Base, TypeOK, control
<1>5. StreamInv' /\ TimesInv'
  BY <1>2, <1>3 DEF WriteAtOnce, Base, StreamInv, TimesInv, control
<1>6. StampsInv'
  <2>1. file' # NoFile => \A i \in DOMAIN file' :
            file'[i].timestamp <= clock /\ file'[i].timestamp <= rotateTime'
    BY <1>1, <1>2, WriteStamps DEF WriteAtOnce
  <2> QED
    BY <2>1 DEF WriteAtOnce, Base, StampsInv, InRotation, control
<1> QED
  BY <1>4, <1>5, <1>6 DEF Base

LEMMA RenameBase == ASSUME Base, Rename PROVE Base'
<1>1. UNCHANGED <<clock, hour, times, isOpen, fileQue, maxFiles, target, pending, inbox, count, lost, crashes>>
  BY DEF Rename
<1>2. CASE /\ file # NoFile /\ dated' = [dated EXCEPT ![target] = file]
           /\ file' = NoFile /\ synced' = 0
           /\ retired' = IF target \in undeleted THEN retired \cup Numbers(dated[target]) ELSE retired
           /\ undeleted' = undeleted \ {target}
           /\ pc' = "truncate" /\ UNCHANGED faults
  <2>1. Numbers(dated[target]) \subseteq 1..MaxLogs
    BY NumbersIn DEF Base, TypeOK
  <2>2. TypeOK'
    BY <1>1, <1>2, <2>1 DEF Base, TypeOK, times
  <2>3. StreamInv' /\ TimesInv' /\ StampsInv'
    BY <1>1, <1>2 DEF Rename, Base, StreamInv, TimesInv, StampsInv, InRotation, times
  <2> QED
    BY <2>2, <2>3 DEF Base
<1>3. CASE Fault("rename") /\ pc' = "append" /\ UNCHANGED <<disk, retired, undeleted>>
  <2>1. faults' \in 0..MaxFaults
    BY <1>3, DailyAssumption DEF Fault, Base, TypeOK
  <2>2. TypeOK'
    BY <1>1, <1>3, <2>1 DEF Base, TypeOK, times, disk
  <2>3. StreamInv' /\ TimesInv' /\ StampsInv'
    BY <1>1, <1>3 DEF Rename, Base, StreamInv, TimesInv, StampsInv, InRotation, times, disk
  <2> QED
    BY <2>2, <2>3 DEF Base
<1> QED
  BY <1>2, <1>3 DEF Rename

LEMMA ReopenBase == ASSUME Base, Reopen PROVE Base'
<1>1. /\ pc \in {"truncate", "append"} /\ pc' = "delete"
      /\ fileQue' = IF pc = "truncate" THEN Append(fileQue, target) ELSE fileQue
      /\ UNCHANGED <<clock, hour, times, dated, maxFiles, target, pending, inbox, history, crashes>>
  BY DEF Reopen
<1>2. fileQue' \in Seq(Day)
  BY <1>1 DEF Base, TypeOK
<1>3. CASE /\ isOpen' = TRUE
           /\ file' = IF pc = "truncate" \/ file = NoFile THEN <<>> ELSE file
           /\ synced' = Len(file')
           /\ UNCHANGED faults
  <2>1. file' \in Seq(Log)
    BY <1>3, InRange DEF Base, TypeOK
  <2>2. synced' \in Nat /\ file' # NoFile
    BY <1>3, <2>1, InRange
  <2>3. file' # file => file' = <<>>
    BY <1>3
  <2>4. TypeOK'
    BY <1>1, <1>2, <1>3, <2>1, <2>2 DEF Base, TypeOK, times, history
  <2>5. StreamInv' /\ TimesInv'
    BY <1>1, <1>3, <2>2 DEF Base, StreamInv, TimesInv, times
  <2>6. StampsInv'
    <3>1. \A i \in DOMAIN file' : file' = file /\ file # NoFile
      BY <2>2, <2>3
    <3> QED
      BY <1>1, <3>1 DEF Base, StampsInv, InRotation, times
  <2> QED
    BY <2>4, <2>5, <2>6 DEF Base
<1>4. CASE Fault("open") /\ UNCHANGED <<isOpen, file, synced>>
  <2>1. faults' \in 0..MaxFaults
    BY <1>4, DailyAssumption DEF Fault, Base, TypeOK
  <2>2. TypeOK'
    BY <1>1, <1>2, <1>4, <2>1 DEF Base, TypeOK, times, history
  <2>3. StreamInv' /\ TimesInv' /\ StampsInv'
    BY <1>1, <1>4 DEF Base, StreamInv, TimesInv, StampsInv, InRotation, times
  <2> QED
    BY <2>2, <2>3 DEF Base
<1> QED
  BY <1>3, <1>4 DEF Reopen

LEMMA DeleteBase == ASSUME Base, DeleteOldest PROVE Base'
<1>1. /\ pc = "delete" /\ fileQue # <<>> /\ fileQue' = Tail(fileQue)
      /\ retired' = retired \cup Numbers(dated[Head(fileQue)])
      /\ UNCHANGED <<clock, hour, times, file, synced, isOpen, maxFiles, control, inbox, count, lost, crashes>>
  <2>1. Len(fileQue) \in Nat /\ maxFiles \in Nat /\ Len(fileQue) > maxFiles
    BY DailyAssumption DEF DeleteOldest, Base, TypeOK
  <2>2. fileQue # <<>>
    BY <2>1
  <2> QED
    BY <2>2 DEF DeleteOldest
<1>2. Head(fileQue) \in Day /\ fileQue' \in Seq(Day)
  BY <1>1 DEF Base, TypeOK
<1>3. retired' \subseteq 1..MaxLogs
  BY <1>1, <1>2, NumbersIn DEF Base, TypeOK
<1>4. /\ dated' \in [Day -> Seq(Log) \cup {NoFile}]
      /\ undeleted' \subseteq Day /\ faults' \in 0..MaxFaults
  <2>1. CASE dated' = [dated EXCEPT ![Head(fileQue)] = NoFile] /\ UNCHANGED <<undeleted, faults>>
    BY <1>2, <2>1 DEF Base, TypeOK
  <2>2. CASE /\ Fault("delete") /\ undeleted' = undeleted \cup {Head(fileQue)}
             /\ UNCHANGED dated
    <3>1. faults' \in 0..MaxFaults
      BY <2>2, DailyAssumption DEF Fault, Base, TypeOK
    <3> QED
      BY <1>2, <2>2, <3>1 DEF Base, TypeOK
  <2> QED
    BY <2>1, <2>2 DEF DeleteOldest
<1>5. TypeOK'
  BY <1>1, <1>2, <1>3, <1>4 DEF Base, TypeOK, times, control
<1>6. StreamInv' /\ TimesInv' /\ StampsInv'
  BY <1>1 DEF Base, StreamInv, TimesInv, StampsInv, InRotation, times, control
<1> QED
  BY <1>5, <1>6 DEF Base

LEMMA EndBase == ASSUME Base, EndRotation PROVE Base'
<1>1. /\ pc = "delete" /\ Advance(pending) /\ Write(pending) /\ pc' = "idle" /\ pending' = NoLog
      /\ UNCHANGED <<clock, hour, synced, dated, isOpen, fileQue, maxFiles, target, inbox, count, retired,
                     undeleted, faults, crashes>>
  BY DEF EndRotation
<1>2. pending \in Log /\ rotateTime < pending.timestamp /\ pending.timestamp <= clock
  BY <1>1 DEF Base, TypeOK, StampsInv, InRotation
<1>3. /\ rotateTime' \in Nat /\ fileTime' \in Nat
      /\ rotateTime < rotateTime' /\ pending.timestamp <= rotateTime'
      /\ \E k \in Nat \ {0} : rotateTime' = Timestamp(k + 1, hour') /\ fileTime' = Timestamp(k, hour')
  BY <1>1, <1>2, AdvanceTimes
<1>4. /\ file' \in Seq(Log) \cup {NoFile} /\ lost' \subseteq 1..MaxLogs
      /\ isOpen => file' # NoFile
  BY <1>1, <1>2, WriteDoes DEF Base
<1>5. TypeOK'
  BY <1>1, <1>3, <1>4 DEF Base, TypeOK
<1>6. StreamInv' /\ TimesInv'
  BY <1>1, <1>3, <1>4 DEF Base, StreamInv, TimesInv
<1>7. StampsInv'
  <2>1. rotateTime <= rotateTime'
    BY <1>3 DEF Base, TypeOK
  <2>2. file' # NoFile => \A i \in DOMAIN file' :
            file'[i].timestamp <= clock /\ file'[i].timestamp <= rotateTime'
    BY <1>1, <1>2, <1>3, <2>1, WriteStamps
  <2> QED
    BY <1>1, <2>2 DEF Base, StampsInv, InRotation
<1> QED
  BY <1>5, <1>6, <1>7 DEF Base

LEMMA FlushBase == ASSUME Base, Flush PROVE Base'
<1>1. /\ file \in Seq(Log) /\ synced' = Len(file)
      /\ UNCHANGED <<clock, hour, times, file, dated, isOpen, fileQue, maxFiles, control, inbox, history, faults, crashes>>
  BY DEF Flush, Base, TypeOK, StreamInv
<1>2. synced' \in Nat
  BY <1>1
<1>3. TypeOK'
  BY <1>1, <1>2 DEF Base, TypeOK, times, control, history
<1>4. StreamInv' /\ TimesInv' /\ StampsInv'
  BY <1>1 DEF Base, StreamInv, TimesInv, StampsInv, InRotation, times, control
<1> QED
  BY <1>3, <1>4 DEF Base

LEMMA SetMaxFilesBase == ASSUME Base, NEW n \in Retained, SetMaxFiles(n) PROVE Base'
<1>1. TypeOK'
  BY DEF SetMaxFiles, Base, TypeOK, times, disk, control, history
<1>2. StreamInv' /\ TimesInv' /\ StampsInv'
  BY DEF SetMaxFiles, Base, StreamInv, TimesInv, StampsInv, InRotation, times, disk, control
<1> QED
  BY <1>1, <1>2 DEF Base

\* What a crash leaves of the file is a beginning of it.
LEMMA CrashLeaves ==
  ASSUME TypeOK, Crash
  PROVE  /\ file' \in Seq(Log) \cup {NoFile} /\ synced' \in Nat
         /\ file' # NoFile => /\ file # NoFile /\ DOMAIN file' \subseteq DOMAIN file
                              /\ \A i \in DOMAIN file' : file'[i] = file[i]
<1>1. CASE file = NoFile
  BY <1>1 DEF Crash, TypeOK
<1>2. CASE file # NoFile
  <2>1. PICK k \in synced..Len(file) : file' = SubSeq(file, 1, k) /\ synced' = k
    BY <1>2 DEF Crash
  <2>2. file \in Seq(Log) /\ k \in Nat /\ k <= Len(file)
    BY <1>2, <2>1 DEF TypeOK
  <2>3. file' \in Seq(Log) /\ DOMAIN file' = 1..k /\ DOMAIN file = 1..Len(file)
        /\ \A i \in 1..k : file'[i] = file[i]
    BY <2>1, <2>2
  <2> QED
    BY <1>2, <2>1, <2>2, <2>3
<1> QED
  BY <1>1, <1>2

LEMMA CrashBase == ASSUME Base, Crash PROVE Base'
<1>1. /\ pc' = "down" /\ pending' = NoLog /\ inbox' = {}
      /\ isOpen' = FALSE /\ fileQue' = <<>> /\ undeleted' = {}
      /\ UNCHANGED <<clock, hour, times, dated, maxFiles, target, count, retired, faults>>
  BY DEF Crash
<1>2. /\ file' \in Seq(Log) \cup {NoFile} /\ synced' \in Nat
      /\ file' # NoFile => /\ file # NoFile /\ DOMAIN file' \subseteq DOMAIN file
                           /\ \A i \in DOMAIN file' : file'[i] = file[i]
  BY CrashLeaves DEF Base
<1>3. crashes' \in 0..MaxCrashes
  BY DailyAssumption DEF Crash, Base, TypeOK
<1>4. lost' \subseteq 1..MaxLogs
  <2>1. Numbers(file) \subseteq 1..MaxLogs
    BY NumbersIn DEF Base, TypeOK
  <2>2. {log.n : log \in inbox} \subseteq 1..MaxLogs
    BY LogFields DEF Base, TypeOK
  <2>3. (IF pending = NoLog THEN {} ELSE {pending.n}) \subseteq 1..MaxLogs
    BY LogFields DEF Base, TypeOK
  <2> QED
    BY <2>1, <2>2, <2>3 DEF Crash, Base, TypeOK
<1>5. <<>> \in Seq(Day)
  OBVIOUS
<1>6. TypeOK'
  BY <1>1, <1>2, <1>3, <1>4, <1>5 DEF Base, TypeOK, times
<1>7. StreamInv' /\ TimesInv'
  BY <1>1 DEF Base, StreamInv, TimesInv
<1>8. StampsInv'
  BY <1>1, <1>2 DEF Base, StampsInv, InRotation
<1> QED
  BY <1>6, <1>7, <1>8 DEF Base

\* The queue of a new sink lists, in order, the files not newer than its time.
Listed(time) == {d \in Day : dated[d] # NoFile /\ Timestamp(d, 0) <= time /\ CalcLogFile(Timestamp(d, 0)) = d}

LEMMA ListingSorts ==
  ASSUME NEW time
  PROVE  /\ InitFileQueue(time) \in Seq(Day)
         /\ \A i, j \in DOMAIN InitFileQueue(time) : i < j => InitFileQueue(time)[i] < InitFileQueue(time)[j]
         /\ \A d \in Listed(time) : \E i \in DOMAIN InitFileQueue(time) : InitFileQueue(time)[i] = d
         /\ \A i \in DOMAIN InitFileQueue(time) : InitFileQueue(time)[i] \in Listed(time)
<1> DEFINE S == Listed(time)
<1>1. LastHour \div DayLength \in Nat
  BY DailyAssumption, DivBounds
<1>2. Day \subseteq Nat /\ IsFiniteSet(Day)
  BY <1>1, FS_Interval DEF Day
<1>3. S \in SUBSET Day
  BY DEF Listed
<1>4. IsFiniteSet(S)
  BY <1>2, <1>3, FS_Subset
<1>5. InitFileQueue(time) = Sorted(S)
  BY DEF InitFileQueue, Sorted, Older, Listed
<1> HIDE DEF S
<1>6. /\ Sorted(S) \in Seq(S)
      /\ \A i, j \in DOMAIN Sorted(S) : i < j => Sorted(S)[i] < Sorted(S)[j]
      /\ \A d \in S : \E i \in DOMAIN Sorted(S) : Sorted(S)[i] = d
  <2>1. S \in SUBSET Nat
    BY <1>2, <1>3
  <2> QED
    BY <1>4, <2>1, SortedSorts
<1>7. Sorted(S) \in Seq(Day) /\ \A i \in DOMAIN Sorted(S) : Sorted(S)[i] \in S
  BY <1>3, <1>6
<1> QED
  BY <1>5, <1>6, <1>7 DEF S

LEMMA StartBase == ASSUME Base, NEW n \in Retained, NEW overwrite \in BOOLEAN, Start(n, overwrite) PROVE Base'
<1>1. /\ pc = "down" /\ pc' = "idle" /\ isOpen' = TRUE /\ maxFiles' = n
      /\ file' = IF overwrite \/ file = NoFile THEN <<>> ELSE file
      /\ synced' = Len(file')
      /\ retired' = IF overwrite THEN retired \cup Numbers(file) ELSE retired
      /\ rotateTime' = FirstRotation(clock) /\ fileTime' = rotateTime' - DayLength
      /\ fileQue' = InitFileQueue(fileTime')
      /\ UNCHANGED <<clock, hour, dated, target, pending, inbox, count, lost, undeleted, faults, crashes>>
  BY DEF Start, Open
<1>2. PICK k \in Nat \ {0} : /\ rotateTime' = Timestamp(k + 1, hour) /\ fileTime' = Timestamp(k, hour)
                             /\ rotateTime' \in Nat /\ fileTime' \in Nat
                             /\ clock <= rotateTime'
  BY <1>1, StartTimes
<1>3. file' \in Seq(Log) /\ file' # NoFile
  BY <1>1, InRange DEF Base, TypeOK
<1>4. synced' \in Nat
  BY <1>1, <1>3
<1>5. fileQue' \in Seq(Day)
  BY <1>1, ListingSorts
<1>6. retired' \subseteq 1..MaxLogs
  BY <1>1, NumbersIn DEF Base, TypeOK
<1>7. TypeOK'
  BY <1>1, <1>2, <1>3, <1>4, <1>5, <1>6 DEF Base, TypeOK
<1>8. StreamInv' /\ TimesInv'
  BY <1>1, <1>2, <1>3 DEF Base, StreamInv, TimesInv
<1>9. StampsInv'
  <2>1. \A i \in DOMAIN file' : file'[i].timestamp <= clock /\ file'[i].timestamp <= rotateTime'
    <3> SUFFICES ASSUME NEW i \in DOMAIN file'
                 PROVE  file'[i].timestamp <= clock /\ file'[i].timestamp <= rotateTime'
      OBVIOUS
    <3>1. file' = file /\ file # NoFile /\ file[i] \in Log
      BY <1>1 DEF Base, TypeOK
    <3>2. file[i].timestamp <= clock
      BY <3>1 DEF Base, StampsInv
    <3>3. file[i].timestamp \in Nat /\ clock \in Nat
      BY <3>1, LogFields, InRange DEF Base, TypeOK
    <3> QED
      BY <1>2, <3>1, <3>2, <3>3
  <2> QED
    BY <1>1, <2>1 DEF Base, StampsInv, InRotation
<1> QED
  BY <1>7, <1>8, <1>9 DEF Base

\* The steps of the sink, each with its parameter.
Step ==
    \/ Tick \/ Stamp
    \/ \E log \in inbox : BeginRotation(log) \/ WriteAtOnce(log)
    \/ Rename \/ Reopen \/ DeleteOldest \/ EndRotation
    \/ Flush
    \/ \E n \in Retained : SetMaxFiles(n) \/ \E overwrite \in BOOLEAN : Start(n, overwrite)
    \/ Crash

LEMMA Steps == TypeOK /\ [Next]_vars => Step \/ UNCHANGED vars
BY LogItCases DEF Next, Rotate, Step

LEMMA StepBase == ASSUME Base, [Next]_vars PROVE Base'
<1>1. Step \/ UNCHANGED vars
  BY Steps DEF Base
<1>2. CASE UNCHANGED vars
  BY <1>2 DEF Base, TypeOK, StreamInv, TimesInv, StampsInv, InRotation, vars, times, disk, control, history
<1>3. CASE Step
  BY <1>3, TickBase, StampBase, BeginBase, WriteBase, RenameBase, ReopenBase, DeleteBase, EndBase,
     FlushBase, SetMaxFilesBase, StartBase, CrashBase DEF Step
<1> QED
  BY <1>1, <1>2, <1>3

\* Every variable has its type.
THEOREM TypeCorrect == Spec => []TypeOK
<1>1. Init => Base
  BY InitBase
<1>2. Base /\ [Next]_vars => Base'
  BY StepBase
<1>3. Base => TypeOK
  BY DEF Base
<1> QED
  BY <1>1, <1>2, <1>3, PTL DEF Spec

------------------------------------------------------------------------------
(* No log is in the file of a period that ended before it was made.         *)

\* A step changes the file of a day only to rename the sink's file to it, or to
\* delete it.
LEMMA DatedChanges ==
  ASSUME Base, Step
  PROVE  \/ dated' = dated
         \/ /\ Rename /\ file # NoFile /\ target \in Day
            /\ dated' = [dated EXCEPT ![target] = file]
         \/ /\ DeleteOldest /\ Head(fileQue) \in Day
            /\ dated' = [dated EXCEPT ![Head(fileQue)] = NoFile]
<1>1. CASE Rename
  BY <1>1 DEF Rename, Base, TypeOK, disk
<1>2. CASE DeleteOldest
  <2>1. Head(fileQue) \in Day
    <3>1. Len(fileQue) \in Nat /\ maxFiles \in Nat /\ Len(fileQue) > maxFiles
      BY <1>2, DailyAssumption DEF DeleteOldest, Base, TypeOK
    <3>2. fileQue # <<>>
      BY <3>1
    <3> QED
      BY <3>2 DEF Base, TypeOK
  <2> QED
    BY <1>2, <2>1 DEF DeleteOldest
<1>3. CASE ~ Rename /\ ~ DeleteOldest
  BY <1>3 DEF Step, Tick, Stamp, BeginRotation, WriteAtOnce, Reopen, EndRotation, Flush, SetMaxFiles,
     Start, Crash, disk
<1> QED
  BY <1>1, <1>2, <1>3

LEMMA HourStays == ASSUME [Next]_vars PROVE hour' = hour
BY DEF Next, Rotate, vars, Tick, Stamp, LogIt, Rename, Reopen, DeleteOldest, EndRotation, Flush, SetMaxFiles,
   Start, Crash

\* What a rename leaves under a day is of the period that the day is named for,
\* or of an earlier one.
LEMMA RenamedInTime ==
  ASSUME Base, Rename, file # NoFile
  PROVE  \A i \in DOMAIN file : \E k \in Day :
             CalcLogFile(Timestamp(k, hour)) = target /\ file[i].timestamp <= Timestamp(k, hour) + DayLength
<1>1. pc = "rename"
  BY DEF Rename
<1>2. PICK k \in Nat \ {0} : rotateTime = Timestamp(k + 1, hour) /\ fileTime = Timestamp(k, hour)
  BY <1>1 DEF Base, TimesInv
<1>3. hour \in 0..DayLength - 1
  BY HourRange DEF Base, TypeOK
<1>4. target = CalcLogFile(Timestamp(k, hour)) /\ target \in Day /\ Timestamp(k + 1, hour) = Timestamp(k, hour) + DayLength
  BY <1>1, <1>2, <1>3, Rotations DEF Base, TypeOK, StampsInv
<1>5. k \in Day
  <2>1. k <= LocalDay(Timestamp(k, hour)) /\ CalcLogFile(Timestamp(k, hour)) = LocalDay(Timestamp(k, hour))
    BY <1>3, DayRange DEF CalcLogFile
  <2>2. LastHour \div DayLength \in Nat
    BY InRange, DivBounds
  <2> QED
    BY <1>4, <2>1, <2>2 DEF Day
<1>6. \A i \in DOMAIN file : file[i].timestamp <= rotateTime
  BY <1>1 DEF Base, StampsInv
<1> QED
  BY <1>2, <1>4, <1>5, <1>6

LEMMA InitInTime == Init => NotDatedEarly
<1> SUFFICES ASSUME Init PROVE NotDatedEarly
  OBVIOUS
<1>1. \A d \in Day : dated[d] = <<>> \/ dated[d] = NoFile
  BY DEF Init
<1> QED
  BY <1>1 DEF NotDatedEarly

LEMMA StepInTime == ASSUME Base, NotDatedEarly, [Next]_vars PROVE NotDatedEarly'
<1>1. Step \/ UNCHANGED vars
  BY Steps DEF Base
<1>2. hour' = hour
  BY HourStays
<1>3. CASE dated' = dated
  BY <1>2, <1>3 DEF NotDatedEarly
<1>4. CASE Rename /\ file # NoFile /\ target \in Day /\ dated' = [dated EXCEPT ![target] = file]
  <2> SUFFICES ASSUME NEW d \in Day, dated'[d] # NoFile, NEW i \in DOMAIN dated'[d]
               PROVE  \E k \in Day : /\ CalcLogFile(Timestamp(k, hour)) = d
                                     /\ dated'[d][i].timestamp <= Timestamp(k, hour) + DayLength
    BY <1>2 DEF NotDatedEarly
  <2>1. CASE d = target
    <3>1. dated'[d] = file
      BY <1>4, <2>1 DEF Base, TypeOK
    <3> QED
      BY <1>4, <2>1, <3>1, RenamedInTime
  <2>2. CASE d # target
    <3>1. dated'[d] = dated[d]
      BY <1>4, <2>2 DEF Base, TypeOK
    <3> QED
      BY <3>1 DEF NotDatedEarly
  <2> QED
    BY <2>1, <2>2
<1>5. CASE /\ DeleteOldest /\ Head(fileQue) \in Day
           /\ dated' = [dated EXCEPT ![Head(fileQue)] = NoFile]
  <2>1. \A d \in Day : dated'[d] # NoFile => dated'[d] = dated[d]
    BY <1>5 DEF Base, TypeOK
  <2> QED
    BY <1>2, <2>1 DEF NotDatedEarly
<1>6. CASE UNCHANGED vars
  BY <1>3, <1>6 DEF vars, disk
<1> QED
  BY <1>1, <1>3, <1>4, <1>5, <1>6, DatedChanges

\* Whatever the length of a day, the hours of summer, the order in which logs
\* come and the renames that fail, the file named for a day has no log made
\* after the period that the day stands for.
THEOREM NeverDatedEarly == Spec => []NotDatedEarly
<1>1. Init => Base /\ NotDatedEarly
  BY InitBase, InitInTime
<1>2. (Base /\ NotDatedEarly) /\ [Next]_vars => (Base /\ NotDatedEarly)'
  BY StepBase, StepInTime
<1> QED
  BY <1>1, <1>2, PTL DEF Spec

------------------------------------------------------------------------------
(* Which rotation a file comes from.                                        *)

\* A time of rotation at which the file of day d may have been renamed: it is
\* past, and the next rotation is a later one.
CameFrom(d, k) ==
    /\ d = CalcLogFile(Timestamp(k, hour))
    /\ Timestamp(k, hour) + DayLength < clock
    /\ pc # "down" => Timestamp(k, hour) <= fileTime
    /\ pc \in {"idle", "rename"} => Timestamp(k, hour) < fileTime

\* The file of a day comes from a rotation, or it is an empty one from before
\* the first start.
DatedInv ==
    \A d \in Day : dated[d] # NoFile =>
        (\E k \in Nat : CameFrom(d, k)) \/ (d \in Existing /\ dated[d] = <<>>)

LEMMA InitDated == Init => DatedInv
<1> SUFFICES ASSUME Init, NEW d \in Day, dated[d] # NoFile PROVE d \in Existing /\ dated[d] = <<>>
  BY DEF DatedInv
<1> QED
  BY DEF Init

LEMMA ClockRuns == ASSUME TypeOK, Step PROVE clock' \in Nat /\ clock <= clock' /\ hour' = hour
<1>1. clock \in Nat
  BY InRange DEF TypeOK
<1>2. CASE Tick
  BY <1>1, <1>2 DEF Tick
<1>3. CASE ~ Tick
  <2>1. clock' = clock /\ hour' = hour
    BY <1>3 DEF Step, Stamp, BeginRotation, WriteAtOnce, Rename, Reopen, DeleteOldest, EndRotation, Flush,
       SetMaxFiles, Start, Crash
  <2> QED
    BY <1>1, <2>1
<1> QED
  BY <1>2, <1>3

\* The times of a step that is neither a start nor the end of a rotation.
LEMMA TimesKept ==
  ASSUME Base, Step
  PROVE  \/ pc' = "down"
         \/ /\ pc # "down" /\ (pc' \in {"idle", "rename"} => pc \in {"idle", "rename"})
            /\ fileTime' \in Nat /\ fileTime <= fileTime'
         \/ /\ pc # "down" /\ fileTime' \in Nat /\ fileTime < fileTime'
         \/ pc = "down" /\ \E n \in Retained, overwrite \in BOOLEAN : Start(n, overwrite)
<1>1. fileTime \in Nat
  BY DEF Base, TypeOK
<1>2. CASE Crash
  BY <1>2 DEF Crash
<1>3. CASE \E n \in Retained, overwrite \in BOOLEAN : Start(n, overwrite)
  BY <1>3 DEF Start
<1>4. CASE EndRotation
  <2>1. pc = "delete" /\ Advance(pending) /\ hour' = hour
    BY <1>4 DEF EndRotation
  <2>2. pending \in Log /\ rotateTime < pending.timestamp
    BY <2>1 DEF Base, TypeOK, StampsInv, InRotation
  <2>3. fileTime' \in Nat /\ fileTime + DayLength <= fileTime'
    BY <2>1, <2>2, AdvanceTimes
  <2> QED
    BY <1>1, <2>1, <2>3, DayNat
<1>5. CASE \E log \in inbox : WriteAtOnce(log)
  <2>1. PICK log \in inbox : WriteAtOnce(log)
    BY <1>5
  <2>2. pc = "idle" /\ pc' = pc /\ log \in Log /\ hour' = hour
    BY <2>1 DEF WriteAtOnce, control, Base, TypeOK
  <2>3. CASE rotateTime < log.timestamp /\ Advance(log)
    <3>1. fileTime' \in Nat /\ fileTime + DayLength <= fileTime'
      BY <2>2, <2>3, AdvanceTimes
    <3> QED
      BY <1>1, <2>2, <3>1, DayNat
  <2>4. CASE UNCHANGED times
    BY <1>1, <2>2, <2>4 DEF times
  <2> QED
    BY <2>1, <2>3, <2>4 DEF WriteAtOnce
<1>6. CASE Tick \/ Stamp \/ Flush \/ \E n \in Retained : SetMaxFiles(n)
  <2>1. fileTime' = fileTime /\ pc' = pc
    BY <1>6 DEF Tick, Stamp, Flush, SetMaxFiles, times, control
  <2>2. CASE pc = "down"
    BY <2>1, <2>2
  <2>3. CASE pc # "down"
    BY <1>1, <2>1, <2>3
  <2> QED
    BY <2>2, <2>3
<1>7. CASE (\E log \in inbox : BeginRotation(log)) \/ Rename \/ Reopen \/ DeleteOldest
  <2>1. fileTime' = fileTime
    BY <1>7 DEF BeginRotation, Rename, Reopen, DeleteOldest, times
  <2>2. pc # "down" /\ (pc' \in {"idle", "rename"} => pc \in {"idle", "rename"})
    BY <1>7 DEF BeginRotation, Rename, Reopen, DeleteOldest, control
  <2> QED
    BY <1>1, <2>1, <2>2
<1> QED
  BY <1>2, <1>3, <1>4, <1>5, <1>6, <1>7 DEF Step

LEMMA StillCameFrom ==
  ASSUME Base, Step, NEW d, NEW k \in Nat, CameFrom(d, k)
  PROVE  CameFrom(d, k)'
<1> DEFINE t == Timestamp(k, hour)
<1>1. hour \in 0..DayLength - 1
  BY HourRange DEF Base, TypeOK
<1>2. t \in Nat
  BY <1>1, Rotations
<1>3. clock \in Nat /\ fileTime \in Nat
  BY InRange DEF Base, TypeOK
<1>4. clock' \in Nat /\ clock <= clock' /\ hour' = hour
  BY ClockRuns DEF Base
<1>5. /\ d = CalcLogFile(t) /\ t + DayLength < clock
      /\ pc # "down" => t <= fileTime
      /\ pc \in {"idle", "rename"} => t < fileTime
  BY DEF CameFrom
<1> HIDE DEF t
<1>6. (pc' # "down" => t <= fileTime') /\ (pc' \in {"idle", "rename"} => t < fileTime')
  <2>1. CASE pc' = "down"
    BY <2>1
  <2>2. CASE /\ pc # "down" /\ (pc' \in {"idle", "rename"} => pc \in {"idle", "rename"})
             /\ fileTime' \in Nat /\ fileTime <= fileTime'
    BY <1>2, <1>3, <1>5, <2>2
  <2>3. CASE pc # "down" /\ fileTime' \in Nat /\ fileTime < fileTime'
    BY <1>2, <1>3, <1>5, <2>3
  <2>4. CASE \E n \in Retained, overwrite \in BOOLEAN : Start(n, overwrite)
    <3>1. rotateTime' = FirstRotation(clock) /\ fileTime' = rotateTime' - DayLength
      BY <2>4 DEF Start
    <3>2. rotateTime' \in Nat /\ clock <= rotateTime' /\ fileTime' \in Nat
      BY <3>1, StartTimes
    <3> QED
      BY <1>2, <1>3, <1>5, <3>1, <3>2, DayNat
  <2> QED
    BY <2>1, <2>2, <2>3, <2>4, TimesKept
<1>7. t + DayLength < clock'
  BY <1>2, <1>3, <1>4, <1>5, DayNat
<1> QED
  BY <1>4, <1>5, <1>6, <1>7 DEF CameFrom, t

\* A file that is renamed comes from the rotation that its name is of.
LEMMA RenamedCameFrom ==
  ASSUME Base, Rename, pc' = "truncate", NEW d, d = target
  PROVE  \E k \in Nat : CameFrom(d, k)'
<1>1. pc = "rename" /\ UNCHANGED <<clock, hour, rotateTime, fileTime, target>>
  BY DEF Rename, times
<1>2. PICK k \in Nat \ {0} : rotateTime = Timestamp(k + 1, hour) /\ fileTime = Timestamp(k, hour)
  BY <1>1 DEF Base, TimesInv
<1>3. hour \in 0..DayLength - 1
  BY HourRange DEF Base, TypeOK
<1>4. /\ d = CalcLogFile(Timestamp(k, hour))
      /\ Timestamp(k, hour) \in Nat /\ Timestamp(k + 1, hour) = Timestamp(k, hour) + DayLength
  BY <1>1, <1>2, <1>3, Rotations DEF Base, StampsInv
<1>5. /\ rotateTime < pending.timestamp /\ pending.timestamp <= clock
      /\ pending.timestamp \in Nat /\ clock \in Nat /\ rotateTime \in Nat
  <2>1. pending \in Log
    BY <1>1 DEF Base, TypeOK, StampsInv, InRotation
  <2> QED
    BY <1>1, <2>1, LogFields, InRange DEF Base, TypeOK, StampsInv, InRotation
<1>6. Timestamp(k, hour) + DayLength < clock
  BY <1>2, <1>4, <1>5
<1>7. Timestamp(k, hour) <= fileTime
  BY <1>2, <1>4
<1>8. CameFrom(d, k)'
  BY <1>1, <1>4, <1>6, <1>7 DEF CameFrom
<1> QED
  BY <1>8

LEMMA StepDated == ASSUME Base, DatedInv, [Next]_vars PROVE DatedInv'
<1>1. Step \/ UNCHANGED vars
  BY Steps DEF Base
<1>2. CASE UNCHANGED vars
  BY <1>2 DEF DatedInv, CameFrom, vars, times, disk, control
<1>3. CASE Step
  <2>1. ASSUME NEW d \in Day, dated[d] # NoFile
        PROVE  (\E k \in Nat : CameFrom(d, k)') \/ (d \in Existing /\ dated[d] = <<>>)
    BY <1>3, <2>1, StillCameFrom DEF DatedInv
  <2>2. CASE dated' = dated
    BY <2>1, <2>2 DEF DatedInv
  <2>3. CASE Rename /\ file # NoFile /\ target \in Day /\ dated' = [dated EXCEPT ![target] = file]
    <3> SUFFICES ASSUME NEW d \in Day, dated'[d] # NoFile
                 PROVE  (\E k \in Nat : CameFrom(d, k)') \/ (d \in Existing /\ dated'[d] = <<>>)
      BY DEF DatedInv
    <3>1. CASE d = target
      <4>1. CASE pc' = "truncate"
        BY <2>3, <3>1, <4>1, RenamedCameFrom
      <4>2. CASE UNCHANGED dated
        BY <2>1, <4>2
      <4> QED
        BY <2>3, <4>1, <4>2 DEF Rename, disk
    <3>2. CASE d # target
      <4>1. dated'[d] = dated[d]
        BY <2>3, <3>2 DEF Base, TypeOK
      <4> QED
        BY <2>1, <4>1
    <3> QED
      BY <3>1, <3>2
  <2>4. CASE /\ DeleteOldest /\ Head(fileQue) \in Day
             /\ dated' = [dated EXCEPT ![Head(fileQue)] = NoFile]
    <3>1. \A d \in Day : dated'[d] # NoFile => dated'[d] = dated[d]
      BY <2>4 DEF Base, TypeOK
    <3> QED
      BY <2>1, <3>1 DEF DatedInv
  <2> QED
    BY <1>3, <2>2, <2>3, <2>4, DatedChanges
<1> QED
  BY <1>1, <1>2, <1>3

------------------------------------------------------------------------------
(* Retention.                                                               *)

\* The queue is in the order of days, none of them after the day of the next
\* rotation, and it has every file but those that could not be deleted and the
\* one that was just renamed.
QueueInv ==
    pc # "down" =>
        /\ \A i, j \in DOMAIN fileQue : i < j => fileQue[i] <= fileQue[j]
        /\ \A i \in DOMAIN fileQue : fileQue[i] <= CalcLogFile(fileTime)
        /\ \A d \in Day : dated[d] # NoFile /\ d \notin undeleted /\ ~ (pc = "truncate" /\ d = target)
                             => \E i \in DOMAIN fileQue : fileQue[i] = d

LEMMA DayIsNat == Day \subseteq Nat
<1>1. LastHour \div DayLength \in Nat
  BY InRange, DivBounds
<1> QED
  BY <1>1 DEF Day

\* The start of a day is on that day.
LEMMA DayStart == ASSUME NEW d \in Nat PROVE Timestamp(d, 0) = d * DayLength /\ CalcLogFile(Timestamp(d, 0)) = d
<1>1. 0 \in 0..DayLength - 1 /\ 0 + 1 < DayLength
  BY DayNat
<1>2. Timestamp(d, 0) = d * DayLength + 0 /\ d * DayLength \in Nat
  BY <1>1, Rotations, DayNat
<1> QED
  BY <1>1, <1>2, OwnDay

\* A start lists every file there is, if none was dated ahead before the first.
LEMMA StartListsAll ==
  ASSUME Base, DatedInv, Existing \subseteq 0..1, pc = "down",
         NEW time, time = FirstRotation(clock) - DayLength, NEW d \in Day, dated[d] # NoFile
  PROVE  d \in Listed(time)
<1>1. hour \in 0..DayLength - 1 /\ clock \in Nat /\ d \in Nat
  BY HourRange, InRange, DayIsNat DEF Base, TypeOK
<1>2. PICK k \in Nat \ {0} : time = Timestamp(k, hour) /\ time \in Nat /\ clock <= time + DayLength
  <2>1. \E k \in Nat \ {0} : /\ FirstRotation(clock) - DayLength = Timestamp(k, hour)
                             /\ FirstRotation(clock) \in Nat /\ FirstRotation(clock) - DayLength \in Nat
                             /\ clock <= FirstRotation(clock)
    BY StartTimes
  <2> QED
    BY <2>1, DayNat
<1>3. d <= k
  <2>1. CASE \E l \in Nat : CameFrom(d, l)
    <3>1. PICK l \in Nat : d = CalcLogFile(Timestamp(l, hour)) /\ Timestamp(l, hour) + DayLength < clock
      BY <2>1 DEF CameFrom
    <3>2. Timestamp(l, hour) \in Nat
      BY <1>1, Rotations
    <3>3. Timestamp(l, hour) < Timestamp(k, hour)
      BY <1>1, <1>2, <3>1, <3>2, DayNat
    <3>4. l < k
      BY <1>1, <3>3, RotationsApart
    <3>5. d <= l + 1
      BY <1>1, <3>1, DayRange DEF CalcLogFile
    <3> QED
      BY <1>1, <3>4, <3>5
  <2>2. CASE d \in Existing
    BY <2>2
  <2> QED
    BY <2>1, <2>2 DEF DatedInv
<1>4. d * DayLength <= k * DayLength /\ k * DayLength \in Nat /\ d * DayLength \in Nat
  <2>1. CASE d = k
    BY <1>1, <2>1, DayNat
  <2>2. CASE d < k
    BY <1>1, <2>2, DaysGrow, DayNat
  <2> QED
    BY <1>1, <1>3, <2>1, <2>2
<1>5. time = k * DayLength + hour
  BY <1>1, <1>2, Rotations
<1>6. Timestamp(d, 0) <= time
  BY <1>1, <1>4, <1>5, DayStart
<1> QED
  BY <1>1, <1>6, DayStart DEF Listed

LEMMA InitQueue == Init => QueueInv
BY DEF Init, QueueInv

\* The day of the next rotation is never an earlier one.
LEMMA DayGoesOn ==
  ASSUME Base, pc # "down", NEW log \in Log, rotateTime < log.timestamp, Advance(log), hour' = hour
  PROVE  CalcLogFile(fileTime) <= CalcLogFile(fileTime') /\ CalcLogFile(fileTime) \in Nat
         /\ CalcLogFile(fileTime') \in Nat
<1>1. fileTime \in Nat /\ fileTime' \in Nat /\ fileTime + DayLength <= fileTime'
  BY AdvanceTimes DEF Base, TypeOK
<1> QED
  BY <1>1, DaysInOrder, DayOf DEF CalcLogFile

LEMMA QueueLater ==
  ASSUME Base, QueueInv, pc # "down", fileQue' = fileQue, dated' = dated, undeleted' = undeleted,
         pc # "truncate", pc' # "truncate",
         CalcLogFile(fileTime) \in Nat, CalcLogFile(fileTime') \in Nat,
         CalcLogFile(fileTime) <= CalcLogFile(fileTime')
  PROVE  QueueInv'
<1>1. \A i \in DOMAIN fileQue : fileQue[i] <= CalcLogFile(fileTime')
  <2> SUFFICES ASSUME NEW i \in DOMAIN fileQue PROVE fileQue[i] <= CalcLogFile(fileTime')
    OBVIOUS
  <2>1. fileQue[i] \in Nat
    <3>1. fileQue \in Seq(Day)
      BY DEF Base, TypeOK
    <3>2. fileQue[i] \in Day
      BY <3>1
    <3> QED
      BY <3>2, DayIsNat
  <2>2. fileQue[i] <= CalcLogFile(fileTime)
    BY DEF QueueInv
  <2> QED
    BY <2>1, <2>2
<1> QED
  BY <1>1 DEF QueueInv

LEMMA RenameQueue == ASSUME Base, QueueInv, Rename PROVE QueueInv'
<1>1. pc = "rename" /\ UNCHANGED <<fileTime, fileQue, target>>
  BY DEF Rename, times
<1>2. CASE UNCHANGED <<dated, undeleted>> /\ pc' = "append"
  BY <1>1, <1>2 DEF QueueInv
<1>3. CASE dated' = [dated EXCEPT ![target] = file] /\ undeleted' = undeleted \ {target} /\ pc' = "truncate"
  <2>1. \A d \in Day : d # target => dated'[d] = dated[d] /\ (d \in undeleted <=> d \in undeleted')
    BY <1>3 DEF Base, TypeOK
  <2>2. \A d \in Day : dated'[d] # NoFile /\ d \notin undeleted' /\ d # target
                          => \E i \in DOMAIN fileQue : fileQue[i] = d
    BY <1>1, <2>1 DEF QueueInv
  <2> QED
    BY <1>1, <1>3, <2>2 DEF QueueInv
<1> QED
  BY <1>2, <1>3 DEF Rename, disk

LEMMA ReopenQueue == ASSUME Base, QueueInv, Reopen PROVE QueueInv'
<1>1. /\ pc' = "delete" /\ UNCHANGED <<fileTime, dated, target, undeleted>>
      /\ fileQue' = IF pc = "truncate" THEN Append(fileQue, target) ELSE fileQue
      /\ pc \in {"truncate", "append"}
  BY DEF Reopen, times, history
<1>2. CASE pc = "append"
  BY <1>1, <1>2 DEF QueueInv
<1>3. CASE pc = "truncate"
  <2>1. target = CalcLogFile(fileTime) /\ target \in Nat
    BY <1>3, DayIsNat DEF Base, TypeOK, StampsInv
  <2>2. fileQue \in Seq(Day) /\ target \in Day
    BY DEF Base, TypeOK
  <2>3. /\ DOMAIN fileQue' = 1..Len(fileQue) + 1 /\ DOMAIN fileQue = 1..Len(fileQue) /\ Len(fileQue) \in Nat
        /\ \A i \in 1..Len(fileQue) : fileQue'[i] = fileQue[i]
        /\ fileQue'[Len(fileQue) + 1] = target
    BY <1>1, <1>3, <2>2
  <2>4. \A i \in DOMAIN fileQue' : fileQue'[i] <= target
    <3> SUFFICES ASSUME NEW i \in DOMAIN fileQue' PROVE fileQue'[i] <= target
      OBVIOUS
    <3>1. CASE i \in DOMAIN fileQue
      BY <1>3, <2>1, <2>3, <3>1 DEF QueueInv
    <3>2. CASE i = Len(fileQue) + 1
      BY <2>1, <2>3, <3>2
    <3> QED
      BY <2>3, <3>1, <3>2
  <2>5. \A i, j \in DOMAIN fileQue' : i < j => fileQue'[i] <= fileQue'[j]
    <3> SUFFICES ASSUME NEW i \in DOMAIN fileQue', NEW j \in DOMAIN fileQue', i < j
                 PROVE  fileQue'[i] <= fileQue'[j]
      OBVIOUS
    <3>1. i \in DOMAIN fileQue
      BY <2>3
    <3>2. CASE j \in DOMAIN fileQue
      BY <1>3, <2>3, <3>1, <3>2 DEF QueueInv
    <3>3. CASE j = Len(fileQue) + 1
      BY <2>3, <2>4, <3>3
    <3> QED
      BY <2>3, <3>2, <3>3
  <2>6. \A d \in Day : dated[d] # NoFile /\ d \notin undeleted => \E i \in DOMAIN fileQue' : fileQue'[i] = d
    <3> SUFFICES ASSUME NEW d \in Day, dated[d] # NoFile, d \notin undeleted
                 PROVE  \E i \in DOMAIN fileQue' : fileQue'[i] = d
      OBVIOUS
    <3>1. CASE d = target
      BY <2>3, <3>1
    <3>2. CASE d # target
      <4>1. PICK i \in DOMAIN fileQue : fileQue[i] = d
        BY <1>3, <3>2 DEF QueueInv
      <4> QED
        BY <2>3, <4>1
    <3> QED
      BY <3>1, <3>2
  <2> QED
    BY <1>1, <2>1, <2>4, <2>5, <2>6 DEF QueueInv
<1> QED
  BY <1>1, <1>2, <1>3

LEMMA DeleteQueue == ASSUME Base, QueueInv, DeleteOldest PROVE QueueInv'
<1>1. /\ pc = "delete" /\ pc' = "delete" /\ fileTime' = fileTime /\ fileQue # <<>> /\ fileQue' = Tail(fileQue)
  <2>1. Len(fileQue) \in Nat /\ maxFiles \in Nat /\ Len(fileQue) > maxFiles
    BY DailyAssumption DEF DeleteOldest, Base, TypeOK
  <2>2. fileQue # <<>>
    BY <2>1
  <2> QED
    BY <2>2 DEF DeleteOldest, times, control
<1>2. fileQue \in Seq(Day) /\ Head(fileQue) = fileQue[1]
  BY <1>1 DEF Base, TypeOK
<1>3. /\ Len(fileQue) \in Nat \ {0} /\ DOMAIN fileQue = 1..Len(fileQue)
      /\ DOMAIN fileQue' = 1..Len(fileQue) - 1
      /\ \A i \in DOMAIN fileQue' : fileQue'[i] = fileQue[i + 1]
  BY <1>1, <1>2
<1>4. \A d \in Day : dated'[d] # NoFile /\ d \notin undeleted'
                        => dated[d] # NoFile /\ d \notin undeleted /\ d # Head(fileQue)
  <2>1. CASE dated' = [dated EXCEPT ![Head(fileQue)] = NoFile] /\ UNCHANGED undeleted
    BY <2>1 DEF Base, TypeOK
  <2>2. CASE undeleted' = undeleted \cup {Head(fileQue)} /\ UNCHANGED dated
    BY <2>2
  <2> QED
    BY <2>1, <2>2 DEF DeleteOldest
<1>5. \A d \in Day : dated'[d] # NoFile /\ d \notin undeleted' => \E i \in DOMAIN fileQue' : fileQue'[i] = d
  <2> SUFFICES ASSUME NEW d \in Day, dated'[d] # NoFile, d \notin undeleted'
               PROVE  \E i \in DOMAIN fileQue' : fileQue'[i] = d
    OBVIOUS
  <2>1. PICK i \in DOMAIN fileQue : fileQue[i] = d
    BY <1>1, <1>4 DEF QueueInv
  <2>2. i # 1
    BY <1>2, <1>4, <2>1
  <2>3. i - 1 \in DOMAIN fileQue' /\ (i - 1) + 1 = i
    BY <1>3, <2>2
  <2> QED
    BY <1>3, <2>1, <2>3
<1>6. \A i \in DOMAIN fileQue' : fileQue'[i] <= CalcLogFile(fileTime)
  BY <1>1, <1>3 DEF QueueInv
<1>7. \A i, j \in DOMAIN fileQue' : i < j => fileQue'[i] <= fileQue'[j]
  <2> SUFFICES ASSUME NEW i \in DOMAIN fileQue', NEW j \in DOMAIN fileQue', i < j
               PROVE  fileQue'[i] <= fileQue'[j]
    OBVIOUS
  <2>1. i + 1 \in DOMAIN fileQue /\ j + 1 \in DOMAIN fileQue /\ i + 1 < j + 1
    BY <1>3
  <2> QED
    BY <1>1, <1>3, <2>1 DEF QueueInv
<1> QED
  BY <1>1, <1>5, <1>6, <1>7 DEF QueueInv

LEMMA StartQueue ==
  ASSUME Base, DatedInv, Existing \subseteq 0..1, NEW n \in Retained, NEW overwrite \in BOOLEAN,
         Start(n, overwrite)
  PROVE  QueueInv'
<1>1. /\ pc = "down" /\ pc' = "idle" /\ fileTime' = FirstRotation(clock) - DayLength
      /\ fileQue' = InitFileQueue(fileTime') /\ dated' = dated
  BY DEF Start
<1>2. fileTime' \in Nat
  BY <1>1, StartTimes
<1> DEFINE time == fileTime'
<1> HIDE DEF time
<1>3. time = fileTime'
  BY DEF time
<1>4. /\ \A i, j \in DOMAIN fileQue' : i < j => fileQue'[i] < fileQue'[j]
      /\ \A d \in Listed(time) : \E i \in DOMAIN fileQue' : fileQue'[i] = d
      /\ \A i \in DOMAIN fileQue' : fileQue'[i] \in Listed(time)
  BY <1>1, <1>3, ListingSorts
<1>5. \A i \in DOMAIN fileQue' : fileQue'[i] \in Nat
  BY <1>4, DayIsNat DEF Listed
<1>6. \A i, j \in DOMAIN fileQue' : i < j => fileQue'[i] <= fileQue'[j]
  BY <1>4, <1>5
<1>7. \A d \in Day : dated[d] # NoFile => \E i \in DOMAIN fileQue' : fileQue'[i] = d
  BY <1>1, <1>3, <1>4, StartListsAll
<1>8. \A d \in Listed(time) : d <= CalcLogFile(time)
  <2> SUFFICES ASSUME NEW d \in Listed(time) PROVE d <= CalcLogFile(time)
    OBVIOUS
  <2>1. d \in Nat /\ Timestamp(d, 0) <= time /\ Timestamp(d, 0) = d * DayLength /\ d * DayLength \in Nat
    BY DayIsNat, DayStart, DayNat DEF Listed
  <2>2. d * DayLength < d * DayLength + DayLength
    BY <2>1, DayNat
  <2>3. (d * DayLength) \div DayLength = d
    BY <2>1, <2>2, DivIs
  <2>4. (d * DayLength) \div DayLength <= time \div DayLength
    BY <1>2, <1>3, <2>1, DivMonotone
  <2>5. time \div DayLength <= CalcLogFile(time) /\ time \div DayLength \in Nat /\ CalcLogFile(time) \in Nat
    BY <1>2, <1>3, DayOf, DivBounds
  <2> QED
    BY <2>1, <2>3, <2>4, <2>5
<1>9. \A i \in DOMAIN fileQue' : fileQue'[i] <= CalcLogFile(fileTime')
  BY <1>3, <1>4, <1>8
<1> QED
  BY <1>1, <1>6, <1>7, <1>9 DEF QueueInv

LEMMA StepQueue ==
  ASSUME Base, DatedInv, QueueInv, Existing \subseteq 0..1, [Next]_vars
  PROVE  QueueInv'
<1>1. Step \/ UNCHANGED vars
  BY Steps DEF Base
<1>2. CASE Tick \/ Stamp \/ Flush \/ (\E n \in Retained : SetMaxFiles(n)) \/ UNCHANGED vars
  <2>1. UNCHANGED <<fileTime, fileQue, dated, undeleted, pc, target>>
    BY <1>2 DEF Tick, Stamp, Flush, SetMaxFiles, vars, times, disk, control, history
  <2> QED
    BY <2>1 DEF QueueInv
<1>3. CASE \E log \in inbox : BeginRotation(log)
  <2>1. UNCHANGED <<fileTime, fileQue, dated, undeleted>> /\ pc = "idle" /\ pc' = "rename"
    BY <1>3 DEF BeginRotation, times
  <2> QED
    BY <2>1 DEF QueueInv
<1>4. CASE \E log \in inbox : WriteAtOnce(log)
  <2>1. PICK log \in inbox : WriteAtOnce(log)
    BY <1>4
  <2>2. UNCHANGED <<hour, fileQue, dated, undeleted, pc, target>> /\ pc = "idle" /\ log \in Log
    BY <2>1 DEF WriteAtOnce, control, Base, TypeOK
  <2>3. CASE rotateTime < log.timestamp /\ Advance(log)
    BY <2>2, <2>3, DayGoesOn, QueueLater
  <2>4. CASE UNCHANGED times
    BY <2>2, <2>4 DEF QueueInv, times
  <2> QED
    BY <2>1, <2>3, <2>4 DEF WriteAtOnce
<1>5. CASE EndRotation
  <2>1. UNCHANGED <<hour, fileQue, dated, undeleted>> /\ pc = "delete" /\ pc' = "idle" /\ Advance(pending)
    BY <1>5 DEF EndRotation
  <2>2. pending \in Log /\ rotateTime < pending.timestamp
    BY <2>1 DEF Base, TypeOK, StampsInv, InRotation
  <2> QED
    BY <2>1, <2>2, DayGoesOn, QueueLater
<1>6. CASE Crash
  BY <1>6 DEF Crash, QueueInv
<1> QED
  BY <1>1, <1>2, <1>3, <1>4, <1>5, <1>6, RenameQueue, ReopenQueue, DeleteQueue, StartQueue DEF Step

\* Retention takes the oldest day first, however often the sink is started
\* again, as long as no file was dated ahead of the clock before the first start.
THEOREM OldestDayFirst == (Existing \subseteq 0..1) /\ Spec => OldestGoesFirst
<1> SUFFICES ASSUME Existing \subseteq 0..1 PROVE Spec => OldestGoesFirst
  OBVIOUS
<1>1. Init => Base /\ DatedInv /\ QueueInv
  BY InitBase, InitDated, InitQueue
<1>2. (Base /\ DatedInv /\ QueueInv) /\ [Next]_vars => (Base /\ DatedInv /\ QueueInv)'
  BY StepBase, StepDated, StepQueue
<1>3. (Base /\ DatedInv /\ QueueInv) /\ [Next]_vars
        => [\A d \in Day : dated[d] # NoFile /\ dated'[d] = NoFile =>
              \A e \in Day : e < d /\ dated[e] # NoFile => e \in undeleted]_vars
  <2> SUFFICES ASSUME Base, QueueInv, Next, NEW d \in Day, dated[d] # NoFile, dated'[d] = NoFile,
                      NEW e \in Day, e < d, dated[e] # NoFile, e \notin undeleted
               PROVE  FALSE
    BY DEF vars
  <2>1. Step
    BY Steps DEF Base, vars, disk
  <2>2. file = NoFile \/ dated' # [dated EXCEPT ![target] = file]
    BY DEF Base, TypeOK
  <2>3. DeleteOldest /\ Head(fileQue) \in Day /\ dated' = [dated EXCEPT ![Head(fileQue)] = NoFile]
    BY <2>1, <2>2, DatedChanges
  <2>4. pc = "delete" /\ d = Head(fileQue)
    BY <2>3 DEF DeleteOldest, Base, TypeOK
  <2>5. PICK i \in DOMAIN fileQue : fileQue[i] = e
    BY <2>4 DEF QueueInv
  <2>6. fileQue \in Seq(Day)
    BY DEF Base, TypeOK
  <2>7. 1 \in DOMAIN fileQue /\ fileQue[1] = d /\ i \in Nat /\ 1 <= i
    BY <2>4, <2>5, <2>6
  <2>8. d \in Nat /\ e \in Nat
    BY DayIsNat
  <2>9. fileQue[1] <= fileQue[i]
    <3>1. CASE i = 1
      BY <2>7, <2>8, <3>1
    <3>2. CASE 1 < i
      BY <2>4, <2>7, <3>2 DEF QueueInv
    <3> QED
      BY <2>7, <3>1, <3>2
  <2> QED
    BY <2>5, <2>7, <2>8, <2>9
<1> QED
  BY <1>1, <1>2, <1>3, PTL DEF Spec, OldestGoesFirst

------------------------------------------------------------------------------
(* No log vanishes.                                                         *)

\* No two rotations of one hour fall on the same day.
DaysApart ==
    \A h \in Hours, k, l \in Nat : k < l => CalcLogFile(Timestamp(k, h)) # CalcLogFile(Timestamp(l, h))

\* That is so when no hour of rotation is the last of the day.
LEMMA EarlyHoursApart == ASSUME \A h \in Hours : h + 1 < DayLength PROVE DaysApart
<1> SUFFICES ASSUME NEW h \in Hours, NEW k \in Nat, NEW l \in Nat, k < l
             PROVE  CalcLogFile(Timestamp(k, h)) # CalcLogFile(Timestamp(l, h))
  BY DEF DaysApart
<1>1. h \in 0..DayLength - 1
  BY HourRange
<1>2. CalcLogFile(Timestamp(k, h)) = k /\ CalcLogFile(Timestamp(l, h)) = l
  BY <1>1, OwnDay
<1> QED
  BY <1>2

OnTheWay == {log.n : log \in inbox}
Waiting == IF pending = NoLog THEN {} ELSE {pending.n}
InDated == UNION {Numbers(dated[d]) : d \in Day}

Everywhere == OnTheWay \cup Waiting \cup Numbers(file) \cup InDated \cup retired \cup lost

LEMMA NoneVanishes ==
  /\ NoLogVanishes <=> 1..count = Everywhere
  /\ NoLogVanishes' <=> 1..count' = Everywhere'
BY Zenon DEF NoLogVanishes, Everywhere, OnTheWay, Waiting, InDated

\* What the file of one day is exchanged for.
LEMMA Exchanged ==
  ASSUME TypeOK, NEW d \in Day, NEW logs, dated' = [dated EXCEPT ![d] = logs]
  PROVE  InDated' \cup Numbers(dated[d]) = InDated \cup Numbers(logs)
<1>1. dated'[d] = logs /\ \A e \in Day : e # d => dated'[e] = dated[e]
  BY DEF TypeOK
<1>2. \A n : n \in InDated <=> \E e \in Day : n \in Numbers(dated[e])
  BY DEF InDated
<1>3. \A n : n \in InDated' <=> \E e \in Day : n \in Numbers(dated'[e])
  BY DEF InDated
<1>4. ASSUME NEW n PROVE n \in InDated' \cup Numbers(dated[d]) <=> n \in InDated \cup Numbers(logs)
  BY <1>1, <1>2, <1>3
<1> QED
  BY <1>4

LEMMA NumbersOfNone == Numbers(NoFile) = {} /\ Numbers(<<>>) = {}
BY InRange DEF Numbers

LEMMA InitVanishes == Init => NoLogVanishes
<1> SUFFICES ASSUME Init PROVE NoLogVanishes
  OBVIOUS
<1>1. \A d \in Day : dated[d] = <<>> \/ dated[d] = NoFile
  BY DEF Init
<1>2. InDated = {}
  BY <1>1, NumbersOfNone DEF InDated
<1>3. OnTheWay = {} /\ Waiting = {} /\ Numbers(file) = {} /\ retired = {} /\ lost = {} /\ 1..count = {}
  BY NumbersOfNone DEF Init, OnTheWay, Waiting
<1> QED
  BY <1>2, <1>3, NoneVanishes DEF Everywhere

\* The log that reaches the sink is one of those on their way.
LEMMA Arrives ==
  ASSUME NEW log \in inbox, inbox' = inbox \ {log}
  PROVE  OnTheWay = OnTheWay' \cup {log.n}
BY DEF OnTheWay

LEMMA StampVanishes == ASSUME Base, NoLogVanishes, Stamp PROVE NoLogVanishes'
<1> DEFINE log == [n |-> count + 1, timestamp |-> clock]
<1>1. /\ count \in Nat /\ count' = count + 1 /\ inbox' = inbox \cup {log}
      /\ UNCHANGED <<disk, control, lost, retired>>
  BY DEF Stamp, Base, TypeOK
<1>2. OnTheWay' = OnTheWay \cup {count + 1}
  <2>1. log.n = count + 1
    OBVIOUS
  <2> HIDE DEF log
  <2> QED
    BY <1>1, <2>1 DEF OnTheWay
<1>3. 1..count' = (1..count) \cup {count + 1}
  BY <1>1
<1>4. Waiting' = Waiting /\ Numbers(file)' = Numbers(file) /\ InDated' = InDated
  BY <1>1 DEF Waiting, InDated, disk, control
<1> QED
  BY <1>1, <1>2, <1>3, <1>4, NoneVanishes DEF Everywhere

LEMMA BeginVanishes == ASSUME Base, NoLogVanishes, NEW log, BeginRotation(log) PROVE NoLogVanishes'
<1>1. /\ pc = "idle" /\ log \in inbox /\ inbox' = inbox \ {log} /\ pending' = log
      /\ UNCHANGED <<file, dated, count, lost, retired>>
  BY DEF BeginRotation
<1>2. OnTheWay = OnTheWay' \cup {log.n}
  BY <1>1, Arrives
<1>3. Waiting = {} /\ Waiting' = {log.n}
  <2>1. pending = NoLog /\ log # NoLog
    BY <1>1, InRange DEF Base, TypeOK, StampsInv, InRotation
  <2> QED
    BY <1>1, <2>1 DEF Waiting
<1>4. InDated' = InDated /\ Numbers(file)' = Numbers(file)
  BY <1>1 DEF InDated
<1> QED
  BY <1>1, <1>2, <1>3, <1>4, NoneVanishes DEF Everywhere

LEMMA WriteVanishes == ASSUME Base, NoLogVanishes, NEW log, WriteAtOnce(log) PROVE NoLogVanishes'
<1>1. /\ log \in inbox /\ log \in Log /\ inbox' = inbox \ {log}
      /\ UNCHANGED <<pending, dated, count, retired>>
  BY DEF WriteAtOnce, control, Base, TypeOK
<1>2. OnTheWay = OnTheWay' \cup {log.n}
  BY <1>1, Arrives
<1>3. Numbers(file') \cup lost' = Numbers(file) \cup lost \cup {log.n}
  BY <1>1, WriteDoes DEF WriteAtOnce, Base
<1>4. InDated' = InDated /\ Waiting' = Waiting /\ Numbers(file)' = Numbers(file')
  BY <1>1 DEF InDated, Waiting
<1> QED
  BY <1>1, <1>2, <1>3, <1>4, NoneVanishes DEF Everywhere

LEMMA EndVanishes == ASSUME Base, NoLogVanishes, EndRotation PROVE NoLogVanishes'
<1>1. /\ pc = "delete" /\ Write(pending) /\ pending' = NoLog
      /\ UNCHANGED <<inbox, dated, count, retired>>
  BY DEF EndRotation
<1>2. pending \in Log /\ pending # NoLog
  BY <1>1 DEF Base, TypeOK, StampsInv, InRotation
<1>3. Waiting = {pending.n} /\ Waiting' = {}
  BY <1>1, <1>2 DEF Waiting
<1>4. Numbers(file') \cup lost' = Numbers(file) \cup lost \cup {pending.n}
  BY <1>1, <1>2, WriteDoes DEF Base
<1>5. InDated' = InDated /\ OnTheWay' = OnTheWay /\ Numbers(file)' = Numbers(file')
  BY <1>1 DEF InDated, OnTheWay
<1> QED
  BY <1>1, <1>3, <1>4, <1>5, NoneVanishes DEF Everywhere

\* The file that a rename replaces is empty, or one that retention gave up.
LEMMA NothingReplaced ==
  ASSUME DaysApart, Base, DatedInv, pc = "rename", target \notin undeleted
  PROVE  Numbers(dated[target]) = {}
<1>1. target \in Day /\ hour \in Hours /\ hour \in 0..DayLength - 1
  BY HourRange DEF Base, TypeOK
<1>2. CASE dated[target] = NoFile \/ dated[target] = <<>>
  BY <1>2, NumbersOfNone
<1>3. ASSUME NEW l \in Nat, CameFrom(target, l) PROVE FALSE
  <2>1. PICK k \in Nat \ {0} : fileTime = Timestamp(k, hour)
    BY DEF Base, TimesInv
  <2>2. target = CalcLogFile(Timestamp(k, hour))
    BY <2>1 DEF Base, StampsInv
  <2>3. target = CalcLogFile(Timestamp(l, hour)) /\ Timestamp(l, hour) < Timestamp(k, hour)
    BY <1>3, <2>1 DEF CameFrom
  <2>4. l < k
    BY <1>1, <2>3, RotationsApart
  <2> QED
    BY <1>1, <2>2, <2>3, <2>4 DEF DaysApart
<1> QED
  BY <1>1, <1>2, <1>3 DEF DatedInv

LEMMA RenameVanishes == ASSUME DaysApart, Base, DatedInv, NoLogVanishes, Rename PROVE NoLogVanishes'
<1>1. pc = "rename" /\ UNCHANGED <<inbox, pending, count, lost>>
  BY DEF Rename
<1>2. OnTheWay' = OnTheWay /\ Waiting' = Waiting
  BY <1>1 DEF OnTheWay, Waiting
<1>3. CASE UNCHANGED <<disk, retired>>
  <2>1. InDated' = InDated /\ Numbers(file)' = Numbers(file)
    BY <1>3 DEF InDated, disk
  <2> QED
    BY <1>1, <1>2, <1>3, <2>1, NoneVanishes DEF Everywhere
<1>4. CASE /\ dated' = [dated EXCEPT ![target] = file] /\ file' = NoFile
           /\ retired' = IF target \in undeleted THEN retired \cup Numbers(dated[target]) ELSE retired
  <2>1. InDated' \cup Numbers(dated[target]) = InDated \cup Numbers(file)
    BY <1>4, Exchanged DEF Base, TypeOK
  <2>2. retired' = retired \cup Numbers(dated[target])
    <3>1. CASE target \in undeleted
      BY <1>4, <3>1
    <3>2. CASE target \notin undeleted
      BY <1>1, <1>4, <3>2, NothingReplaced
    <3> QED
      BY <3>1, <3>2
  <2>3. Numbers(file)' = {}
    BY <1>4, NumbersOfNone
  <2> QED
    BY <1>1, <1>2, <2>1, <2>2, <2>3, NoneVanishes DEF Everywhere
<1> QED
  BY <1>3, <1>4 DEF Rename

LEMMA ReopenVanishes == ASSUME Base, NoLogVanishes, Reopen PROVE NoLogVanishes'
<1>1. UNCHANGED <<inbox, pending, dated, count, lost, retired>>
  BY DEF Reopen, history
<1>2. file' = file \/ (file = NoFile /\ file' = <<>>)
  BY DEF Reopen, Base, StreamInv
<1>3. Numbers(file)' = Numbers(file)
  BY <1>2, NumbersOfNone
<1>4. InDated' = InDated /\ OnTheWay' = OnTheWay /\ Waiting' = Waiting
  BY <1>1 DEF InDated, OnTheWay, Waiting
<1> QED
  BY <1>1, <1>3, <1>4, NoneVanishes DEF Everywhere

LEMMA DeleteVanishes == ASSUME Base, NoLogVanishes, DeleteOldest PROVE NoLogVanishes'
<1> DEFINE d == Head(fileQue)
<1>1. /\ UNCHANGED <<inbox, pending, count, lost, file>>
      /\ retired' = retired \cup Numbers(dated[d])
      /\ dated' = [dated EXCEPT ![d] = NoFile] \/ UNCHANGED dated
  BY DEF DeleteOldest, control
<1>2. d \in Day
  <2>1. Len(fileQue) \in Nat /\ maxFiles \in Nat /\ Len(fileQue) > maxFiles
    BY DailyAssumption DEF DeleteOldest, Base, TypeOK
  <2>2. fileQue # <<>>
    BY <2>1
  <2> QED
    BY <2>2 DEF Base, TypeOK
<1> HIDE DEF d
<1>3. InDated' \cup Numbers(dated[d]) = InDated
  <2>1. CASE dated' = [dated EXCEPT ![d] = NoFile]
    <3>1. InDated' \cup Numbers(dated[d]) = InDated \cup Numbers(NoFile)
      BY <1>2, <2>1, Exchanged DEF Base
    <3> QED
      BY <3>1, NumbersOfNone
  <2>2. CASE UNCHANGED dated
    <3>1. InDated' = InDated /\ Numbers(dated[d]) \subseteq InDated
      BY <1>2, <2>2 DEF InDated
    <3> QED
      BY <3>1
  <2> QED
    BY <1>1, <2>1, <2>2
<1>4. OnTheWay' = OnTheWay /\ Waiting' = Waiting /\ Numbers(file)' = Numbers(file)
  BY <1>1 DEF OnTheWay, Waiting
<1> QED
  BY <1>1, <1>3, <1>4, NoneVanishes DEF Everywhere

LEMMA CrashVanishes == ASSUME Base, NoLogVanishes, Crash PROVE NoLogVanishes'
<1>1. /\ pending' = NoLog /\ inbox' = {} /\ UNCHANGED <<dated, count, retired>>
      /\ lost' = lost \cup (Numbers(file) \ Numbers(file')) \cup OnTheWay \cup Waiting
  BY DEF Crash, OnTheWay, Waiting
<1>2. OnTheWay' = {} /\ Waiting' = {} /\ InDated' = InDated /\ Numbers(file)' = Numbers(file')
  BY <1>1 DEF OnTheWay, Waiting, InDated
<1>3. Numbers(file') \subseteq Numbers(file)
  <2>1. CASE file' = NoFile
    BY <2>1, NumbersOfNone
  <2>2. CASE file' # NoFile
    <3>1. file # NoFile /\ DOMAIN file' \subseteq DOMAIN file /\ \A i \in DOMAIN file' : file'[i] = file[i]
      BY <2>2, CrashLeaves DEF Base
    <3> QED
      BY <2>2, <3>1 DEF Numbers
  <2> QED
    BY <2>1, <2>2
<1> QED
  BY <1>1, <1>2, <1>3, NoneVanishes DEF Everywhere

LEMMA StartVanishes ==
  ASSUME Base, NoLogVanishes, NEW n \in Retained, NEW overwrite \in BOOLEAN, Start(n, overwrite)
  PROVE  NoLogVanishes'
<1>1. /\ UNCHANGED <<inbox, pending, dated, count, lost>>
      /\ file' = IF overwrite \/ file = NoFile THEN <<>> ELSE file
      /\ retired' = IF overwrite THEN retired \cup Numbers(file) ELSE retired
  BY DEF Start, Open
<1>2. Numbers(file') \cup retired' = Numbers(file) \cup retired
  <2>1. CASE overwrite
    BY <1>1, <2>1, NumbersOfNone
  <2>2. CASE ~ overwrite /\ file = NoFile
    BY <1>1, <2>2, NumbersOfNone
  <2>3. CASE ~ overwrite /\ file # NoFile
    BY <1>1, <2>3
  <2> QED
    BY <2>1, <2>2, <2>3
<1>3. InDated' = InDated /\ OnTheWay' = OnTheWay /\ Waiting' = Waiting /\ Numbers(file)' = Numbers(file')
  BY <1>1 DEF InDated, OnTheWay, Waiting
<1> QED
  BY <1>1, <1>2, <1>3, NoneVanishes DEF Everywhere

LEMMA StepVanishes == ASSUME DaysApart, Base, DatedInv, NoLogVanishes, [Next]_vars PROVE NoLogVanishes'
<1>1. Step \/ UNCHANGED vars
  BY Steps DEF Base
<1>2. CASE Tick \/ Flush \/ (\E n \in Retained : SetMaxFiles(n)) \/ UNCHANGED vars
  <2>1. UNCHANGED <<inbox, pending, file, dated, count, lost, retired>>
    BY <1>2 DEF Tick, Flush, SetMaxFiles, vars, disk, control, history
  <2> QED
    BY <2>1 DEF NoLogVanishes
<1> QED
  BY <1>1, <1>2, StampVanishes, BeginVanishes, WriteVanishes, RenameVanishes, ReopenVanishes, DeleteVanishes,
     EndVanishes, CrashVanishes, StartVanishes DEF Step

\* Every log made is on its way, in a file, in a file that was given up, or lost
\* in a way the program knows of, provided that no two rotations fall on the same
\* day: two do when the hour of rotation is the last of the day and summer ends
\* between them.
THEOREM NothingVanishes == ASSUME DaysApart PROVE Spec => []NoLogVanishes
<1>1. Init => Base /\ DatedInv /\ NoLogVanishes
  BY InitBase, InitDated, InitVanishes
<1>2. (Base /\ DatedInv /\ NoLogVanishes) /\ [Next]_vars => (Base /\ DatedInv /\ NoLogVanishes)'
  BY StepBase, StepDated, StepVanishes
<1> QED
  BY <1>1, <1>2, PTL DEF Spec

\* So it holds for every hour of rotation but the last.
THEOREM EarlyHoursSuffice == ASSUME \A h \in Hours : h + 1 < DayLength PROVE Spec => []NoLogVanishes
BY EarlyHoursApart, NothingVanishes
==============================================================================
