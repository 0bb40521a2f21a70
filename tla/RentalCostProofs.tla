-------------------------- MODULE RentalCostProofs --------------------------
(***************************************************************************)
(* What the run of RentalCost checks on a small clock, for every clock,    *)
(* every set of time points and every set of rates.                        *)
(***************************************************************************)
EXTENDS RentalCost, TLAPS

\* The rental is one that CreateRental has priced.
IsPriced ==
    \E start, end \in Instants, rate \in Rates :
        start < end /\ rental = Priced(start, end, rate)

-----------------------------------------------------------------------------
(* Arithmetic.                                                             *)

\* The quotient of a division with remainder.
LEMMA Quotient ==
    ASSUME NEW a \in Nat, NEW b \in Nat \ {0}
    PROVE  /\ a \div b \in Nat
           /\ b * (a \div b) <= a
           /\ a < b * (a \div b) + b
    OBVIOUS

\* A larger dividend has no smaller quotient.
LEMMA QuotientMonotone ==
    ASSUME NEW a \in Nat, NEW c \in Nat, NEW b \in Nat \ {0}, a <= c
    PROVE  a \div b <= c \div b
<1> DEFINE p == a \div b
           q == c \div b
<1>1. p \in Nat /\ b * p <= a BY Quotient
<1>2. q \in Nat /\ c < b * q + b BY Quotient
<1> HIDE DEF p, q
<1>3. b * p < b * (q + 1) BY <1>1, <1>2
<1>4. p < q + 1
    <2>1. SUFFICES ASSUME q + 1 <= p PROVE FALSE BY <1>1, <1>2
    <2>2. b * (q + 1) <= b * p BY <1>1, <1>2, <2>1
    <2>3. QED BY <1>1, <1>2, <1>3, <2>2
<1>5. p <= q BY <1>1, <1>2, <1>4
<1>6. QED BY <1>5 DEF p, q

\* A larger factor has no smaller product.
LEMMA TimesMonotone ==
    ASSUME NEW a \in Int, NEW b \in Int, NEW c \in Nat, a <= b
    PROVE  c * a <= c * b
    OBVIOUS

\* A larger factor has a larger product, but with zero.
LEMMA TimesStrict ==
    ASSUME NEW a \in Int, NEW b \in Int, NEW c \in Nat \ {0}, a < b
    PROVE  c * a < c * b
    OBVIOUS

-----------------------------------------------------------------------------
(* The days of a period.                                                   *)

\* A length in range does not wrap: hours and days are those of the length.
LEMMA DaysInRange ==
    ASSUME NEW start \in Instants, NEW end \in Instants,
           start < end, end - start < HalfRange
    PROVE  /\ end - start \in Nat
           /\ DurationHours(start, end) = (end - start) \div TicksPerHour
           /\ CalculateDays(start, end) =
                  (((end - start) \div TicksPerHour) + 23) \div 24
<1> USE CostAssumptions
<1> DEFINE d == end - start
<1>1. d \in Nat /\ d < HalfRange /\ HalfRange \in Nat BY CostAssumptions
<1>2. (d + HalfRange) % (2 * HalfRange) = d + HalfRange BY <1>1
<1>3. Wrap(d) = d BY <1>1, <1>2 DEF Wrap
<1>4. DurationHours(start, end) = d \div TicksPerHour
    BY <1>1, <1>3 DEF DurationHours, TruncDiv
<1>5. d \div TicksPerHour \in Nat BY <1>1, Quotient
<1>6. CalculateDays(start, end) = ((d \div TicksPerHour) + 23) \div 24
    BY <1>4, <1>5 DEF CalculateDays, TruncDiv, HoursPerDay
<1>7. QED BY <1>1, <1>4, <1>6

\* The days charged for a period cover it but for less than an hour, and end
\* less than a day after it.
LEMMA DaysCoverPeriod ==
    ASSUME NEW start \in Instants, NEW end \in Instants,
           start < end, end - start < HalfRange
    PROVE  /\ CalculateDays(start, end) \in Nat
           /\ end - start <= CalculateDays(start, end) * DayTicks + (HourTicks - 1)
           /\ CalculateDays(start, end) * DayTicks < (end - start) + DayTicks
<1> DEFINE d == end - start
           h == d \div TicksPerHour
           n == (h + 23) \div 24
<1>1. TicksPerHour \in Nat \ {0} /\ d \in Nat BY CostAssumptions, DaysInRange
<1>2. h \in Nat /\ TicksPerHour * h <= d /\ d < TicksPerHour * h + TicksPerHour
    BY <1>1, Quotient
<1> HIDE DEF h
<1>3. n \in Nat /\ 24 * n <= h + 23 /\ h + 23 < 24 * n + 24
    <2>1. h + 23 \in Nat BY <1>2
    <2>2. 24 \in Nat \ {0} OBVIOUS
    <2>3. QED BY <2>1, <2>2, Quotient
<1>4. CalculateDays(start, end) = n BY DaysInRange DEF h
<1>5. DayTicks = TicksPerHour * 24 /\ HourTicks = TicksPerHour
    BY <1>1 DEF DayTicks, HourTicks, HoursPerDay
<1> HIDE DEF n, d
<1>6. h <= 24 * n BY <1>2, <1>3
<1>7. TicksPerHour * h <= TicksPerHour * (24 * n) BY <1>1, <1>2, <1>3, <1>6, TimesMonotone
<1>8. TicksPerHour * (24 * n) <= TicksPerHour * (h + 23)
    BY <1>1, <1>2, <1>3, TimesMonotone
<1>9. n * DayTicks = TicksPerHour * (24 * n) BY <1>1, <1>3, <1>5
<1>10. TicksPerHour * (h + 23) = TicksPerHour * h + 23 * TicksPerHour BY <1>1, <1>2
<1>11. TicksPerHour * h \in Nat /\ n * DayTicks \in Nat BY <1>1, <1>2, <1>3, <1>5
<1>12. d <= n * DayTicks + (HourTicks - 1) BY <1>1, <1>2, <1>5, <1>7, <1>9, <1>11
<1>13. n * DayTicks < d + DayTicks BY <1>1, <1>2, <1>5, <1>8, <1>9, <1>10, <1>11
<1>14. QED BY <1>3, <1>4, <1>12, <1>13 DEF d

\* What a period in range costs.
LEMMA CostInRange ==
    ASSUME NEW start \in Instants, NEW end \in Instants, NEW rate \in Rates,
           start < end, end - start < HalfRange
    PROVE  Cost(rate, start, end) = rate * CalculateDays(start, end)
<1>1. rate \in Nat BY CostAssumptions
<1>2. CalculateDays(start, end) \in Nat BY DaysCoverPeriod
<1>3. rate * CalculateDays(start, end) >= 0 BY <1>1, <1>2
<1>4. QED BY <1>3 DEF Cost, CalculateTotalCost, RecalculateCost

-----------------------------------------------------------------------------
(* The theorems.                                                           *)

\* Every stored rental is priced as CalculateTotalCost says.
LEMMA AlwaysPriced == Spec => []IsPriced
<1>1. Init => IsPriced BY DEF Init, IsPriced
<1>2. IsPriced /\ [CreateRental]_rental => IsPriced' BY DEF IsPriced, CreateRental
<1>3. QED BY <1>1, <1>2, PTL DEF Spec

\* No stored cost is negative, also where the length of the period wraps around.
THEOREM CostNeverNegative == Spec => []CostIsNonNegative
<1>1. IsPriced => CostIsNonNegative
    <2>1. SUFFICES ASSUME NEW start \in Instants, NEW end \in Instants, NEW rate \in Rates,
                          rental = Priced(start, end, rate)
                   PROVE  rental.total_cost >= 0
        BY DEF IsPriced, CostIsNonNegative
    <2>2. rental.total_cost = Cost(rate, start, end) BY <2>1 DEF Priced
    <2>3. Cost(rate, start, end) >= 0 BY DEF Cost, RecalculateCost
    <2>4. QED BY <2>2, <2>3
<1>2. QED BY <1>1, AlwaysPriced, PTL

\* Nobody drives for free longer than the fraction of an hour the cast drops.
THEOREM AllRentedTimeCharged == Spec => []RentedTimeIsCharged
<1>1. IsPriced => RentedTimeIsCharged
    <2>1. SUFFICES ASSUME NEW start \in Instants, NEW end \in Instants, NEW rate \in Rates,
                          start < end, rental = Priced(start, end, rate), InRange(rental)
                   PROVE  rental.rate * Duration(rental) <=
                              rental.total_cost * DayTicks + rental.rate * (HourTicks - 1)
        BY DEF IsPriced, RentedTimeIsCharged
    <2> DEFINE d == end - start
               n == CalculateDays(start, end)
    <2>2. /\ rental.rate = rate /\ Duration(rental) = d
          /\ rental.total_cost = Cost(rate, start, end)
        BY <2>1 DEF Priced, Duration
    <2>3. d < HalfRange BY <2>1, <2>2 DEF InRange
    <2>4. rental.total_cost = rate * n BY <2>1, <2>2, <2>3, CostInRange
    <2>5. n \in Nat /\ d <= n * DayTicks + (HourTicks - 1) BY <2>1, <2>3, DaysCoverPeriod
    <2>6. rate \in Nat /\ d \in Nat /\ DayTicks \in Nat /\ HourTicks \in Nat
        BY <2>1, <2>3, DaysInRange, CostAssumptions DEF DayTicks, HourTicks, HoursPerDay
    <2> HIDE DEF n, d
    <2>7. rate * d <= rate * (n * DayTicks + (HourTicks - 1))
        BY <2>5, <2>6, TimesMonotone
    <2>8. rate * (n * DayTicks + (HourTicks - 1)) = rate * n * DayTicks + rate * (HourTicks - 1)
        BY <2>5, <2>6
    <2>9. QED BY <2>2, <2>4, <2>7, <2>8
<1>2. QED BY <1>1, AlwaysPriced, PTL

\* No client pays for a day that the rental does not reach into.
THEOREM NoIdleDayCharged == Spec => []OnlyStartedDaysAreCharged
<1>1. IsPriced => OnlyStartedDaysAreCharged
    <2>1. SUFFICES ASSUME NEW start \in Instants, NEW end \in Instants, NEW rate \in Rates,
                          start < end, rental = Priced(start, end, rate),
                          InRange(rental), rental.rate > 0
                   PROVE  rental.total_cost * DayTicks <
                              rental.rate * (Duration(rental) + DayTicks)
        BY DEF IsPriced, OnlyStartedDaysAreCharged
    <2> DEFINE d == end - start
               n == CalculateDays(start, end)
    <2>2. /\ rental.rate = rate /\ Duration(rental) = d
          /\ rental.total_cost = Cost(rate, start, end)
        BY <2>1 DEF Priced, Duration
    <2>3. d < HalfRange BY <2>1, <2>2 DEF InRange
    <2>4. rental.total_cost = rate * n BY <2>1, <2>2, <2>3, CostInRange
    <2>5. n \in Nat /\ n * DayTicks < d + DayTicks BY <2>1, <2>3, DaysCoverPeriod
    <2>6. rate \in Nat \ {0} /\ d \in Nat /\ DayTicks \in Nat
        BY <2>1, <2>2, <2>3, DaysInRange, CostAssumptions DEF DayTicks, HoursPerDay
    <2> HIDE DEF n, d
    <2>7. rate * (n * DayTicks) < rate * (d + DayTicks) BY <2>5, <2>6, TimesStrict
    <2>8. rate * n * DayTicks = rate * (n * DayTicks) BY <2>5, <2>6
    <2>9. QED BY <2>2, <2>4, <2>7, <2>8
<1>2. QED BY <1>1, AlwaysPriced, PTL

\* A longer rental never costs less than a shorter one it contains.
THEOREM CostIsMonotone == Spec => LongerIsNotCheaper
<1> DEFINE Dearer == (/\ rental'.start <= rental.start /\ rental.end <= rental'.end
                      /\ rental'.rate = rental.rate
                      /\ InRange(rental'))
                     => rental.total_cost <= rental'.total_cost
<1>1. IsPriced /\ IsPriced' => Dearer
    <2>1. SUFFICES ASSUME NEW start \in Instants, NEW end \in Instants, NEW rate \in Rates,
                          start < end, rental = Priced(start, end, rate),
                          NEW start1 \in Instants, NEW end1 \in Instants,
                          start1 < end1, rental' = Priced(start1, end1, rate),
                          start1 <= start, end <= end1, end1 - start1 < HalfRange
                   PROVE  rental.total_cost <= rental'.total_cost
        BY DEF IsPriced, Priced, InRange, Duration
    <2> DEFINE h == (end - start) \div TicksPerHour
               h1 == (end1 - start1) \div TicksPerHour
    <2>2. TicksPerHour \in Nat \ {0} /\ Instants \subseteq Nat /\ HalfRange \in Nat /\ rate \in Nat
        BY CostAssumptions
    <2>3. end - start \in Nat /\ end1 - start1 \in Nat /\ end - start <= end1 - start1
        BY <2>1, <2>2
    <2>4. end - start < HalfRange BY <2>1, <2>2, <2>3
    <2>5. h \in Nat /\ h1 \in Nat /\ h <= h1
        BY <2>2, <2>3, Quotient, QuotientMonotone
    <2>6. /\ CalculateDays(start, end) = (h + 23) \div 24
          /\ CalculateDays(start1, end1) = (h1 + 23) \div 24
        BY <2>1, <2>4, DaysInRange
    <2> HIDE DEF h, h1
    <2>7. (h + 23) \div 24 <= (h1 + 23) \div 24
        <3>1. h + 23 \in Nat /\ h1 + 23 \in Nat /\ h + 23 <= h1 + 23 BY <2>5
        <3>2. 24 \in Nat \ {0} OBVIOUS
        <3>3. QED BY <3>1, <3>2, QuotientMonotone
    <2>8. CalculateDays(start, end) \in Nat /\ CalculateDays(start1, end1) \in Nat
        BY <2>1, <2>4, DaysCoverPeriod
    <2>9. rate * CalculateDays(start, end) <= rate * CalculateDays(start1, end1)
        BY <2>2, <2>6, <2>7, <2>8, TimesMonotone
    <2>10. rental.total_cost = rate * CalculateDays(start, end)
        BY <2>1, <2>4, CostInRange DEF Priced
    <2>11. rental'.total_cost = rate * CalculateDays(start1, end1)
        BY <2>1, CostInRange DEF Priced
    <2>12. QED BY <2>9, <2>10, <2>11
<1>2. IsPriced /\ IsPriced' => [Dearer]_rental BY <1>1
<1>3. QED BY <1>2, AlwaysPriced, PTL DEF LongerIsNotCheaper
=============================================================================
