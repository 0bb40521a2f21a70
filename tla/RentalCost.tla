----------------------------- MODULE RentalCost -----------------------------
(***************************************************************************)
(* What a rental costs: CalculateDays, CalculateTotalCost and              *)
(* RecalculateCost, as RentalService::CreateRental calls them.             *)
(*                                                                         *)
(* A time point of system_clock is a signed tick count, here counted from  *)
(* the earliest one.  The difference of two time points is a signed tick   *)
(* count as well: it wraps around when it leaves the range, as it does in  *)
(* the builds of the project (x86-64, no overflow trap).  Rates are whole  *)
(* numbers: the double product is exact for them.                          *)
(***************************************************************************)
EXTENDS Integers

CONSTANTS HalfRange,    \* half the number of tick counts (2^63 in the build)
          TicksPerHour,
          Instants,     \* BOUND: time points a request may name
          Rates         \* BOUND: daily rates of cars

VARIABLE rental         \* the rental that was created last

ASSUME CostAssumptions ==
    /\ HalfRange \in Nat \ {0}
    /\ TicksPerHour \in Nat \ {0}
    /\ Instants \subseteq 0..(2 * HalfRange - 1)
    /\ Rates \subseteq Nat

HoursPerDay == 24

\* Signed arithmetic on tick counts.
Wrap(x) == ((x + HalfRange) % (2 * HalfRange)) - HalfRange

\* C++ integer division, and duration_cast: the fraction is dropped.
TruncDiv(a, b) == IF a >= 0 THEN a \div b ELSE -((-a) \div b)

DurationHours(start, end) == TruncDiv(Wrap(end - start), TicksPerHour)

\* Mutant: one hour too many is added before the division.
CalculateDaysOffByOne(start, end) ==
    TruncDiv(DurationHours(start, end) + HoursPerDay, HoursPerDay)

\* Mutant: only full days count.
CalculateFullDays(start, end) == TruncDiv(DurationHours(start, end), HoursPerDay)

CalculateDays(start, end) ==
    TruncDiv(DurationHours(start, end) + HoursPerDay - 1, HoursPerDay)

\* Mutant: the price of a day is paid off after a week.
CalculateTotalCostDiscounted(daily_rate, days) ==
    IF days > 3 THEN 2 * daily_rate ELSE daily_rate * days

CalculateTotalCost(daily_rate, days) == daily_rate * days

\* Mutant: every cost is taken over.
RecalculateAnyCost(total_cost, new_cost) == new_cost

\* A rental is created with cost 0 and keeps it when the new cost is negative.
RecalculateCost(total_cost, new_cost) ==
    IF new_cost >= 0 THEN new_cost ELSE total_cost

Cost(daily_rate, start, end) ==
    RecalculateCost(0, CalculateTotalCost(daily_rate, CalculateDays(start, end)))

\* CreateRental for a valid period.
Priced(start, end, rate) ==
    [start |-> start, end |-> end, rate |-> rate, total_cost |-> Cost(rate, start, end)]

CreateRental ==
    \E start, end \in Instants, rate \in Rates :
        start < end /\ rental' = Priced(start, end, rate)

Init ==
    \E start, end \in Instants, rate \in Rates :
        start < end /\ rental = Priced(start, end, rate)

Spec == Init /\ [][CreateRental]_rental

-----------------------------------------------------------------------------

HourTicks == TicksPerHour
DayTicks == HoursPerDay * TicksPerHour

Duration(r) == r.end - r.start

\* The length of the period is a tick count itself (in the build: 292 years).
InRange(r) == Duration(r) < HalfRange

\* The collection's schema requires total_cost >= 0: also a period whose length
\* overflows is stored with a cost that passes.
CostIsNonNegative == rental.total_cost >= 0

\* All rented time is charged, except for the last fraction of an hour that the
\* cast to hours drops (rental_service.cpp:19-21).
RentedTimeIsCharged ==
    InRange(rental) =>
        rental.rate * Duration(rental) <=
            rental.total_cost * DayTicks + rental.rate * (HourTicks - 1)

\* No day is charged that the rental does not reach into.
OnlyStartedDaysAreCharged ==
    InRange(rental) /\ rental.rate > 0 =>
        rental.total_cost * DayTicks < rental.rate * (Duration(rental) + DayTicks)

\* A period that contains another one never costs less, at the same rate.
LongerIsNotCheaper ==
    [][ /\ rental'.start <= rental.start /\ rental.end <= rental'.end
        /\ rental'.rate = rental.rate
        /\ InRange(rental')
        => rental.total_cost <= rental'.total_cost ]_rental
=============================================================================
