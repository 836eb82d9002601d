------------------------------ MODULE CivilDate ------------------------------
(* Calendar arithmetic of the office: dates are <<year, month, day>>, days   *)
(* are counted from 1970-01-01 by the shifted year that starts in March, and *)
(* dates are compared as the text the database stores.                       *)
EXTENDS Integers

\* Division and remainder of Rust round towards zero.
Quotient(a, b) == IF a >= 0 THEN a \div b ELSE -((-a) \div b)
Remainder(a, b) == a - b * Quotient(a, b)

IsLeap(year) == year % 4 = 0 /\ (year % 100 # 0 \/ year % 400 = 0)

DaysInMonth(year, month) ==
  CASE month = 2 -> IF IsLeap(year) THEN 29 ELSE 28
    [] month \in {4, 6, 9, 11} -> 30
    [] OTHER -> 31

IsDate(date) == date[2] \in 1..12 /\ date[3] \in 1..DaysInMonth(date[1], date[2])

DaysPerEra == 146097
DaysFromEpochToMarch == 719468

EraOf(n, length) == Quotient(IF n >= 0 THEN n ELSE n - length + 1, length)

\* Mutant: every fourth year of an era is a leap year.
DayOfEveryFourth(yearOfEra, dayOfYear) == yearOfEra * 365 + yearOfEra \div 4 + dayOfYear

DayOfEra(yearOfEra, dayOfYear) ==
  yearOfEra * 365 + yearOfEra \div 4 - yearOfEra \div 100 + dayOfYear

DaysFromEpoch(date) ==
  LET year == IF date[2] <= 2 THEN date[1] - 1 ELSE date[1]
      era == EraOf(year, 400)
      month == date[2] + (IF date[2] > 2 THEN -3 ELSE 9)
      dayOfYear == (153 * month + 2) \div 5 + date[3] - 1
  IN era * DaysPerEra + DayOfEra(year - era * 400, dayOfYear) - DaysFromEpochToMarch

\* Of a day of an era: its year from March on, and the day of that year.
YearInEra(day) == (day - day \div 1460 + day \div 36524 - day \div 146096) \div 365
DayInYear(day, year) == day - (365 * year + year \div 4 - year \div 100)
MonthInYear(dayOfYear) == (5 * dayOfYear + 2) \div 153

FromDaysSinceEpoch(days) ==
  LET shifted == days + DaysFromEpochToMarch
      era == EraOf(shifted, DaysPerEra)
      day == shifted - era * DaysPerEra
      year == YearInEra(day)
      dayOfYear == DayInYear(day, year)
      month == MonthInYear(dayOfYear)
      civil == IF month < 10 THEN month + 3 ELSE month - 9
  IN <<year + era * 400 + (IF civil <= 2 THEN 1 ELSE 0), civil,
       dayOfYear - (153 * month + 2) \div 5 + 1>>

AddDays(date, delta) == FromDaysSinceEpoch(DaysFromEpoch(date) + delta)
DaysUntil(date, other) == DaysFromEpoch(other) - DaysFromEpoch(date)

\* Sunday is 0; 1970-01-01 was a Thursday.
Weekday(date) == Remainder(Remainder(DaysFromEpoch(date), 7) + 11, 7)
DaysSinceMonday(date) == IF Weekday(date) = 0 THEN 6 ELSE Weekday(date) - 1

WeekStart(date) == AddDays(date, -DaysSinceMonday(date))
WeekEnd(date) == AddDays(WeekStart(date), 6)

\* YYYY-MM-DD as text: a fifth digit of the year stands where the dash would.
Text(date) ==
  IF date[1] <= 9999 THEN <<date[1], 0, date[2], date[3]>>
  ELSE <<date[1] \div 10, 1 + (date[1] % 10), date[2], date[3]>>

Before(a, b) == \E i \in DOMAIN a : a[i] < b[i] /\ \A j \in 1..(i - 1) : a[j] = b[j]
TextBefore(date, other) == Before(Text(date), Text(other))
=============================================================================
