------------------------------ MODULE ValueText -----------------------------
(***************************************************************************)
(* The text of dates, timestamps, intervals and decimals                   *)
(* (src/src/types/conversion.rs) and the CSV formatters and array builders *)
(* that use it.  A text is the record of its parts, with digits where      *)
(* their number matters.  Every step of a thousand (second, millisecond,   *)
(* microsecond, nanosecond) is a step of Step, so that the arithmetic      *)
(* stays within TLC's integers.                                            *)
(***************************************************************************)
EXTENDS Integers, SequencesExt

CONSTANTS
  Step,         \* 1000 in the code: units of one second in the next
  UnitDigits,   \* digits of a step, 3 in the code: Step = 10^UnitDigits
  MaxInt        \* i64::MAX: larger products are refused

ASSUME ValueTextAssumption == Step = 10 ^ UnitDigits /\ MaxInt \in Nat

Err == 0 - 2000000000   \* stands for the error of a conversion to a number

Abs(n) == IF n < 0 THEN 0 - n ELSE n

Checked(n) == IF Abs(n) > MaxInt THEN Err ELSE n

\* The digits of a natural number, at least width of them.
Digits(n, width) ==
  LET need == CHOOSE k \in 1 .. 12 : n < 10 ^ k /\ \A j \in 1 .. k - 1 : n >= 10 ^ j
      len  == IF need < width THEN width ELSE need IN
  [i \in 1 .. len |-> IF len - i > 9 THEN 0 ELSE (n \div 10 ^ (len - i)) % 10]

Number(digits) == FoldLeft(LAMBDA acc, c : 10 * acc + c, 0, digits)

-----------------------------------------------------------------------------
(* Dates                                                                   *)

MonthStart == <<0, 31, 59, 90, 120, 151, 181, 212, 243, 273, 304, 334>>

LeapYear(year) == (year % 4 = 0 /\ year % 100 # 0) \/ year % 400 = 0

\* ymd_to_days: days since 1970-01-01.
YmdToDays(year, month, day) ==
  (year - 1970) * 365 + (year - 1969) \div 4 - (year - 1901) \div 100 + (year - 1601) \div 400
    + MonthStart[month] + day - 1 + (IF month > 2 /\ LeapYear(year) THEN 1 ELSE 0)

\* parse_date_to_days: three parts, and the ranges of month and day only.
ParseDateToDays(parts) ==
  IF Len(parts) # 3 \/ parts[2] \notin 1 .. 12 \/ parts[3] \notin 1 .. 31 THEN Err
  ELSE YmdToDays(parts[1], parts[2], parts[3])

DaysIn(year, month) ==
  CASE month = 2 -> (IF LeapYear(year) THEN 29 ELSE 28) [] month \in {4, 6, 9, 11} -> 30 [] OTHER -> 31

\* chrono's calendar: the number of a date, counted from 0001-01-01 as 1.
DayOfCE(year, month, day) ==
  (year - 1) * 365 + (year - 1) \div 4 - (year - 1) \div 100 + (year - 1) \div 400
    + FoldLeft(+, 0, [m \in 1 .. month - 1 |-> DaysIn(year, m)]) + day

DaysFromCEToEpoch == 719163

ExasolYears == 1 .. 9999

\* format_date32: the calendar date of a day; <<>> outside 0001 to 9999.
FormatDate32(days) ==
  LET ce    == days + DaysFromCEToEpoch
      years == {y \in (ce \div 365) - 8 .. (ce \div 365) + 1 :
                  y \in ExasolYears /\ DayOfCE(y, 1, 1) <= ce /\ ce <= DayOfCE(y, 12, 31)} IN
  IF years = {} THEN <<>>
  ELSE LET y == CHOOSE x \in years : TRUE
           m == CHOOSE x \in 1 .. 12 : DayOfCE(y, x, 1) <= ce /\ ce <= DayOfCE(y, x, DaysIn(y, x))
       IN <<y, m, ce - DayOfCE(y, m, 1) + 1>>

\* format_date64 floors to the day that holds the instant.
FormatDate64(milliseconds, perDay) == FormatDate32(milliseconds \div perDay)

-----------------------------------------------------------------------------
(* Timestamps                                                              *)

MicrosPerSecond == Step * Step
MicroDigits     == 2 * UnitDigits
NanoDigits      == 3 * UnitDigits

\* Mutant: nanoseconds are cut towards zero.
UnitToMicros_Truncates(unit, value) ==
  CASE unit = "second"      -> Checked(value * MicrosPerSecond)
    [] unit = "millisecond" -> Checked(value * Step)
    [] unit = "microsecond" -> value
    [] unit = "nanosecond"  -> IF value < 0 THEN 0 - ((0 - value) \div Step) ELSE value \div Step

\* timestamp_unit_to_micros.
UnitToMicros(unit, value) ==
  CASE unit = "second"      -> Checked(value * MicrosPerSecond)
    [] unit = "millisecond" -> Checked(value * Step)
    [] unit = "microsecond" -> value
    [] unit = "nanosecond"  -> value \div Step

\* format_timestamp: date and time of day, with all digits of a microsecond.
FormatTimestamp(unit, value) ==
  LET micros == UnitToMicros(unit, value)
      days   == micros \div (86400 * MicrosPerSecond)
      second == (micros \div MicrosPerSecond) % 86400
      date   == FormatDate32(days) IN
  IF micros = Err \/ date = <<>> THEN [date |-> <<>>, time |-> <<>>, fraction |-> <<>>]
  ELSE [date |-> date, time |-> <<second \div 3600, (second \div 60) % 60, second % 60>>,
        fraction |-> Digits(micros % MicrosPerSecond, MicroDigits)]

\* fractional_seconds_to_units: more digits are cut, missing ones are zeros.
FractionToUnits(fraction, unitDigits) ==
  IF Len(fraction) > unitDigits THEN Number(SubSeq(fraction, 1, unitDigits))
  ELSE Number(fraction) * 10 ^ (unitDigits - Len(fraction))

\* parse_timestamp_to_micros: a time of fewer than two parts counts as midnight.
ParseTimestampToMicros(text) ==
  LET days  == ParseDateToDays(text.date)
      parts == text.time IN
  IF days = Err THEN Err
  ELSE days * 86400 * MicrosPerSecond
       + (IF Len(parts) < 2 THEN 0
          ELSE (parts[1] * 3600 + parts[2] * 60) * MicrosPerSecond
               + (IF Len(parts) < 3 THEN 0
                  ELSE parts[3] * MicrosPerSecond + FractionToUnits(text.fraction, MicroDigits)))

\* parse_timestamp_text and ymd_hms_nanos_to_micros: a parameter of a prepared
\* statement goes over the wire as its fields, with nanoseconds.
WireMicros(text) ==
  LET part(i) == IF i <= Len(text.time) THEN text.time[i] ELSE 0
      nanos   == IF Len(text.time) < 3 THEN 0 ELSE Number(text.fraction) * 10 ^ (NanoDigits - Len(text.fraction)) IN
  YmdToDays(text.date[1], text.date[2], text.date[3]) * 86400 * MicrosPerSecond
    + (part(1) * 3600 + part(2) * 60 + part(3)) * MicrosPerSecond + nanos \div Step

-----------------------------------------------------------------------------
(* Intervals                                                               *)

\* format_interval_year_to_month, parse_interval_months.
FormatYearToMonth(months) ==
  [sign |-> IF months < 0 THEN "-" ELSE "", years |-> Abs(months) \div 12, months |-> Abs(months) % 12]

ParseMonths(text) ==
  LET magnitude == text.years * 12 + text.months IN IF text.sign = "-" THEN 0 - magnitude ELSE magnitude

MillisPerDay == 86400 * Step

\* format_interval_day_to_second: one sign for the whole; at most maxDays days.
FormatDayToSecond(days, milliseconds, maxDays) ==
  LET total == Checked(days * MillisPerDay + milliseconds)
      time  == Abs(total) % MillisPerDay IN
  IF total = Err \/ Abs(total) \div MillisPerDay > maxDays
    THEN [sign |-> "error", days |-> 0, time |-> <<0, 0, 0>>, fraction |-> <<>>]
    ELSE [sign |-> IF total < 0 THEN "-" ELSE "", days |-> Abs(total) \div MillisPerDay,
          time |-> <<time \div (3600 * Step), (time \div (60 * Step)) % 60, (time \div Step) % 60>>,
          fraction |-> Digits(time % Step, UnitDigits)]

\* parse_interval: days and nanoseconds, both with the sign of the text.
ParseDayToNanos(text) ==
  LET nanos == (text.time[1] * 3600 + text.time[2] * 60 + text.time[3]) * Step * Step * Step
                 + FractionToUnits(text.fraction, NanoDigits) IN
  IF text.sign = "-" THEN <<0 - text.days, 0 - nanos>> ELSE <<text.days, nanos>>

\* format_interval_month_day_nano: neither months nor parts of a millisecond.
FormatMonthDayNano(months, days, nanos, maxDays) ==
  IF months # 0 \/ nanos % (Step * Step) # 0
    THEN [sign |-> "error", days |-> 0, time |-> <<0, 0, 0>>, fraction |-> <<>>]
    ELSE FormatDayToSecond(days, nanos \div (Step * Step), maxDays)

-----------------------------------------------------------------------------
(* Decimals                                                                *)

\* format_decimal_text: the point is placed in the digits, after zeros if needed;
\* a negative scale appends zeros.
FormatDecimalText(unscaled, scale) ==
  LET sign   == IF unscaled < 0 THEN "-" ELSE ""
      digits == Digits(Abs(unscaled), scale + 1) IN
  IF scale <= 0 THEN [sign |-> sign, whole |-> Digits(Abs(unscaled), 1) \o [i \in 1 .. (0 - scale) |-> 0], fraction |-> <<>>]
  ELSE [sign |-> sign, whole |-> SubSeq(digits, 1, Len(digits) - scale),
        fraction |-> SubSeq(digits, Len(digits) - scale + 1, Len(digits))]

\* parse_decimal_to_i128: the sign is read from the text, because "-0" is zero.
\* Digits beyond the scale are cut; with scale 0 a fraction is an error.
ParseDecimal(text, scale) ==
  LET whole == (IF text.sign = "-" THEN 0 - Number(text.whole) ELSE Number(text.whole)) * 10 ^ scale
      taken == IF Len(text.fraction) < scale THEN Len(text.fraction) ELSE scale
      part  == Number(SubSeq(text.fraction, 1, taken)) * 10 ^ (scale - taken) IN
  CASE text.fraction = <<>>               -> whole
    [] text.fraction # <<>> /\ taken = 0  -> Err
    [] text.fraction # <<>> /\ taken > 0  -> IF text.sign = "-" THEN whole - part ELSE whole + part
=============================================================================
