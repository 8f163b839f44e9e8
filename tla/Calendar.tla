------------------------------ MODULE Calendar ------------------------------
(***************************************************************************)
(* Calendar conversion and strftime of time.rs.                            *)
(*                                                                         *)
(* A number of seconds since 1970 is <<days, seconds of the day>>, into    *)
(* which the code splits it at once; the ranges of c_int and time_t are    *)
(* parameters. What strftime writes is a sequence of pieces, each with its *)
(* value and its length in bytes; the wording of the names is left out.    *)
(***************************************************************************)
EXTENDS Integers, Sequences, SequencesExt, FiniteSets

CONSTANTS
  C_INT_MIN, C_INT_MAX,     \* the range of tm_year
  TIME_MIN, TIME_MAX        \* the range of time_t: pairs

SECONDS_PER_DAY == 86400
DAYS_PER_400_YEARS == 146097
DAYS_BEFORE_MONTH == <<0, 31, 59, 90, 120, 151, 181, 212, 243, 273, 304, 334>>

\* Rust's division rounds towards zero, TLA+'s down.
TruncDiv(a, b) == IF a >= 0 THEN a \div b ELSE -((-a) \div b)

CalNone == <<>>     \* None, and what timegm and mktime answer with ERANGE

-----------------------------------------------------------------------------
is_leap_year(year) == (year % 4 = 0 /\ year % 100 # 0) \/ year % 400 = 0

day_of_year(year, month, day) ==
  DAYS_BEFORE_MONTH[month] + day - 1 + IF month > 2 /\ is_leap_year(year) THEN 1 ELSE 0

\* The last day of an era is taken for the first of the next one.
MutCivilFromDays_NoEraEnd(days_since_epoch) ==
  LET shifted == days_since_epoch + 719468
      era == TruncDiv(IF shifted >= 0 THEN shifted ELSE shifted - (DAYS_PER_400_YEARS - 1),
                      DAYS_PER_400_YEARS)
      Date(year, month, month_phase, doy) ==
        <<year + (IF month <= 2 THEN 1 ELSE 0), month,
          doy - ((153 * month_phase + 2) \div 5) + 1>>
      OfPhase(year, month_phase, doy) ==
        Date(year, month_phase + (IF month_phase < 10 THEN 3 ELSE -9), month_phase, doy)
      OfYear(year_of_era, doy) == OfPhase(year_of_era + era * 400, (5 * doy + 2) \div 153, doy)
      InEra(day_of_era, year_of_era) ==
        OfYear(year_of_era,
               day_of_era - (365 * year_of_era + (year_of_era \div 4) - (year_of_era \div 100)))
      OfEra(day_of_era) ==
        InEra(day_of_era,
              (day_of_era - (day_of_era \div 1460) + (day_of_era \div 36524)) \div 365)
  IN OfEra(shifted - era * DAYS_PER_400_YEARS)

civil_from_days(days_since_epoch) ==
  LET shifted == days_since_epoch + 719468
      era == TruncDiv(IF shifted >= 0 THEN shifted ELSE shifted - (DAYS_PER_400_YEARS - 1),
                      DAYS_PER_400_YEARS)
      Date(year, month, month_phase, doy) ==
        <<year + (IF month <= 2 THEN 1 ELSE 0), month,
          doy - ((153 * month_phase + 2) \div 5) + 1>>
      OfPhase(year, month_phase, doy) ==
        Date(year, month_phase + (IF month_phase < 10 THEN 3 ELSE -9), month_phase, doy)
      OfYear(year_of_era, doy) == OfPhase(year_of_era + era * 400, (5 * doy + 2) \div 153, doy)
      InEra(day_of_era, year_of_era) ==
        OfYear(year_of_era,
               day_of_era - (365 * year_of_era + (year_of_era \div 4) - (year_of_era \div 100)))
      OfEra(day_of_era) ==
        InEra(day_of_era,
              (day_of_era - (day_of_era \div 1460) + (day_of_era \div 36524)
                 - (day_of_era \div 146096)) \div 365)
  IN OfEra(shifted - era * DAYS_PER_400_YEARS)

days_from_civil(year, month, day) ==
  LET adjusted == year - IF month <= 2 THEN 1 ELSE 0
      era == TruncDiv(IF adjusted >= 0 THEN adjusted ELSE adjusted - 399, 400)
      year_of_era == adjusted - era * 400
      month_phase == month + IF month > 2 THEN -3 ELSE 9
      doy == ((153 * month_phase + 2) \div 5) + day - 1
      day_of_era == year_of_era * 365 + (year_of_era \div 4) - (year_of_era \div 100) + doy
  IN era * DAYS_PER_400_YEARS + day_of_era - 719468

WeekdayOf(days) == (days + 4) % 7

tm_from_unix_seconds(time) ==
  LET OfDate(date) ==
        IF date[1] - 1900 \notin C_INT_MIN .. C_INT_MAX THEN CalNone
        ELSE [tm_sec |-> time[2] % 60, tm_min |-> (time[2] % 3600) \div 60,
              tm_hour |-> time[2] \div 3600, tm_mday |-> date[3], tm_mon |-> date[2] - 1,
              tm_year |-> date[1] - 1900, tm_wday |-> WeekdayOf(time[1]),
              tm_yday |-> day_of_year(date[1], date[2], date[3]),
              tm_isdst |-> 0, tm_gmtoff |-> 0, tm_zone |-> 0]
  IN OfDate(civil_from_days(time[1]))

normalized_tm_to_unix_seconds(tm) ==
  LET full_year == tm.tm_year + 1900 + (tm.tm_mon \div 12)
      one_based_month == (tm.tm_mon % 12) + 1
      day_seconds == tm.tm_hour * 3600 + tm.tm_min * 60 + tm.tm_sec
      base_days == days_from_civil(full_year, one_based_month, 1)
  IN <<base_days + tm.tm_mday - 1 + (day_seconds \div SECONDS_PER_DAY),
       day_seconds % SECONDS_PER_DAY>>

normalized_tm_to_unix_seconds_for_mktime(tm) ==
  LET time == normalized_tm_to_unix_seconds(tm)
  IN IF tm.tm_isdst <= 0 THEN time
     ELSE <<time[1] + ((time[2] - 3600) \div SECONDS_PER_DAY), (time[2] - 3600) % SECONDS_PER_DAY>>

NotBefore(a, b) == a[1] > b[1] \/ (a[1] = b[1] /\ a[2] >= b[2])

\* The end of timegm and mktime: what is returned, and the tm that is left.
StoreNormalized(tm, time) ==
  IF ~NotBefore(time, TIME_MIN) \/ ~NotBefore(TIME_MAX, time)
     \/ tm_from_unix_seconds(time) = CalNone
  THEN [result |-> CalNone, tm |-> tm]
  ELSE [result |-> time, tm |-> tm_from_unix_seconds(time)]

timegm(tm) == StoreNormalized(tm, normalized_tm_to_unix_seconds(tm))
mktime(tm) == StoreNormalized(tm, normalized_tm_to_unix_seconds_for_mktime(tm))

\* gmtime_r and localtime_r; gmtime and localtime keep the result in the
\* thread's storage, which a failure leaves alone.
gmtime_r(time, result) ==
  LET converted == tm_from_unix_seconds(time)
  IN IF converted = CalNone THEN [ok |-> FALSE, tm |-> result] ELSE [ok |-> TRUE, tm |-> converted]

-----------------------------------------------------------------------------
(* Weeks *)

max_yday_for_full_year(full_year) == IF is_leap_year(full_year) THEN 365 ELSE 364

is_valid_tm_yday_for_year(full_year, yday) == yday \in 0 .. max_yday_for_full_year(full_year)

iso_weeks_in_year(year) ==
  LET january_first == WeekdayOf(days_from_civil(year, 1, 1))
  IN IF january_first = 4 \/ (january_first = 3 /\ is_leap_year(year)) THEN 53 ELSE 52

iso_week_context(tm_year, yday, wday) ==
  LET full_year == tm_year + 1900
      week_number == (yday + 10 - IF wday = 0 THEN 7 ELSE wday) \div 7
  IN IF wday \notin 0 .. 6 \/ ~is_valid_tm_yday_for_year(full_year, yday) THEN CalNone
     ELSE IF week_number < 1 THEN <<full_year - 1, iso_weeks_in_year(full_year - 1)>>
     ELSE IF week_number > iso_weeks_in_year(full_year) THEN <<full_year + 1, 1>>
     ELSE <<full_year, week_number>>

WeekNumber(yday, wday, monday_based) ==
  (yday + 7 - IF monday_based THEN (IF wday = 0 THEN 6 ELSE wday - 1) ELSE wday) \div 7

-----------------------------------------------------------------------------
(* strftime *)

RECURSIVE DigitCount(_)
DigitCount(n) == IF n < 10 THEN 1 ELSE 1 + DigitCount(n \div 10)

DecimalLen(n) == IF n < 0 THEN 1 + DigitCount(-n) ELSE DigitCount(n)
AtLeast(a, b) == IF a > b THEN a ELSE b

Piece(value, len) == <<[value |-> value, len |-> len]>>
Literal(byte) == Piece(byte, 1)
UnknownField == Literal("?")
append_padded_decimal(value, width) == Piece(value, AtLeast(width, DecimalLen(value)))
append_padded_decimal_in_range(value, width, min, max) ==
  IF value \in min .. max THEN append_padded_decimal(value, width) ELSE UnknownField

WeekdayLongLen == <<6, 6, 7, 9, 8, 6, 8>>
MonthLongLen == <<7, 8, 5, 5, 3, 4, 4, 6, 9, 7, 8, 8>>
weekday_name(wday, long_name) ==
  IF wday \notin 0 .. 6 THEN UnknownField
  ELSE Piece(wday, IF long_name THEN WeekdayLongLen[wday + 1] ELSE 3)
month_name(mon, long_name) ==
  IF mon \notin 0 .. 11 THEN UnknownField
  ELSE Piece(mon, IF long_name THEN MonthLongLen[mon + 1] ELSE 3)

\* A year before 1 has its sign in front of at least four digits.
append_full_year(full_year) ==
  IF full_year >= 0 THEN append_padded_decimal(full_year, 4)
  ELSE Piece(full_year, 1 + AtLeast(4, DigitCount(-full_year)))

append_numeric_utc_offset(gmtoff) ==
  LET seconds == IF gmtoff < 0 THEN -gmtoff ELSE gmtoff
  IN IF seconds > 86340 \/ seconds % 60 # 0 THEN UnknownField ELSE Piece(gmtoff, 5)

normalize_hour_12(hour) ==
  CASE hour \in {0, 12} -> 12
    [] hour \in 1 .. 11 -> hour
    [] hour \in 13 .. 23 -> hour - 12
    [] OTHER -> 0

append_hour_12(hour) ==
  IF normalize_hour_12(hour) = 0 THEN UnknownField ELSE Piece(normalize_hour_12(hour), 2)

append_meridiem(hour) ==
  CASE hour \in 0 .. 11 -> Piece("am", 2)
    [] hour \in 12 .. 23 -> Piece("pm", 2)
    [] OTHER -> UnknownField

append_julian_day(tm) ==
  IF is_valid_tm_yday_for_year(tm.tm_year + 1900, tm.tm_yday)
  THEN append_padded_decimal(tm.tm_yday + 1, 3) ELSE UnknownField

append_week_number(tm, monday_based) ==
  IF tm.tm_wday \in 0 .. 6 /\ is_valid_tm_yday_for_year(tm.tm_year + 1900, tm.tm_yday)
  THEN append_padded_decimal(WeekNumber(tm.tm_yday, tm.tm_wday, monday_based), 2) ELSE UnknownField

append_iso_week(tm, part) ==
  LET PartOf(iso) ==
        CASE iso = CalNone -> UnknownField
          [] iso # CalNone /\ part = "G" -> append_full_year(iso[1])
          [] iso # CalNone /\ part = "g" -> append_padded_decimal(iso[1] % 100, 2)
          [] iso # CalNone /\ part = "V" -> append_padded_decimal(iso[2], 2)
  IN PartOf(iso_week_context(tm.tm_year, tm.tm_yday, tm.tm_wday))

\* The seconds of %s, whose digits are not counted apart from the pair.
append_epoch_seconds(tm) ==
  LET time == normalized_tm_to_unix_seconds(tm)
      seconds == time[1] * SECONDS_PER_DAY + time[2]
  IN Piece(time, DecimalLen(seconds))

MonthNumber(tm) == append_padded_decimal_in_range(tm.tm_mon + 1, 2, 1, 12)
DayOfMonth(tm) == append_padded_decimal_in_range(tm.tm_mday, 2, 1, 31)
Hour24(tm) == append_padded_decimal_in_range(tm.tm_hour, 2, 0, 23)
Minute(tm) == append_padded_decimal_in_range(tm.tm_min, 2, 0, 59)
Second(tm) == append_padded_decimal_in_range(tm.tm_sec, 2, 0, 60)
YearTwoDigits(tm) == append_padded_decimal((tm.tm_year + 1900) % 100, 2)
HourMinuteSecond(tm) == Hour24(tm) \o Literal(":") \o Minute(tm) \o Literal(":") \o Second(tm)

append_c_locale_datetime(tm) ==
  weekday_name(tm.tm_wday, FALSE) \o Literal(" ") \o month_name(tm.tm_mon, FALSE) \o Literal(" ")
    \o DayOfMonth(tm) \o Literal(" ") \o HourMinuteSecond(tm) \o Literal(" ")
    \o append_full_year(tm.tm_year + 1900)

append_token(token, tm) ==
  CASE token = "%" -> Literal("%")
    [] token = "c" -> append_c_locale_datetime(tm)
    [] token = "C" -> append_padded_decimal((tm.tm_year + 1900) \div 100, 2)
    [] token = "y" -> YearTwoDigits(tm)
    [] token = "Y" -> append_full_year(tm.tm_year + 1900)
    [] token = "s" -> append_epoch_seconds(tm)
    [] token = "m" -> MonthNumber(tm)
    [] token \in {"d", "e"} -> DayOfMonth(tm)
    [] token \in {"H", "k"} -> Hour24(tm)
    [] token \in {"I", "l"} -> append_hour_12(tm.tm_hour)
    [] token \in {"p", "P"} -> append_meridiem(tm.tm_hour)
    [] token = "Z" -> IF tm.tm_zone = 0 THEN <<>> ELSE Piece("zone", tm.tm_zone)
    [] token = "z" -> append_numeric_utc_offset(tm.tm_gmtoff)
    [] token = "M" -> Minute(tm)
    [] token = "S" -> Second(tm)
    [] token \in {"D", "x"} ->
         MonthNumber(tm) \o Literal("/") \o DayOfMonth(tm) \o Literal("/") \o YearTwoDigits(tm)
    [] token = "F" -> append_full_year(tm.tm_year + 1900) \o Literal("-") \o MonthNumber(tm)
                        \o Literal("-") \o DayOfMonth(tm)
    [] token \in {"T", "X"} -> HourMinuteSecond(tm)
    [] token = "R" -> Hour24(tm) \o Literal(":") \o Minute(tm)
    [] token = "v" -> DayOfMonth(tm) \o Literal("-") \o month_name(tm.tm_mon, FALSE)
                        \o Literal("-") \o append_full_year(tm.tm_year + 1900)
    [] token = "r" -> append_hour_12(tm.tm_hour) \o Literal(":") \o Minute(tm) \o Literal(":")
                        \o Second(tm) \o Literal(" ") \o append_meridiem(tm.tm_hour)
    [] token \in {"a", "A"} -> weekday_name(tm.tm_wday, token = "A")
    [] token \in {"b", "h", "B"} -> month_name(tm.tm_mon, token = "B")
    [] token = "j" -> append_julian_day(tm)
    [] token \in {"U", "W"} -> append_week_number(tm, token = "W")
    [] token \in {"G", "g", "V"} -> append_iso_week(tm, token)
    [] token = "u" -> IF tm.tm_wday = 0 THEN Literal(7)
                      ELSE append_padded_decimal_in_range(tm.tm_wday, 1, 1, 6)
    [] token = "w" -> append_padded_decimal_in_range(tm.tm_wday, 1, 0, 6)
    [] token \in {"n", "t"} -> Literal(token)
    [] OTHER -> Literal("%") \o Literal(token)

\* The tokens that may follow %E and %O.
AlternativeTokens(modifier) ==
  IF modifier = "E"
  THEN {"c", "C", "x", "X", "y", "Y", "z", "u", "r", "R", "p", "P", "T", "s", "n", "t"}
  ELSE {"d", "e", "H", "I", "m", "M", "S", "u", "U", "V", "w", "W", "y", "Y", "C", "G", "g", "j",
        "k", "l", "p", "P", "R", "T", "r", "z", "s", "n", "t"}

\* %E and %O take two bytes of the format whatever follows them.
MutFormatPieces_SkipsOne(format, tm) ==
  LET At(i) == IF i <= Len(format) THEN format[i] ELSE "NUL"
      rest[i \in 1 .. Len(format) + 1] ==
        CASE At(i) = "NUL" -> <<>>
          [] At(i) \notin {"%", "NUL"} -> Literal(At(i)) \o rest[i + 1]
          [] OTHER ->
               CASE At(i + 1) = "NUL" -> Literal("%")
                 [] At(i + 1) \in {"E", "O"} /\ At(i + 2) = "NUL" ->
                      Literal("%") \o Literal(At(i + 1))
                 [] At(i + 1) \in {"E", "O"} /\ At(i + 2) # "NUL" ->
                      append_token(At(i + 2), tm) \o rest[i + 2]
                 [] OTHER -> append_token(At(i + 1), tm) \o rest[i + 2]
  IN rest[1]

\* The loop of strftime over the bytes of the format.
FormatPieces(format, tm) ==
  LET At(i) == IF i <= Len(format) THEN format[i] ELSE "NUL"
      rest[i \in 1 .. Len(format) + 1] ==
        CASE At(i) = "NUL" -> <<>>
          [] At(i) \notin {"%", "NUL"} -> Literal(At(i)) \o rest[i + 1]
          [] OTHER ->
               CASE At(i + 1) = "NUL" -> Literal("%")
                 [] At(i + 1) \in {"E", "O"} /\ At(i + 2) = "NUL" ->
                      Literal("%") \o Literal(At(i + 1))
                 [] At(i + 1) \in {"E", "O"} /\ At(i + 2) # "NUL" ->
                      (IF At(i + 2) \in AlternativeTokens(At(i + 1))
                       THEN append_token(At(i + 2), tm)
                       ELSE Literal("%") \o Literal(At(i + 1)) \o Literal(At(i + 2)))
                      \o rest[i + 3]
                 [] OTHER -> append_token(At(i + 1), tm) \o rest[i + 2]
  IN rest[1]

RequiredLen(pieces) == FoldLeft(LAMBDA acc, p : acc + p.len, 0, pieces)

\* OutputBuffer: the result, how many bytes of the text were stored, and where
\* the NUL is (-1: nowhere).
OutputBufferFinish(required, max) ==
  IF max = 0 THEN [result |-> 0, written |-> 0, nul_at |-> -1]
  ELSE LET stored == IF required < max - 1 THEN required ELSE max - 1
       IN [result |-> IF required >= max THEN 0 ELSE required, written |-> stored, nul_at |-> stored]

strftime(max, format, tm) == OutputBufferFinish(RequiredLen(FormatPieces(format, tm)), max)

-----------------------------------------------------------------------------
(* Properties *)

DaysInMonth(year, month) ==
  CASE month \in {4, 6, 9, 11} -> 30
    [] month = 2 -> IF is_leap_year(year) THEN 29 ELSE 28
    [] OTHER -> 31

NextDate(date) ==
  CASE date[3] < DaysInMonth(date[1], date[2]) -> <<date[1], date[2], date[3] + 1>>
    [] date[3] >= DaysInMonth(date[1], date[2]) /\ date[2] < 12 -> <<date[1], date[2] + 1, 1>>
    [] OTHER -> <<date[1] + 1, 1, 1>>

\* By definition an ISO week belongs to the year of its Thursday.
IsoWeekByThursday(days) ==
  LET weekday == IF WeekdayOf(days) = 0 THEN 7 ELSE WeekdayOf(days)
      WeekOf(date) == <<date[1], (day_of_year(date[1], date[2], date[3]) \div 7) + 1>>
  IN WeekOf(civil_from_days(days + 4 - weekday))

\* %G and %V are the ISO week of the date. They are not in a year that begins on
\* a Thursday: iso_week_context counts from the first day as day 0 in a formula
\* for day 1, and is a week short throughout.
IsoWeekIsOfThursday(days) ==
  LET OfTm(tm) == tm # CalNone =>
        iso_week_context(tm.tm_year, tm.tm_yday, tm.tm_wday) = IsoWeekByThursday(days)
  IN OfTm(tm_from_unix_seconds(<<days, 0>>))

\* Day by day gmtime walks the Gregorian calendar, before and after 1970 and
\* year 0, over every border of a month, a century and an era: each day's date
\* follows the one before, timegm takes it back to the same day, and weekday,
\* day of the year and week are those of the date (the ISO week in years that do
\* not begin on a Thursday). Outside the range of tm_year or time_t both refuse,
\* and leave what they were given alone.
CalendarIsGregorian(days) ==
  LET InRange(date) ==
        /\ NotBefore(<<days, 86399>>, TIME_MIN) /\ NotBefore(TIME_MAX, <<days, 86399>>)
        /\ date[1] - 1900 \in C_INT_MIN .. C_INT_MAX
      Holds(date, tm) ==
        /\ civil_from_days(0) = <<1970, 1, 1>>
        /\ civil_from_days(days + 1) = NextDate(date)
        /\ days_from_civil(date[1], date[2], date[3]) = days
        /\ (tm = CalNone) <=> date[1] - 1900 \notin C_INT_MIN .. C_INT_MAX
        /\ tm # CalNone =>
             /\ WeekdayOf(days - tm.tm_yday) # 4 => IsoWeekIsOfThursday(days)
             /\ timegm(tm) = IF InRange(date) THEN [result |-> <<days, 86399>>, tm |-> tm]
                             ELSE [result |-> CalNone, tm |-> tm]
             /\ LET jan1 == days - tm.tm_yday
                IN /\ civil_from_days(jan1) = <<date[1], 1, 1>>
                   \* the days before the first Sunday or Monday are in week 0
                   /\ WeekNumber(tm.tm_yday, tm.tm_wday, FALSE)
                        = Cardinality({d \in jan1 .. days : WeekdayOf(d) = 0})
                   /\ WeekNumber(tm.tm_yday, tm.tm_wday, TRUE)
                        = Cardinality({d \in jan1 .. days : WeekdayOf(d) = 1})
  IN Holds(civil_from_days(days), tm_from_unix_seconds(<<days, 86399>>))

\* Fields out of range carry into their neighbours: a month, a day, an hour, a
\* minute or a second more moves the result by just that, mktime is an hour
\* earlier when daylight saving is said to be in force, and what either leaves
\* behind normalises to the same time again.
NormalizationCarries(tm) ==
  LET Plus(a, days, secs) == <<a[1] + days + ((a[2] + secs) \div SECONDS_PER_DAY),
                               (a[2] + secs) % SECONDS_PER_DAY>>
      N(t) == normalized_tm_to_unix_seconds(t)
      Carries(time, after) ==
        /\ N([tm EXCEPT !.tm_mon = @ + 12]) = N([tm EXCEPT !.tm_year = @ + 1])
        /\ N([tm EXCEPT !.tm_mday = @ + 1]) = Plus(time, 1, 0)
        /\ N([tm EXCEPT !.tm_hour = @ - 1]) = Plus(time, 0, -3600)
        /\ N([tm EXCEPT !.tm_min = @ + 1]) = Plus(time, 0, 60)
        /\ N([tm EXCEPT !.tm_sec = @ - 1]) = Plus(time, 0, -1)
        /\ IF after.result = CalNone THEN after.tm = tm
           ELSE /\ after.result = Plus(time, 0, IF tm.tm_isdst > 0 THEN -3600 ELSE 0)
                /\ after.tm.tm_isdst = 0 /\ N(after.tm) = after.result
  IN Carries(N(tm), mktime(tm))

\* strftime stores no byte past max, ends what it stored with a NUL inside it,
\* and returns the length exactly when text and NUL fit; a field out of range
\* takes one byte, and no byte of the format is read twice or skipped: after a
\* whole directive the rest of the format gives what it gives alone.
StrftimeIsBounded(first, second, tm, max) ==
  LET Bounded(pieces, required, answer) ==
        /\ answer.written <= max /\ answer.nul_at < max
        /\ max > 0 => answer.nul_at = answer.written
        /\ answer.result = IF required + 1 <= max THEN required ELSE 0
        /\ answer.result > 0 => answer.written = required
        /\ pieces = FormatPieces(first, tm) \o FormatPieces(second, tm)
      OfPieces(pieces) == Bounded(pieces, RequiredLen(pieces), strftime(max, first \o second, tm))
  IN OfPieces(FormatPieces(first \o second, tm))
=============================================================================
