-------------------------------- MODULE Wake --------------------------------
(***************************************************************************)
(* The times of `barista wake-at` (barista-cli, wake.rs): what a human     *)
(* types becomes an absolute time, and an absolute time becomes a          *)
(* countdown in a table.                                                   *)
(*                                                                         *)
(* The state is a calendar that is turned one day at a time from the epoch *)
(* and counts the days; the conversions are checked against it on every    *)
(* day.  A time is a pair of a day and a number of seconds into it, which  *)
(* keeps the numbers small; SameMoment compares two of them.               *)
(***************************************************************************)
EXTENDS Integers

CONSTANTS LastYear,    \* the calendar stops there
          Hours,       \* the hours of the day that are tried, of 0 .. 23
          Offsets,     \* the offsets from UTC that are tried, in hours
          MaxSecs      \* the largest time the representation holds, either way

VARIABLES date,   \* [y, m, d]
          day     \* days since 1970-01-01

vars == <<date, day>>

DaySecs == 86400
Refused == [ok |-> FALSE]
At(d, s) == [ok |-> TRUE, day |-> d, sec |-> s]
SameMoment(a, b) ==
    a.ok /\ b.ok /\ (a.day - b.day) * DaySecs = b.sec - a.sec

-----------------------------------------------------------------------------

\* Mutation: centuries are like other years.
divisible_by_four(y) == y % 4 = 0

leap(y) == y % 4 = 0 /\ (y % 100 # 0 \/ y % 400 = 0)

days_in_month(y, m) ==
    CASE m \in {1, 3, 5, 7, 8, 10, 12} -> 31
      [] m \in {4, 6, 9, 11}           -> 30
      [] OTHER                         -> IF leap(y) THEN 29 ELSE 28

(* days_from_civil: years begin in March, so that the leap day is last.    *)
days_from_civil(y, m, d) ==
    LET yy == IF m <= 2 THEN y - 1 ELSE y
        era == yy \div 400
        yoe == yy - era * 400
        doy == (153 * (IF m > 2 THEN m - 3 ELSE m + 9) + 2) \div 5 + d - 1
        doe == yoe * 365 + yoe \div 4 - yoe \div 100 + doy
    IN  era * 146097 + doe - 719468

(* The fields name a moment of the calendar.                               *)
real(t) ==
    /\ t.m \in 1 .. 12 /\ t.d \in 1 .. 31
    /\ t.hour < 24 /\ t.minute < 60 /\ t.second < 60
    /\ t.d <= days_in_month(t.y, t.m)

(* The offset is what the local time is ahead of UTC by.                   *)
offset_secs(t) == -(t.zone * 3600)

(* A timestamp without a zone, or with the name of one, is refused.        *)
parse_rfc3339(t) ==
    IF ~real(t) \/ t.zoned # "offset" THEN Refused
    ELSE At(days_from_civil(t.y, t.m, t.d),
            t.hour * 3600 + t.minute * 60 + t.second + offset_secs(t))

Unit(u) == CASE u = "s" -> 1 [] u = "m" -> 60 [] u = "h" -> 3600
             [] OTHER -> DaySecs

(* A duration is relative to now, and refused when the sum does not fit.   *)
relative(n, u, now) ==
    IF {n * Unit(u), now + n * Unit(u)} \subseteq -MaxSecs .. MaxSecs
    THEN At(0, now + n * Unit(u)) ELSE Refused

(* parse_when: a leading plus promises a duration, so that no timestamp is *)
(* looked for after one.                                                   *)
parse_when(in, now) ==
    CASE in.kind = "stamp" /\ ~in.plus -> parse_rfc3339(in.stamp)
      [] in.kind = "relative"          -> relative(in.n, in.unit, now)
      [] OTHER                         -> Refused

(* until: one unit, rounded down; a moment that has passed is due.         *)
until(delta) ==
    IF delta <= 0 THEN [n |-> 0, unit |-> "due"]
    ELSE LET u == IF delta < 60 THEN "s" ELSE IF delta < 3600 THEN "m"
                  ELSE IF delta < DaySecs THEN "h" ELSE "d"
         IN  [n |-> delta \div Unit(u), unit |-> u]

-----------------------------------------------------------------------------
(* The calendar the conversions are compared with: thirty days have        *)
(* September, and February has the leap day of the Gregorian rule.         *)
Length(y, m) ==
    IF m = 2
    THEN IF y % 400 = 0 \/ (y % 4 = 0 /\ y % 100 # 0) THEN 29 ELSE 28
    ELSE IF m \in {4, 6, 9, 11} THEN 30 ELSE 31

Following(d) ==
    IF d.d < Length(d.y, d.m) THEN [d EXCEPT !.d = @ + 1]
    ELSE IF d.m < 12 THEN [d EXCEPT !.d = 1, !.m = @ + 1]
    ELSE [y |-> d.y + 1, m |-> 1, d |-> 1]

Init == date = [y |-> 1970, m |-> 1, d |-> 1] /\ day = 0

tomorrow == /\ date.y < LastYear
            /\ date' = Following(date)
            /\ day' = day + 1

Next == tomorrow
Spec == Init /\ [][Next]_vars

Stamp(d, hour, zone, zoned) ==
    [y |-> d.y, m |-> d.m, d |-> d.d, hour |-> hour, minute |-> 59,
     second |-> 1, zone |-> zone, zoned |-> zoned]

Typed(d, hour, zone, zoned) ==
    parse_when([kind |-> "stamp", plus |-> FALSE,
                stamp |-> Stamp(d, hour, zone, zoned)], 0)

-----------------------------------------------------------------------------
(* A date that exists is accepted and is as many days from the epoch as    *)
(* have passed since; the day after the last of a month is refused, not    *)
(* rolled over into the next.                                              *)
DaysCounted ==
    /\ \A h \in Hours :
          SameMoment(Typed(date, h, 0, "offset"), At(day, h * 3600 + 3541))
    /\ date.d = Length(date.y, date.m) =>
          Typed([date EXCEPT !.d = @ + 1], 0, 0, "offset") = Refused

(* One moment has one time in every zone: an hour of this day in UTC, and  *)
(* the same moment as a clock with an offset shows it, which may be on the *)
(* next day, in the next month or in the next year.                        *)
ZonesAgree ==
    \A h \in Hours, o \in Offsets :
        LET local == h + o
            d == IF local < 24 THEN date ELSE Following(date)
        IN  /\ local >= 0 =>
                  SameMoment(Typed(date, h, 0, "offset"),
                             Typed(d, local % 24, o, "offset"))
            /\ Typed(date, h, o, "none") = Refused

(* A countdown never promises an alarm later than it is, and never one a   *)
(* whole unit earlier; only a moment that has passed is due.               *)
CountdownHonest ==
    \A delta \in {day, -day, day * 60, day + DaySecs - 1} :
        LET u == until(delta) IN
        IF u.unit = "due" THEN delta <= 0
        ELSE /\ u.n > 0
             /\ u.n * Unit(u.unit) <= delta
             /\ delta < (u.n + 1) * Unit(u.unit)

(* A duration that is accepted is exactly that far from now, backwards for *)
(* a negative one, and one that does not fit is refused: arithmetic never  *)
(* puts an alarm on the wrong side of now.                                 *)
DurationExact ==
    \A u \in {"s", "m", "h", "d"}, now \in {0, day},
      n \in {day % 10000, -(day % 10000)} :
        LET t == parse_when([kind |-> "relative", plus |-> n >= 0, n |-> n, unit |-> u], now)
            d == n * Unit(u)
        IN  IF d < -MaxSecs \/ now + d > MaxSecs THEN t = Refused
            ELSE t = At(0, now + d) /\ (t.sec < now <=> n < 0)
=============================================================================
