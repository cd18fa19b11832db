------------------------------ MODULE DvbTime -------------------------------
(***************************************************************************)
(* Start times and durations: as broken-down times, as the modified Julian *)
(* date and the BCD digits of an event (dvb.cpp), and as the local times   *)
(* of XMLTV (epg.cpp).  The calendar and the clock of the C library are    *)
(* external: a calendar that goes on by a day, and a zone with a summer.   *)
(***************************************************************************)
EXTENDS Integers, Sequences

CONSTANTS
  LastYear,     \* bound: the calendar goes from 1970 to the end of this year
  Zones,        \* zones, in hours east of Greenwich
  Summers,      \* pairs of hours: from when to when clocks are an hour ahead
  Hours,        \* instants, in hours
  Durations     \* durations, in seconds, of programmes that end behind their start

ASSUME TimeAssumption ==
  /\ LastYear \in Nat /\ LastYear >= 1970 /\ Zones \subseteq Int
  /\ Summers \subseteq Int \X Int /\ Hours \subseteq Int /\ Durations \subseteq Nat

VARIABLES
  date,         \* [year, mon, mday]: tm_year + 1900, tm_mon + 1 and tm_mday
  hour,         \* an instant
  duration,     \* of an event
  place         \* where epgen runs: [zone, summer, timeoff]

timeVars == <<date, hour, duration, place>>

TimeInit ==
  /\ date = [year |-> 1970, mon |-> 1, mday |-> 1]
  /\ hour \in Hours /\ duration \in Durations
  /\ \E zone \in Zones, summer \in Summers : \E timeoff \in {0, -zone} :
       place = [zone |-> zone, summer |-> summer, timeoff |-> timeoff]

Leap(y) == y % 4 = 0 /\ (y % 100 # 0 \/ y % 400 = 0)
DaysOf(y, m) ==
  IF m = 2 THEN IF Leap(y) THEN 29 ELSE 28 ELSE IF m \in {4, 6, 9, 11} THEN 30 ELSE 31

DayAfter(d) ==
  IF d.mday < DaysOf(d.year, d.mon) THEN [d EXCEPT !.mday = @ + 1]
  ELSE IF d.mon < 12 THEN [d EXCEPT !.mon = @ + 1, !.mday = 1]
  ELSE [year |-> d.year + 1, mon |-> 1, mday |-> 1]

Tomorrow ==
  /\ date # [year |-> LastYear, mon |-> 12, mday |-> 31]
  /\ date' = DayAfter(date)
  /\ UNCHANGED <<hour, duration, place>>

TimeSpec == TimeInit /\ [][Tomorrow]_timeVars
-----------------------------------------------------------------------------
(* A conversion of C from a quotient to int drops what is behind the point. *)
Quot(a, b) == IF a >= 0 THEN a \div b ELSE -((-a) \div b)

(* Mutant: January and February are not counted as months of the year before. *)
MjdPlain(d) ==
  LET Y == d.year - 1900 IN 14956 + d.mday + Quot(Y * 1461, 4) + Quot((d.mon + 1) * 306001, 10000)

(* makeDVBtime: in January and February the year has not begun.            *)
Mjd(d) ==
  LET L == IF d.mon \in {1, 2} THEN 1 ELSE 0
      Y == d.year - 1900
  IN 14956 + d.mday + Quot((Y - L) * 1461, 4) + Quot((d.mon + 1 + 12 * L) * 306001, 10000)

(* parseDVBtime, from the two bytes of the date.                           *)
DateOf(mjd) ==
  LET Y == Quot(100 * mjd - 1507820, 36525)
      left == mjd - Quot(Y * 1461, 4)
      M == Quot(left * 10000 - 149561000, 306001)
      k == IF M \in {14, 15} THEN 1 ELSE 0
  IN [year |-> Y + k + 1900, mon |-> M - 1 - k * 12,
      mday |-> left - 14956 - Quot(M * 306001, 10000)]

ToBCD(dec) == IF dec >= 100 THEN -1 ELSE Quot(dec, 10) * 16 + dec - 10 * Quot(dec, 10)

FromBCD(bcd) ==
  IF bcd \div 16 >= 10 \/ bcd % 16 >= 10 THEN -1 ELSE (bcd \div 16) * 10 + (bcd % 16)

(* The bytes of a duration, as loadepg_from_event_struct stores them, and  *)
(* the duration EITEvent reads from them.                                  *)
DurationBytes(d) ==
  <<ToBCD(d \div 3600) % 256, ToBCD((d % 3600) \div 60) % 256, ToBCD(d % 60) % 256>>

DurationOf(b) ==
  IF \E k \in 1..3 : b[k] = 255 THEN -1
  ELSE FromBCD(b[1]) * 3600 + FromBCD(b[2]) * 60 + FromBCD(b[3])
-----------------------------------------------------------------------------
Ahead(t) == place.zone + (IF t >= place.summer[1] /\ t < place.summer[2] THEN 1 ELSE 0)

LocalTime(t) == t + Ahead(t)

(* mktime with tm_isdst = -1: where clocks went ahead there is no such     *)
(* local time, where they went back there are two.                         *)
MkTime(local) ==
  LET fits == {t \in {local - place.zone, local - place.zone - 1} : LocalTime(t) = local}
  IN IF fits # {} THEN fits ELSE {local - place.zone, local - place.zone - 1}

(* parseDVBtime takes the stored time, Greenwich's as makeDVBtime has it,  *)
(* for a local one.                                                        *)
StartOf(stored) == MkTime(stored)

(* What saveepg_to_xmltv prints of a start time: a time and its zone.      *)
Printed(start) == [time |-> LocalTime(start - place.timeoff), zone |-> -place.timeoff]

(* An instant, as an XMLTV file of this place has it, through the event    *)
(* made of it into an XMLTV file again: the instants it can then mean.     *)
Means(t) ==
  {LET p == Printed(start) IN p.time - p.zone :
     start \in UNION {StartOf(read) : read \in MkTime(LocalTime(t))}}
-----------------------------------------------------------------------------
(* Every day from 1970 on until the date no longer fits its two bytes, in  *)
(* April 2038, is read back as it was stored (makeDVBtime, parseDVBtime).  *)
DateSurvives == Mjd(date) < 65536 => DateOf(Mjd(date)) = date

(* The date of the next day is the next number, through the ends of        *)
(* months and years, for as long.                                          *)
DaysCounted == Mjd(date) < 65536 => Mjd(DayAfter(date)) = Mjd(date) + 1

(* Durations are read back to the second up to a hundred hours, and none   *)
(* is made up for longer ones (toBCD, fromBCD).                            *)
DurationSurvives(d) == DurationOf(DurationBytes(d)) = IF d < 360000 THEN d ELSE -1

(* A programme converted from XMLTV to XMLTV keeps its instant, in any     *)
(* zone and whether or not the kernel knows it, unless clocks change       *)
(* meanwhile: within the hours between local time and Greenwich's.         *)
InstantSurvives ==
  LET far == 2 + (IF place.zone < 0 THEN -place.zone ELSE place.zone)
      away(change) == hour - change > far \/ change - hour > far
  IN away(place.summer[1]) /\ away(place.summer[2]) => Means(hour) = {hour}

(* Dates, starts and durations survive the bytes they are stored in and    *)
(* the two clocks they are read by (makeDVBtime, parseDVBtime, toBCD,      *)
(* fromBCD, mktimet_from_xmltv, saveepg_to_xmltv).                         *)
TimesSurvive ==
  DateSurvives /\ DaysCounted /\ InstantSurvives /\ DurationSurvives(duration)
=============================================================================
