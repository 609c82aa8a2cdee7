------------------------------- MODULE Stamps -------------------------------
(***************************************************************************)
(* The time stamps of files in src/src/cpmfs.c: their conversion to and    *)
(* from days since 1978 and BCD digits, and the bytes they take in an SFCB *)
(* and in a DateStamper table.                                             *)
(*                                                                         *)
(* Abstracted: time_t counts minutes from 1978 on, seconds are not kept.   *)
(* localtime and mktime are the calendar and the offset from UTC, which    *)
(* has one value in summer and one in winter.                              *)
(***************************************************************************)
EXTENDS Integers, Sequences

CONSTANTS
  Zone,        \* offset from UTC in winter, in minutes
  Times,       \* the times that files are stamped with
  MaxStamps    \* bound: how often files are stamped

VARIABLES
  st           \* an SFCB, the DateStamper entries of its files, their times

NoStamps  == [phase |-> "none"]
Unstamped == -1
Day       == 1440

-----------------------------------------------------------------------------
(* The calendar of the C library                                           *)

Leaps(year) == year \div 4 - year \div 100 + year \div 400
NewYear(year) == 365 * (year - 1978) + Leaps(year - 1) - Leaps(1977)
IsLeap(year) == NewYear(year + 1) - NewYear(year) = 366
MonthStart(year, month) ==
  <<0, 31, 59, 90, 120, 151, 181, 212, 243, 273, 304, 334>>[month]
    + (IF month > 2 /\ IsLeap(year) THEN 1 ELSE 0)

\* the offset from UTC, which clocks change at the end of March and October
Summer(yday) == yday \in 90 .. 299
YearOf(day) == CHOOSE y \in 1978 .. 2157 : NewYear(y) <= day /\ day < NewYear(y + 1)
Shift(t) == LET day == (t + Zone) \div Day
            IN IF Summer(day - NewYear(YearOf(day))) THEN Zone + 60 ELSE Zone

Localtime(t) ==
  LET local == t + Shift(t)
      year  == YearOf(local \div Day)
      yday  == local \div Day - NewYear(year)
      month == CHOOSE m \in 1 .. 12 :
                 /\ MonthStart(year, m) <= yday
                 /\ m < 12 => yday < MonthStart(year, m + 1)
  IN [year |-> year, yday |-> yday, month |-> month,
      mday |-> yday - MonthStart(year, month) + 1,
      hour |-> (local % Day) \div 60, min |-> local % 60]

\* mktime with TZ=GMT0, and with the zone of the host
Utc(year, month, mday, hour, min) ==
  (NewYear(year) + MonthStart(year, month) + mday - 1) * Day + hour * 60 + min
Mktime(year, month, mday, hour, min) ==
  LET utc == Utc(year, month, mday, hour, min)
  IN utc - (IF Summer(MonthStart(year, month) + mday - 1) THEN Zone + 60 ELSE Zone)

-----------------------------------------------------------------------------
(* The conversions                                                         *)

ToBcd(x)   == (((x \div 10) % 16) * 16) + (x % 10)
FromBcd(x) == (((x \div 16) % 16) * 10) + (x % 16)

\* fault: each fourth year is taken for a leap year
YearDaysJulian(year) == IF year % 4 = 0 THEN 366 ELSE 365

YearDays(year) ==
  IF year % 4 = 0 /\ (year % 100 # 0 \/ year % 400 = 0) THEN 366 ELSE 365

\* days before a year, counted year by year
DaysUpTo[year \in 1978 .. 2160] ==
  IF year = 1978 THEN 0 ELSE DaysUpTo[year - 1] + YearDays(year - 1)

\* unix2cpm_time and setCpmStampField: the four bytes of a stamp
StampField(t) ==
  LET tm   == Localtime(t)
      days == DaysUpTo[tm.year] + tm.yday + 1
  IN <<days % 256, (days \div 256) % 256, ToBcd(tm.hour), ToBcd(tm.min)>>

MonthDays(year, month) ==
  IF month = 2 THEN (IF YearDays(year) = 366 THEN 29 ELSE 28)
  ELSE <<31, 0, 31, 30, 31, 30, 31, 31, 30, 31, 30, 31>>[month]

\* cpm2unix_time and getCpmStampField.  shift is the present offset from UTC,
\* which is taken for that of the stamp.
FieldTime(field, shift) ==
  LET days  == field[1] + 256 * field[2]
      year  == CHOOSE y \in 1978 .. 2159 :
                 /\ days - DaysUpTo[y] <= YearDays(y)
                 /\ \A x \in 1978 .. y - 1 : days - DaysUpTo[x] > YearDays(x)
      left[m \in 1 .. 12] ==
        IF m = 1 THEN days - DaysUpTo[year] ELSE left[m - 1] - MonthDays(year, m - 1)
      month == CHOOSE m \in 1 .. 12 :
                 /\ left[m] <= MonthDays(year, m)
                 /\ \A x \in 1 .. m - 1 : left[x] > MonthDays(year, x)
  IN Utc(year, month, 1, FromBcd(field[3]), FromBcd(field[4]))
       + (left[month] - 1) * Day - shift

\* unix2ds_time and ds2unix_time: the year has two digits, that of 2000 being
\* ten and none.
DsField(t) ==
  LET tm == Localtime(t)
      yr == IF tm.year > 2000 THEN tm.year - 2000 ELSE tm.year - 1900
  IN <<ToBcd(yr), ToBcd(tm.month), ToBcd(tm.mday), ToBcd(tm.hour), ToBcd(tm.min)>>

DsTime(field) ==
  LET yr == FromBcd(field[1])
  IN Mktime(1900 + (IF yr < 70 THEN yr + 100 ELSE yr), FromBcd(field[2]),
            FromBcd(field[3]), FromBcd(field[4]), FromBcd(field[5]))

-----------------------------------------------------------------------------
(* The places of the stamps: entry n in front of an SFCB has ten bytes     *)

CreatedAt(n)  == 1 + 10 * n      \* name[0], ext[2] and pointers[5]
ModifiedAt(n) == CreatedAt(n) + 4

Put(bytes, at, field) ==
  [i \in DOMAIN bytes |-> IF i \in at .. at + 3 THEN field[i - at + 1] ELSE bytes[i]]
Get(bytes, at) == [i \in 1 .. 4 |-> bytes[at + i - 1]]

Files3 == 0 .. 2

StampsStart ==
  st' = [phase |-> "run", sfcb |-> [i \in 0 .. 31 |-> IF i = 0 THEN 33 ELSE 0],
         table |-> [n \in Files3 |-> <<>>], count |-> 0,
         time |-> [n \in Files3 |-> Unstamped]]

\* The file was created a day before it is modified.
StampFile ==
  /\ st.phase = "run" /\ st.count < MaxStamps
  /\ \E n \in Files3, t \in Times :
       st' = [st EXCEPT
         !.sfcb = Put(Put(@, CreatedAt(n), StampField(t - Day)), ModifiedAt(n),
                      StampField(t)),
         !.table[n] = <<DsField(t - Day), DsField(t)>>,
         !.time[n] = t, !.count = @ + 1]

StampStep == StampFile

\* Each file has the times it was stamped with last, to the minute, whichever
\* of its neighbours in the SFCB was stamped since, through leap years and
\* turns of the century; a native stamp as long as the clocks are those that
\* were in use then, a DateStamper one before 2070.
StampsReturn ==
  st.phase = "run" =>
    \A n \in Files3 :
      LET t == st.time[n]
      IN t # Unstamped =>
           /\ FieldTime(Get(st.sfcb, ModifiedAt(n)), Shift(t)) = t
           /\ FieldTime(Get(st.sfcb, CreatedAt(n)), Shift(t - Day)) = t - Day
           /\ YearOf(t \div Day) \in 1979 .. 2068 =>
                DsTime(st.table[n][1]) = t - Day /\ DsTime(st.table[n][2]) = t

=============================================================================
