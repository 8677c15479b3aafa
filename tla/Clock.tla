------------------------------- MODULE Clock -------------------------------
(***************************************************************************)
(* baretime.h: instants of the monotonic clock, their conversion to dates  *)
(* of the wall clock and back, and the text of a duration.  The clocks run *)
(* between any two readings.  A date is the second it names since the      *)
(* epoch (gmtime_r and timegm are inverse of each other) and a number of   *)
(* nanoseconds.                                                            *)
(***************************************************************************)
EXTENDS Integers, Sequences

CONSTANTS
    US, MS, SEC, MIN, HOUR,   \* in nanoseconds
    Skews,      \* by how much the wall clock may be ahead of the monotonic one
    Reach,      \* how far from the present an instant may be
    MaxTime     \* bound: the monotonic clock stops there

ASSUME ClockAssumption ==
    /\ {US, MS, SEC, MIN, HOUR} \subseteq Nat \ {0}
    /\ US < MS /\ MS < SEC /\ SEC < MIN /\ MIN < HOUR
    /\ Skews \subseteq Int /\ Reach \in Nat /\ MaxTime \in Nat

VARIABLES
    now,       \* the monotonic clock
    skew,      \* wall clock minus monotonic clock
    instant,   \* the Instant being converted, then the one it comes back as
    origin,    \* the Instant the conversion began with
    date,      \* the DateTime
    mono,      \* now_mono._ns of the call under way
    lag,       \* how long the clocks ran between two readings of one call
    clockPc

clockVars == <<now, skew, instant, origin, date, mono, lag, clockPc>>

\* C's division and remainder, which round towards zero.
TruncDiv(a, b) == IF a < 0 THEN -((-a) \div b) ELSE a \div b
TruncMod(a, b) == a - b * TruncDiv(a, b)

ClockInit ==
    /\ now = 0 /\ skew \in Skews /\ instant = 0 /\ origin = 0 /\ mono = 0 /\ lag = 0
    /\ date = [sec |-> 0, nsec |-> 0] /\ clockPc = "idle"

Tick ==
    /\ now < MaxTime /\ now' = now + 1
    /\ lag' = lag + (IF clockPc \in {"to_wall", "from_wall"} THEN 1 ELSE 0)
    /\ UNCHANGED <<skew, instant, origin, date, mono, clockPc>>

WallSecond == (now + skew) \div SEC      \* _wall_time_t: whole seconds

\* instant_now and instant_add: any instant near the present.
TakeInstant ==
    /\ clockPc = "idle"
    /\ \E d \in -Reach .. Reach :
           instant' = now + d /\ origin' = now + d
    /\ clockPc' = "to_mono" /\ lag' = 0
    /\ UNCHANGED <<now, skew, date, mono>>

\* datetime_utc and instant_from_datetime read the monotonic clock first.
ReadMonotonic ==
    /\ \/ clockPc = "to_mono" /\ clockPc' = "to_wall"
       \/ clockPc = "from_mono" /\ clockPc' = "from_wall"
    /\ mono' = now
    /\ UNCHANGED <<now, skew, instant, origin, date, lag>>

DatetimeUtc ==
    /\ clockPc = "to_wall" /\ clockPc' = "from_mono"
    /\ LET delta == instant - mono
       IN  date' = [sec |-> WallSecond + TruncDiv(delta, SEC),
                    nsec |-> IF TruncMod(delta, SEC) < 0 THEN 0
                             ELSE TruncMod(delta, SEC)]
    /\ UNCHANGED <<now, skew, instant, origin, mono, lag>>

InstantFromDatetime_WrongSign ==
    /\ clockPc = "from_wall" /\ clockPc' = "done"
    /\ instant' = mono + (WallSecond - date.sec) * SEC + date.nsec
    /\ UNCHANGED <<now, skew, origin, date, mono, lag>>

InstantFromDatetime ==
    /\ clockPc = "from_wall" /\ clockPc' = "done"
    /\ instant' = mono + (date.sec - WallSecond) * SEC + date.nsec
    /\ UNCHANGED <<now, skew, origin, date, mono, lag>>

ClockNext == Tick \/ TakeInstant \/ ReadMonotonic \/ DatetimeUtc \/ InstantFromDatetime

ClockSpec == ClockInit /\ [][ClockNext]_clockVars

-----------------------------------------------------------------------------
(* duration_fmt: the numbers it prints with their units, largest first; a  *)
(* number of seconds comes with its milliseconds.                          *)

DurationFmt(d) ==
    LET abs == IF d < 0 THEN -d ELSE d
        h == abs % HOUR
        m == h % MIN
        Part(n, unit) == <<[n |-> n, unit |-> unit]>>
        large(n, unit) == IF n >= unit THEN Part(n \div unit, unit) ELSE <<>>
        small == IF m >= SEC THEN Part(m \div SEC, SEC) \o Part((m % SEC) \div MS, MS)
                 ELSE IF m >= MS THEN Part(m \div MS, MS)
                 ELSE IF m >= US THEN Part(m \div US, US)
                 ELSE Part(m, 1)
    IN  [neg |-> d < 0, parts |-> large(abs, HOUR) \o large(h, MIN) \o small]

OffsetFmt_NegativeMinutes(off) ==
    [hours |-> TruncDiv(off, 3600), minutes |-> TruncDiv(TruncMod(off, 3600), 60)]

\* The zone datetime_fmt prints: hours with their sign, then minutes.
OffsetFmt(off) ==
    LET minutes == TruncDiv(TruncMod(off, 3600), 60)
    IN  [hours |-> TruncDiv(off, 3600), minutes |-> IF minutes < 0 THEN -minutes ELSE minutes]

-----------------------------------------------------------------------------
Moment(dt) == dt.sec * SEC + dt.nsec

\* datetime_utc drops the fraction of the wall clock's second and rounds a
\* past instant towards the present: the date is less than a second from the
\* moment the instant stands for, and an instant that goes through a date and
\* back moves by less than two seconds (each more by what the clocks ran
\* between the two readings of a call).
DatesNearInstants ==
    /\ clockPc = "from_mono" =>
           /\ Moment(date) - (instant + skew) < SEC + lag
           /\ (instant + skew) - Moment(date) < SEC
    /\ clockPc = "done" =>
           /\ instant - origin < 2 * SEC + lag
           /\ origin - instant < 2 * SEC + lag

Abs(n) == IF n < 0 THEN -n ELSE n

\* What the parts of a text stand for together.
Total(parts) ==
    LET sum[i \in 0 .. Len(parts)] ==
            IF i = 0 THEN 0 ELSE sum[i - 1] + parts[i].n * parts[i].unit
    IN  sum[Len(parts)]

\* Parts that say x but for less than the last unit, each below the next larger
\* one.
Says(parts, x) ==
    /\ Total(parts) <= x
    /\ x - Total(parts) < parts[Len(parts)].unit
    /\ \A i \in 1 .. Len(parts) - 1 : parts[i + 1].n * parts[i + 1].unit < parts[i].unit

ZoneSays(off) ==
    LET zone == OffsetFmt(off)
    IN  off = 3600 * zone.hours + (IF off < 0 THEN -60 ELSE 60) * zone.minutes

\* The printed parts of a duration add up to it but for less than the last
\* unit, each is below the next larger one, and the printed zone is the
\* offset, for whole minutes and offsets of no less than an hour or eastward.
DurationsReadBack ==
    LET d == origin - now
        text == DurationFmt(d)
        off == 1800 * d
    IN  /\ text.neg <=> d < 0
        /\ Says(text.parts, Abs(d))
        /\ off \in -3599 .. -1 \/ ZoneSays(off)
=============================================================================
