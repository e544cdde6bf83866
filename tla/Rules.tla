--------------------------------- MODULE Rules ---------------------------------
(***************************************************************************)
(* The pure part of the rule engine (daemon/src/engine.rs): when a time    *)
(* window is open, what a rule set decides, and how long the daemon may    *)
(* sleep before its decision has to be taken again.                        *)
(*                                                                         *)
(* A rule set is a record                                                  *)
(*   [always_on, lock_block : BOOLEAN, mode : {"allow", "block"},          *)
(*    windows : a set of windows, limited : BOOLEAN]                       *)
(* where limited says that duration.limit_minutes is not zero.  Minutes of *)
(* the day and ISO weekdays are as in the code; the length of a day, of a  *)
(* minute and of the three cadences are parameters.                        *)
(***************************************************************************)
EXTENDS Integers, FiniteSets, FiniteSetsExt

CONSTANTS DayMinutes,   \* minutes in a day (1440)
          MinuteSecs,   \* seconds in a minute (60)
          ActiveTick,   \* ACTIVE_TICK_SECS
          SweepTick,    \* SWEEP_TICK_SECS
          IdleTick      \* IDLE_TICK_SECS

ASSUME RulesAssumption ==
    /\ DayMinutes \in Nat \ {0}
    /\ MinuteSecs \in Nat \ {0}
    /\ ActiveTick \in Nat \ {0}
    /\ SweepTick \in Nat \ {0}
    /\ IdleTick \in Nat \ {0}

Weekdays == 1..7

\* What a rules file may hold, with the weekdays given: HH:MM is a minute of the day.
TimeWindows(days) == [start : 0 .. DayMinutes, end : 0 .. DayMinutes, days : SUBSET days]

RuleSets(days) ==
    [always_on : BOOLEAN, lock_block : BOOLEAN, mode : {"allow", "block"},
     windows : SUBSET TimeWindows(days), limited : BOOLEAN]

\* sanitize: weekdays that do not exist are dropped.
Sanitized(set) ==
    [set EXCEPT !.windows = {[w EXCEPT !.days = @ \cap Weekdays] : w \in @}]

DaysAllow(days, weekday) == days = {} \/ weekday \in days

PrevWeekday(weekday) == IF weekday <= 1 THEN 7 ELSE weekday - 1

\* Mutant: the tail of a window past midnight is looked up on its own day.
InWindowOwnDay(w, minute, weekday) ==
    /\ DaysAllow(w.days, weekday)
    /\ \/ w.start < w.end /\ minute \in w.start .. w.end - 1
       \/ w.start > w.end /\ minute \notin w.end .. w.start - 1

\* in_window: a window past midnight belongs to the weekday it starts on.
InWindow(w, minute, weekday) ==
    \/ /\ w.start < w.end
       /\ minute \in w.start .. w.end - 1
       /\ DaysAllow(w.days, weekday)
    \/ /\ w.start > w.end
       /\ \/ minute >= w.start /\ DaysAllow(w.days, weekday)
          \/ minute < w.end /\ DaysAllow(w.days, PrevWeekday(weekday))

\* What the windows of a rule set ask for: "block" blocks inside, anything else
\* blocks outside, no window restricts nothing.
WindowsBlock(set, minute, weekday) ==
    /\ set.windows # {}
    /\ (\E w \in set.windows : InWindow(w, minute, weekday)) <=> set.mode = "block"

\* eval, with whether an extension runs, a cooldown runs, the limit is used up and
\* the screen is off.
Eval(set, ext, cool, over, off, minute, weekday) ==
    /\ ~ext
    /\ \/ set.always_on
       \/ set.lock_block /\ off
       \/ cool
       \/ over
       \/ WindowsBlock(set, minute, weekday)

------------------------------------------------------------------------------
\* The wake-up schedule.

\* The minute of day and the weekday some minutes from now.
MinuteAfter(minute, steps) == (minute + steps) % DayMinutes
WeekdayAfter(minute, weekday, steps) ==
    ((weekday - 1 + (minute + steps) \div DayMinutes) % 7) + 1

\* The minutes ahead, within two days, at which a window's answer differs from now.
Flips(w, minute, weekday) ==
    {s \in 1 .. 2 * DayMinutes :
        InWindow(w, MinuteAfter(minute, s), WeekdayAfter(minute, weekday, s))
            # InWindow(w, minute, weekday)}

AtLeastOne(secs) == IF secs < 1 THEN 1 ELSE secs

\* window_edge_secs: the seconds to the first flip, as a set with at most one member.
\* Mutant: the seconds already spent in this minute are not subtracted.
EdgeSecsFromMinute(w, minute, weekday, secInMin) ==
    {AtLeastOne(s * MinuteSecs) : s \in {t \in Flips(w, minute, weekday) :
        \A r \in Flips(w, minute, weekday) : t <= r}}

EdgeSecs(w, minute, weekday, secInMin) ==
    {AtLeastOne(s * MinuteSecs - secInMin) : s \in {t \in Flips(w, minute, weekday) :
        \A r \in Flips(w, minute, weekday) : t <= r}}

\* Mutant: a screen rule alone does not shorten the sleep.
NeedsCadenceLimited(set) == set.limited

\* Usage has to be counted, and the screen looked at, at a steady cadence.
NeedsCadence(set) == set.limited \/ set.lock_block

\* Seconds to local midnight, where the day's counters are reset.
\* Mutant: the sleep is not cut at midnight.
ToMidnightIgnored(minute, secInMin) == IdleTick

ToMidnight(minute, secInMin) == AtLeastOne((DayMinutes - minute) * MinuteSecs - secInMin)

ToExpiries(expiries, now) == {t - now : t \in {u \in expiries : u > now}}

\* Mutant: nothing bounds the sleep when no rule depends on time.
CadencesUnbounded(sets, anyBlocked) ==
    {2 * IdleTick}
        \cup (IF anyBlocked THEN {SweepTick} ELSE {})
        \cup {ActiveTick : s \in {t \in sets : NeedsCadence(t)}}

Cadences(sets, anyBlocked) ==
    {IdleTick}
        \cup (IF anyBlocked THEN {SweepTick} ELSE {})
        \cup {ActiveTick : s \in {t \in sets : NeedsCadence(t)}}

\* next_wake_secs over the enabled rule sets.
NextWake(sets, anyBlocked, expiries, now, minute, weekday, secInMin) ==
    Min(Cadences(sets, anyBlocked)
        \cup (UNION {EdgeSecs(w, minute, weekday, secInMin) :
                        w \in (UNION {s.windows : s \in sets})})
        \cup ToExpiries(expiries, now)
        \cup {ToMidnight(minute, secInMin)})

------------------------------------------------------------------------------
\* What the windows mean, said without weekday arithmetic: a window is a stretch of
\* minutes of the week for every day it may start on.

WeekMinutes == 7 * DayMinutes

StretchLength(w) ==
    IF w.start < w.end THEN w.end - w.start
    ELSE IF w.start > w.end THEN DayMinutes - w.start + w.end
    ELSE 0

StartDays(w) == IF w.days = {} THEN Weekdays ELSE w.days

MinutesOfWeek(w) ==
    {((d - 1) * DayMinutes + w.start + k) % WeekMinutes :
        d \in StartDays(w), k \in 0 .. StretchLength(w) - 1}
===============================================================================
