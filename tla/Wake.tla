---------------------------------- MODULE Wake ----------------------------------
(***************************************************************************)
(* The daemon's single-threaded loop (main.rs, run_daemon) with the time-  *)
(* driven half of Engine::tick: sleep until the next moment a decision can *)
(* change, serve one client, or tick.                                      *)
(*                                                                         *)
(* now is the wall clock in seconds of local time, counted from a midnight *)
(* that begins weekday FirstWeekday.  A tick reads it twice: when it       *)
(* decides (engine.rs 388) and after it, when the loop asks how long to    *)
(* sleep (main.rs 216).  The sleep itself is measured by a clock that      *)
(* stands still while the device is suspended.                             *)
(***************************************************************************)
EXTENDS Rules

CONSTANTS WakeApps,      \* apps, each with a rule of its own
          RuleChoices,   \* the rules files a user may write: WakeApps -> rule set
          Extensions,    \* the seconds an extension request may grant
          Freeze,        \* the seconds a cooldown lasts
          FirstWeekday,  \* the weekday on which now = 0
          TickSecs,      \* a tick takes at most this long (bound)
          ClientSecs,    \* a client is waited for at most this long (the read timeout)
          SuspendSecs,   \* the device sleeps for this long at a time (bound)
          Horizon,       \* the clock stops here (bound)
          Disturbances   \* how often a client, a package change, a suspend or the
                         \* screen may interfere (bound)

ASSUME WakeAssumption ==
    /\ FirstWeekday \in Weekdays
    /\ RuleChoices \subseteq [WakeApps -> RuleSets(Nat)]
    /\ Freeze \in Nat \ {0}
    /\ Extensions \subseteq Nat
    /\ {TickSecs, ClientSecs, SuspendSecs, Horizon, Disturbances} \subseteq Nat

VARIABLES now,        \* seconds of local time
          loopPc,     \* "poll", "client", "due" (a tick comes next) or "tick"
          sleep,      \* seconds until next_tick, on the loop's own clock
          spent,      \* seconds spent on the client or in the tick so far
          rules,      \* the rules in force
          extUntil,   \* app -> extension deadline, 0 if none
          coolUntil,  \* app -> cooldown deadline, 0 if none
          lastDay,    \* the day of the last tick
          decidedAt,  \* what the tick read from the clock
          seenOff,    \* the screen state the last tick read
          verdict,    \* app -> whether the last finished tick blocked it
          screenOff,  \* the device: is the screen off
          disturbed,  \* how often something interfered so far
          slipped,    \* history: the clock moved between the readings of the last
                      \* tick, or the device was suspended since
          age,        \* history: awake seconds since the reading verdict rests on
          offFor      \* history: awake seconds the screen has been off, capped

engineVars == <<rules, extUntil, coolUntil, lastDay, decidedAt, seenOff, verdict>>
history == <<slipped, age, offFor>>
wakeVars == <<now, loopPc, sleep, spent, engineVars, screenOff, disturbed, history>>

------------------------------------------------------------------------------
\* The clock, as now_parts splits it.

DaySecs == DayMinutes * MinuteSecs
DayOf(t) == t \div DaySecs
MinuteOf(t) == (t % DaySecs) \div MinuteSecs
SecondOf(t) == t % MinuteSecs
WeekdayOf(t) == ((FirstWeekday - 1 + DayOf(t)) % 7) + 1

\* What the rules in force decide for an app at time t.
Decision(a, t, off) ==
    Eval(rules[a], t < extUntil[a], t < coolUntil[a], FALSE, off, MinuteOf(t), WeekdayOf(t))

Loaded(file) == [a \in WakeApps |-> Sanitized(file[a])]

EnabledSets == {rules[a] : a \in WakeApps}

NeedsScreen == \E a \in WakeApps : rules[a].lock_block

Expiries == {extUntil[a] : a \in WakeApps} \cup {coolUntil[a] : a \in WakeApps}

\* tick_interval_secs
TickInterval(blocked) ==
    NextWake(EnabledSets, blocked # {}, Expiries, now, MinuteOf(now), WeekdayOf(now),
             SecondOf(now))

------------------------------------------------------------------------------
\* The world.

\* How long a lock-screen rule may take to see the screen go off.
ScreenReaction == ActiveTick + ClientSecs + 2 * TickSecs

Capped(n) == IF n > ScreenReaction + 1 THEN ScreenReaction + 1 ELSE n

Disturb == disturbed < Disturbances /\ disturbed' = disturbed + 1

\* A second passes: in poll only while the loop has nothing to do, elsewhere while the
\* loop is busy.
SecondPasses ==
    /\ now < Horizon
    /\ \/ loopPc = "poll" /\ sleep > 0 /\ UNCHANGED <<spent, slipped>>
       \/ loopPc = "client" /\ spent < ClientSecs /\ spent' = spent + 1 /\ UNCHANGED slipped
       \/ loopPc = "tick" /\ spent < TickSecs /\ spent' = spent + 1 /\ slipped' = TRUE
    /\ now' = now + 1
    /\ sleep' = IF sleep > 0 THEN sleep - 1 ELSE 0
    /\ age' = age + 1
    /\ offFor' = IF screenOff THEN Capped(offFor + 1) ELSE 0
    /\ UNCHANGED <<loopPc, engineVars, screenOff, disturbed>>

Suspend ==
    /\ Disturb
    /\ loopPc = "poll"
    /\ sleep > 0
    /\ SuspendSecs > 0
    /\ now + SuspendSecs <= Horizon
    /\ now' = now + SuspendSecs
    /\ slipped' = TRUE
    /\ UNCHANGED <<loopPc, sleep, spent, engineVars, screenOff, age, offFor>>

\* The screen turns off or on, whether or not a rule looks at it.
ScreenSwitches ==
    /\ Disturb
    /\ screenOff' = ~screenOff
    /\ offFor' = 0
    /\ UNCHANGED <<now, loopPc, sleep, spent, engineVars, slipped, age>>

------------------------------------------------------------------------------
\* The loop.

\* poll reports a connection: handle waits for the request.
Accept ==
    /\ Disturb
    /\ loopPc = "poll"
    /\ loopPc' = "client"
    /\ spent' = 0
    /\ UNCHANGED <<now, sleep, engineVars, screenOff, history>>

\* Engine::tick up to its decision: read the clock, reset on a new day, maintain
\* the cooldowns (used, the apps found over their limit, is free here: Ledger counts
\* usage), look at the screen if a rule asks for it.
NewDay == lastDay # DayOf(now)

MaintainedCooldown(a, used) ==
    LET kept == IF NewDay THEN 0 ELSE coolUntil[a]
    IN  IF (~rules[a].limited) \/ now < kept THEN kept
        ELSE IF a \in used THEN now + Freeze ELSE 0

TickBegins(used) ==
    /\ loopPc = "due" \/ (loopPc = "poll" /\ sleep = 0)
    /\ loopPc' = "tick"
    /\ spent' = 0
    /\ decidedAt' = now
    /\ lastDay' = DayOf(now)
    /\ extUntil' = IF NewDay THEN [a \in WakeApps |-> 0] ELSE extUntil
    /\ coolUntil' = [a \in WakeApps |-> MaintainedCooldown(a, used)]
    /\ seenOff' = (NeedsScreen /\ screenOff)
    /\ slipped' = FALSE
    /\ UNCHANGED <<now, sleep, rules, verdict, screenOff, disturbed, age, offFor>>

\* The tick applies its decisions; then the loop asks how long to sleep.
TickEnds ==
    /\ loopPc = "tick"
    /\ verdict' = [a \in WakeApps |-> Decision(a, decidedAt, seenOff)]
    /\ sleep' = TickInterval({a \in WakeApps : verdict'[a]})
    /\ loopPc' = "poll"
    /\ age' = now - decidedAt
    /\ UNCHANGED <<now, spent, rules, extUntil, coolUntil, lastDay, decidedAt, seenOff,
                   screenOff, disturbed, slipped, offFor>>

\* packages.list was rewritten: the loop ticks at once.
PackagesChange ==
    /\ Disturb
    /\ loopPc = "poll"
    /\ loopPc' = "due"
    /\ UNCHANGED <<now, sleep, spent, engineVars, screenOff, history>>

\* A request that changes nothing (status, an error, a silent client): the loop ticks
\* only if next_tick has come meanwhile.
ClientChangesNothing ==
    /\ loopPc = "client"
    /\ loopPc' = IF sleep = 0 THEN "due" ELSE "poll"
    /\ UNCHANGED <<now, sleep, spent, engineVars, screenOff, disturbed, history>>

\* reload or apply: new rules are in force, and a tick follows at once.
Reload(newRules) ==
    /\ loopPc = "client"
    /\ loopPc' = "due"
    /\ rules' = Loaded(newRules)
    /\ UNCHANGED <<now, sleep, spent, extUntil, coolUntil, lastDay, decidedAt, seenOff,
                   verdict, screenOff, disturbed, history>>

\* extension; how much a day allows is Ledger's matter.
Extend(a, secs) ==
    /\ loopPc = "client"
    /\ loopPc' = "due"
    /\ extUntil' = [extUntil EXCEPT ![a] = (IF @ > now THEN @ ELSE now) + secs]
    /\ extUntil'[a] <= Horizon
    /\ UNCHANGED <<now, sleep, spent, rules, coolUntil, lastDay, decidedAt, seenOff,
                   verdict, screenOff, disturbed, history>>

------------------------------------------------------------------------------

\* The loop is entered: the initial tick is over (a cooldown may have been restored or
\* begun), and next_tick is now.
Init ==
    /\ now = 0
    /\ loopPc = "poll"
    /\ sleep = 0
    /\ spent = 0
    /\ rules \in {Loaded(file) : file \in RuleChoices}
    /\ extUntil = [a \in WakeApps |-> 0]
    /\ \E cooling \in SUBSET {a \in WakeApps : rules[a].limited} :
          coolUntil = [a \in WakeApps |-> IF a \in cooling THEN Freeze ELSE 0]
    /\ lastDay = 0
    /\ decidedAt = 0
    /\ seenOff = FALSE
    /\ verdict = [a \in WakeApps |-> Decision(a, 0, FALSE)]
    /\ screenOff = FALSE
    /\ disturbed = 0
    /\ slipped = FALSE
    /\ age = 0
    /\ offFor = 0

\* The bound on the clock is reached: nothing has to happen any more.
TimeIsUp == now = Horizon /\ UNCHANGED wakeVars

Next ==
    \/ TimeIsUp
    \/ SecondPasses
    \/ Suspend
    \/ ScreenSwitches
    \/ Accept
    \/ PackagesChange
    \/ \E used \in SUBSET WakeApps : TickBegins(used)
    \/ TickEnds
    \/ ClientChangesNothing
    \/ \E newRules \in RuleChoices : Reload(newRules)
    \/ \E a \in WakeApps, secs \in Extensions : Extend(a, secs)

Spec == Init /\ [][Next]_wakeVars

------------------------------------------------------------------------------

\* The types of the loop's state.
TypeOK ==
    /\ now \in 0 .. Horizon
    /\ loopPc \in {"poll", "client", "due", "tick"}
    /\ sleep \in 0 .. IdleTick
    /\ spent \in 0 .. (TickSecs + ClientSecs)
    /\ rules \in [WakeApps -> RuleSets(Weekdays)]
    /\ extUntil \in [WakeApps -> 0 .. Horizon]
    /\ coolUntil \in [WakeApps -> 0 .. Horizon + Freeze]
    /\ lastDay \in 0 .. DayOf(Horizon)
    /\ decidedAt \in 0 .. now
    /\ {seenOff, screenOff, slipped} \subseteq BOOLEAN
    /\ verdict \in [WakeApps -> BOOLEAN]
    /\ disturbed \in 0 .. Disturbances
    /\ age \in Nat
    /\ offFor \in 0 .. (ScreenReaction + 1)

Asleep == loopPc = "poll" /\ sleep > 0

\* While the loop sleeps, what it decided is what it would decide now: no window edge
\* and no deadline falls inside a sleep (next_wake_secs).
DecisionHolds == \A a \in WakeApps : verdict[a] = Decision(a, now, seenOff)

\* That holds whenever both clock readings of the last tick agree.
WakesOnTime == Asleep /\ ~slipped => DecisionHolds

\* What the comments at engine.rs 1025 and 1061 say without a condition: every feature
\* is applied on time, every expiry at the moment it comes.
AlwaysOnTime == Asleep => DecisionHolds

\* No sleep runs across local midnight, where the counters of the day are reset
\* (engine.rs 1068), unless the readings straddled it.
NewDayIsNoticed == Asleep /\ ~slipped => lastDay = DayOf(now)

\* However clients, suspends and slow ticks fall together, the decision in force never
\* rests on a reading older than one idle sleep and what can delay the next tick.
DecisionIsRecent == age <= IdleTick + ClientSecs + 2 * TickSecs

\* An app with the lock-screen rule is blocked soon after the screen goes off,
\* whatever else the loop was doing (the active cadence of next_wake_secs).
LockScreenIsSeen ==
    \A a \in WakeApps :
        /\ loopPc = "poll"
        /\ rules[a].lock_block
        /\ offFor > ScreenReaction
        /\ decidedAt >= extUntil[a]
        => verdict[a]

\* A window is open exactly in the minutes of the week it covers, its tail past
\* midnight counted to the day it started on (README, "Time windows").
WindowsAreTheirMinutes ==
    \A a \in WakeApps : \A w \in rules[a].windows :
        InWindow(w, MinuteOf(now), WeekdayOf(now))
            <=> (WeekdayOf(now) - 1) * DayMinutes + MinuteOf(now) \in MinutesOfWeek(w)
===============================================================================
