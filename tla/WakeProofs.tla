------------------------------- MODULE WakeProofs -------------------------------
(***************************************************************************)
(* Theorems about Wake and the operators of Rules it is built on, for any  *)
(* rules files, any lengths of day, minute and cadences, and any number of *)
(* clients, suspends and slow ticks.  The invariants say what a sleep that *)
(* has begun still promises: SleepInv, that no moment of it differs from   *)
(* its beginning; AgeInv and LockInv, how old its reading may get.         *)
(***************************************************************************)
EXTENDS Wake, WellFoundedInduction, TLAPS

------------------------------------------------------------------------------
\* Least elements.

LEMMA LeastExists ==
    ASSUME NEW S \in SUBSET Nat, S # {}
    PROVE  \E x \in S : \A y \in S : x <= y
<1>. DEFINE R == OpToRel(<, Nat)
<1>1. IsWellFoundedOn(R, Nat)
  BY NatLessThanWellFounded
<1>2. R = {ss \in Nat \X Nat : ss[1] < ss[2]}
  BY DEF OpToRel
<1>. HIDE DEF R
<1>3. PICK x \in S : \A y \in S : ~(<<y, x>> \in R)
  BY <1>1, WFMin
<1>4. ASSUME NEW y \in S PROVE x <= y
  <2>1. y < x => <<y, x>> \in R
    BY <1>2
  <2>. QED BY <2>1, <1>3
<1>. QED BY <1>4

LEMMA MinIsLeast ==
    ASSUME NEW S \in SUBSET Nat, S # {}
    PROVE  Min(S) \in S /\ \A y \in S : Min(S) <= y
BY LeastExists DEF Min

------------------------------------------------------------------------------
\* Division.

LEMMA Division ==
    ASSUME NEW a \in Nat, NEW d \in Nat \ {0}
    PROVE  \E q \in Nat, r \in 0 .. d - 1 : q = a \div d /\ r = a % d /\ a = d * q + r
<1>. DEFINE q == a \div d
            r == a % d
<1>1. q \in Nat /\ r \in 0 .. d - 1 /\ a = d * q + r
  OBVIOUS
<1>. QED BY <1>1

LEMMA DivisionIsUnique ==
    ASSUME NEW d \in Nat \ {0}, NEW q \in Nat, NEW r \in 0 .. d - 1, NEW a \in Nat,
           a = d * q + r
    PROVE  a \div d = q /\ a % d = r
<1>. DEFINE p == a \div d
            s == a % d
<1>1. p \in Nat /\ s \in 0 .. d - 1 /\ a = d * p + s
  OBVIOUS
<1>. HIDE DEF p, s
<1>2. CASE p < q
  <2>1. d * (p + 1) <= d * q
    BY <1>1, <1>2
  <2>. QED BY <1>1, <2>1
<1>3. CASE q < p
  <2>1. d * (q + 1) <= d * p
    BY <1>1, <1>3
  <2>. QED BY <1>1, <2>1
<1>4. CASE p = q
  BY <1>1, <1>4 DEF p, s
<1>. QED BY <1>1, <1>2, <1>3, <1>4

LEMMA DivMonotone ==
    ASSUME NEW a \in Nat, NEW b \in Nat, NEW d \in Nat \ {0}, a <= b
    PROVE  a \div d <= b \div d
<1>. DEFINE q == a \div d
            r == b \div d
<1>1. q \in Nat /\ r \in Nat /\ d * q <= a /\ b < d * (r + 1)
  OBVIOUS
<1>. HIDE DEF q, r
<1>2. SUFFICES ASSUME r + 1 <= q PROVE FALSE
  BY <1>1 DEF q, r
<1>3. d * (r + 1) <= d * q
  BY <1>1, <1>2
<1>. QED BY <1>1, <1>3

\* The clock in days, minutes of the day and seconds of the minute.
LEMMA ClockParts ==
    ASSUME NEW t \in Nat
    PROVE  /\ DaySecs \in Nat \ {0}
           /\ DayOf(t) \in Nat
           /\ MinuteOf(t) \in 0 .. DayMinutes - 1
           /\ SecondOf(t) \in 0 .. MinuteSecs - 1
           /\ MinuteSecs * MinuteOf(t) \in Nat
           /\ DaySecs * DayOf(t) \in Nat
           /\ t = DaySecs * DayOf(t) + MinuteSecs * MinuteOf(t) + SecondOf(t)
<1>1. DayMinutes \in Nat \ {0} /\ MinuteSecs \in Nat \ {0}
  BY RulesAssumption DEF RulesAssumption
<1>2. DaySecs \in Nat \ {0}
  BY <1>1 DEF DaySecs
<1>3. PICK q \in Nat, r \in 0 .. DaySecs - 1 :
          q = t \div DaySecs /\ r = t % DaySecs /\ t = DaySecs * q + r
  BY <1>2, Division
<1>4. PICK m \in Nat, s \in 0 .. MinuteSecs - 1 :
          m = r \div MinuteSecs /\ s = r % MinuteSecs /\ r = MinuteSecs * m + s
  <2>1. r \in Nat
    BY <1>2, <1>3
  <2>. QED BY <1>1, <2>1, Division
<1>5. /\ q \in Nat /\ m \in Nat /\ r \in 0 .. DaySecs - 1 /\ s \in 0 .. MinuteSecs - 1
      /\ t = DaySecs * q + r /\ r = MinuteSecs * m + s
  BY <1>3, <1>4
<1>6. m < DayMinutes
  <2>1. SUFFICES ASSUME DayMinutes <= m PROVE FALSE
    BY <1>1, <1>5
  <2>2. MinuteSecs * DayMinutes <= MinuteSecs * m
    BY <1>1, <1>5, <2>1
  <2>. QED BY <1>1, <1>5, <2>2 DEF DaySecs
<1>7. t = MinuteSecs * (DayMinutes * q + m) + s
  BY <1>1, <1>5 DEF DaySecs
<1>8. DayMinutes * q + m \in Nat
  BY <1>1, <1>5
<1>9. t % MinuteSecs = s
  <2>. DEFINE n == DayMinutes * q + m
  <2>1. n \in Nat /\ t = MinuteSecs * n + s
    BY <1>7, <1>8
  <2>. HIDE DEF n
  <2>2. MinuteSecs \in Nat \ {0} /\ s \in 0 .. MinuteSecs - 1
    BY <1>1, <1>5
  <2>3. t \div MinuteSecs = n /\ t % MinuteSecs = s
    BY <2>1, <2>2, DivisionIsUnique
  <2>. QED BY <2>3
<1>10. DayOf(t) = q /\ MinuteOf(t) = m /\ SecondOf(t) = s
  BY <1>3, <1>4, <1>9 DEF DayOf, MinuteOf, SecondOf
<1>11. MinuteSecs * m \in Nat /\ DaySecs * q \in Nat
  BY <1>1, <1>2, <1>5
<1>12. t = DaySecs * q + MinuteSecs * m + s
  BY <1>5, <1>11
<1>. QED BY <1>1, <1>2, <1>5, <1>6, <1>10, <1>11, <1>12

------------------------------------------------------------------------------
\* The sleep that is chosen.

LEMMA SanitizedType ==
    ASSUME NEW set \in RuleSets(Nat)
    PROVE  Sanitized(set) \in RuleSets(Weekdays)
<1>. DEFINE clean(w) == [w EXCEPT !.days = w.days \cap Weekdays]
<1>1. ASSUME NEW w \in TimeWindows(Nat)
      PROVE  clean(w) \in TimeWindows(Weekdays)
  BY DEF TimeWindows
<1>. HIDE DEF clean
<1>2. set.windows \subseteq TimeWindows(Nat)
  BY DEF RuleSets
<1>3. {clean(w) : w \in set.windows} \subseteq TimeWindows(Weekdays)
  BY <1>1, <1>2
<1>4. Sanitized(set) = [set EXCEPT !.windows = {clean(w) : w \in set.windows}]
  BY DEF Sanitized, clean
<1>. QED BY <1>3, <1>4 DEF RuleSets

LEMMA LoadedType ==
    ASSUME NEW file \in RuleChoices
    PROVE  Loaded(file) \in [WakeApps -> RuleSets(Weekdays)]
BY SanitizedType, WakeAssumption DEF WakeAssumption, Loaded

LEMMA AtLeastOneIs ==
    ASSUME NEW secs \in Int
    PROVE  /\ AtLeastOne(secs) \in Nat \ {0} /\ secs <= AtLeastOne(secs)
           /\ secs >= 1 => AtLeastOne(secs) = secs
BY DEF AtLeastOne

\* What the next sleep is the least of.
Options(blocked) ==
    Cadences(EnabledSets, blocked # {})
        \cup (UNION {EdgeSecs(w, MinuteOf(now), WeekdayOf(now), SecondOf(now)) :
                        w \in (UNION {s.windows : s \in EnabledSets})})
        \cup ToExpiries(Expiries, now)
        \cup {ToMidnight(MinuteOf(now), SecondOf(now))}

LEMMA OptionsType ==
    ASSUME TypeOK, NEW blocked
    PROVE  Options(blocked) \subseteq Nat \ {0} /\ IdleTick \in Options(blocked)
<1>1. now \in Nat /\ DayMinutes \in Nat /\ MinuteSecs \in Nat
  BY RulesAssumption DEF RulesAssumption, TypeOK
<1>2. MinuteOf(now) \in Nat /\ SecondOf(now) \in Nat
  BY <1>1, ClockParts, RulesAssumption DEF RulesAssumption
<1>3. Cadences(EnabledSets, blocked # {}) \subseteq Nat \ {0}
      /\ IdleTick \in Cadences(EnabledSets, blocked # {})
  BY RulesAssumption DEF RulesAssumption, Cadences
<1>4. ASSUME NEW w
      PROVE  EdgeSecs(w, MinuteOf(now), WeekdayOf(now), SecondOf(now)) \subseteq Nat \ {0}
  <2>1. ASSUME NEW s \in Flips(w, MinuteOf(now), WeekdayOf(now))
        PROVE  AtLeastOne(s * MinuteSecs - SecondOf(now)) \in Nat \ {0}
    <3>1. s \in Nat
      BY <1>1, <2>1 DEF Flips
    <3>2. s * MinuteSecs - SecondOf(now) \in Int
      BY <1>1, <1>2, <3>1
    <3>. QED BY <3>2, AtLeastOneIs
  <2>. QED BY <2>1 DEF EdgeSecs
<1>5. ToExpiries(Expiries, now) \subseteq Nat \ {0}
  <2>1. Expiries \subseteq Nat
    BY WakeAssumption DEF WakeAssumption, TypeOK, Expiries
  <2>. QED BY <1>1, <2>1 DEF ToExpiries
<1>6. ToMidnight(MinuteOf(now), SecondOf(now)) \in Nat \ {0}
  <2>1. (DayMinutes - MinuteOf(now)) * MinuteSecs - SecondOf(now) \in Int
    BY <1>1, <1>2
  <2>. QED BY <2>1, AtLeastOneIs DEF ToMidnight
<1>7. UNION {EdgeSecs(w, MinuteOf(now), WeekdayOf(now), SecondOf(now)) :
                w \in UNION {s.windows : s \in EnabledSets}} \subseteq Nat \ {0}
  BY <1>4
<1>. DEFINE edges == UNION {EdgeSecs(w, MinuteOf(now), WeekdayOf(now), SecondOf(now)) :
                                w \in UNION {s.windows : s \in EnabledSets}}
            cadences == Cadences(EnabledSets, blocked # {})
<1>8. Options(blocked) = cadences \cup edges \cup ToExpiries(Expiries, now)
                            \cup {ToMidnight(MinuteOf(now), SecondOf(now))}
  BY Zenon DEF Options
<1>9. cadences \subseteq Nat \ {0} /\ IdleTick \in cadences /\ edges \subseteq Nat \ {0}
  BY <1>3, <1>7
<1>. HIDE DEF edges, cadences
<1>. QED BY <1>5, <1>6, <1>8, <1>9

LEMMA IntervalIsLeast ==
    ASSUME TypeOK, NEW blocked
    PROVE  /\ TickInterval(blocked) \in Nat \ {0}
           /\ \A x \in Options(blocked) : TickInterval(blocked) <= x
<1>1. TickInterval(blocked) = Min(Options(blocked))
  BY DEF TickInterval, NextWake, Options
<1>2. Options(blocked) \in SUBSET Nat /\ Options(blocked) # {} /\ 0 \notin Options(blocked)
  BY OptionsType
<1>3. Min(Options(blocked)) \in Options(blocked)
      /\ \A x \in Options(blocked) : Min(Options(blocked)) <= x
  BY <1>2, MinIsLeast
<1>. QED BY <1>1, <1>2, <1>3

------------------------------------------------------------------------------
\* Type correctness.

LEMMA InitType == Init => TypeOK
<1>. SUFFICES ASSUME Init PROVE TypeOK
  OBVIOUS
<1>. USE RulesAssumption, WakeAssumption DEF RulesAssumption, WakeAssumption
<1>1. /\ now \in 0 .. Horizon /\ spent \in 0 .. (TickSecs + ClientSecs) /\ decidedAt \in 0 .. now
      /\ sleep \in 0 .. IdleTick /\ disturbed \in 0 .. Disturbances /\ age \in Nat
  BY DEF Init
<1>2. lastDay \in 0 .. DayOf(Horizon)
  BY ClockParts DEF Init
<1>3. offFor \in 0 .. (ScreenReaction + 1)
  BY DEF Init, ScreenReaction
<1>4. rules \in [WakeApps -> RuleSets(Weekdays)]
  BY LoadedType DEF Init
<1>5. extUntil \in [WakeApps -> 0 .. Horizon] /\ coolUntil \in [WakeApps -> 0 .. Horizon + Freeze]
  BY DEF Init
<1>6. verdict \in [WakeApps -> BOOLEAN]
  BY DEF Init, Decision, Eval
<1>7. {seenOff, screenOff, slipped} \subseteq BOOLEAN /\ loopPc \in {"poll", "client", "due", "tick"}
  BY DEF Init
<1>. QED BY <1>1, <1>2, <1>3, <1>4, <1>5, <1>6, <1>7 DEF TypeOK

LEMMA SecondPassesType ==
    ASSUME TypeOK, SecondPasses
    PROVE  TypeOK'
<1>. USE RulesAssumption, WakeAssumption DEF RulesAssumption, WakeAssumption
<1>1. /\ now' = now + 1 /\ now < Horizon /\ loopPc' = loopPc /\ screenOff' = screenOff
      /\ disturbed' = disturbed /\ UNCHANGED engineVars /\ age' = age + 1
      /\ sleep' = IF sleep > 0 THEN sleep - 1 ELSE 0
      /\ offFor' = IF screenOff THEN Capped(offFor + 1) ELSE 0
  BY DEF SecondPasses
<1>2. spent' \in 0 .. (TickSecs + ClientSecs)
  <2>1. spent \in 0 .. (TickSecs + ClientSecs) /\ TickSecs \in Nat /\ ClientSecs \in Nat
    BY DEF TypeOK
  <2>2. \/ spent' = spent
        \/ spent < ClientSecs /\ spent' = spent + 1
        \/ spent < TickSecs /\ spent' = spent + 1
    BY DEF SecondPasses
  <2>. QED BY <2>1, <2>2
<1>4. slipped' \in BOOLEAN
  <2>1. slipped' = slipped \/ slipped' = TRUE
    BY DEF SecondPasses
  <2>. QED BY <2>1 DEF TypeOK
<1>3. offFor' \in 0 .. (ScreenReaction + 1)
  BY <1>1 DEF Capped, ScreenReaction, TypeOK
<1>. QED BY <1>1, <1>2, <1>3, <1>4 DEF engineVars, TypeOK

LEMMA TickBeginsType ==
    ASSUME TypeOK, NEW used, TickBegins(used)
    PROVE  TypeOK'
<1>. USE RulesAssumption, WakeAssumption DEF RulesAssumption, WakeAssumption
<1>1. now \in Nat /\ Horizon \in Nat /\ now <= Horizon
  BY DEF TypeOK
<1>2. DayOf(now) \in 0 .. DayOf(Horizon)
  <2>1. DayOf(now) \in Nat /\ DayOf(Horizon) \in Nat /\ DaySecs \in Nat \ {0}
    BY <1>1, ClockParts
  <2>2. now \div DaySecs <= Horizon \div DaySecs
    BY <1>1, <2>1, DivMonotone
  <2>. QED BY <2>1, <2>2 DEF DayOf
<1>3. extUntil' \in [WakeApps -> 0 .. Horizon]
  BY <1>1 DEF TickBegins, TypeOK
<1>4. coolUntil' \in [WakeApps -> 0 .. Horizon + Freeze]
  <2>1. ASSUME NEW a \in WakeApps
        PROVE  MaintainedCooldown(a, used) \in 0 .. Horizon + Freeze
    BY <1>1, <2>1 DEF MaintainedCooldown, TypeOK
  <2>. QED BY <2>1 DEF TickBegins
<1>5. seenOff' \in BOOLEAN
  BY DEF TickBegins
<1>6. /\ now' = now /\ loopPc' = "tick" /\ spent' = 0 /\ decidedAt' = now /\ lastDay' = DayOf(now)
      /\ slipped' = FALSE
      /\ UNCHANGED <<sleep, rules, verdict, screenOff, disturbed, age, offFor>>
  BY DEF TickBegins
<1>7. decidedAt' \in 0 .. now' /\ spent' \in 0 .. (TickSecs + ClientSecs)
  BY <1>1, <1>6
<1>8. {seenOff', screenOff', slipped'} \subseteq BOOLEAN
  BY <1>5, <1>6 DEF TypeOK
<1>. QED BY <1>2, <1>3, <1>4, <1>6, <1>7, <1>8 DEF TypeOK

LEMMA TickEndsType ==
    ASSUME TypeOK, TickEnds
    PROVE  TypeOK'
<1>1. verdict' \in [WakeApps -> BOOLEAN]
  BY DEF TickEnds, Decision, Eval
<1>2. sleep' \in 0 .. IdleTick
  <2>1. PICK blocked : sleep' = TickInterval(blocked)
    BY DEF TickEnds
  <2>2. sleep' \in Nat /\ sleep' <= IdleTick
    BY <2>1, IntervalIsLeast, OptionsType
  <2>. QED BY <2>2, RulesAssumption DEF RulesAssumption
<1>3. age' \in Nat
  BY DEF TickEnds, TypeOK
<1>. QED BY <1>1, <1>2, <1>3 DEF TickEnds, TypeOK

LEMMA RequestType ==
    ASSUME TypeOK,
           \/ \E newRules \in RuleChoices : Reload(newRules)
           \/ \E a \in WakeApps, secs \in Extensions : Extend(a, secs)
    PROVE  TypeOK'
<1>1. CASE \E newRules \in RuleChoices : Reload(newRules)
  BY <1>1, LoadedType DEF Reload, history, TypeOK
<1>2. ASSUME NEW a \in WakeApps, NEW secs \in Extensions, Extend(a, secs)
      PROVE  TypeOK'
  <2>1. secs \in Nat /\ Horizon \in Nat /\ extUntil \in [WakeApps -> 0 .. Horizon] /\ now \in Nat
    BY WakeAssumption DEF WakeAssumption, TypeOK
  <2>2. extUntil' \in [WakeApps -> 0 .. Horizon]
    BY <1>2, <2>1 DEF Extend
  <2>. QED BY <1>2, <2>2 DEF Extend, history, TypeOK
<1>. QED BY <1>1, <1>2

LEMMA OthersType ==
    ASSUME TypeOK,
           \/ Suspend \/ ScreenSwitches \/ Accept \/ PackagesChange
           \/ ClientChangesNothing \/ UNCHANGED wakeVars
    PROVE  TypeOK'
<1>. USE WakeAssumption DEF WakeAssumption, TypeOK
<1>1. CASE Suspend
  BY <1>1 DEF Suspend, Disturb, engineVars
<1>2. CASE ScreenSwitches
  <2>1. screenOff' \in BOOLEAN /\ offFor' \in 0 .. (ScreenReaction + 1)
    BY <1>2, RulesAssumption DEF RulesAssumption, ScreenSwitches, ScreenReaction
  <2>2. {seenOff', screenOff', slipped'} \subseteq BOOLEAN
    BY <1>2, <2>1 DEF ScreenSwitches, engineVars
  <2>3. disturbed' \in 0 .. Disturbances
    BY <1>2 DEF ScreenSwitches, Disturb
  <2>. QED BY <1>2, <2>1, <2>2, <2>3 DEF ScreenSwitches, engineVars
<1>3. CASE Accept \/ PackagesChange
  BY <1>3 DEF Accept, PackagesChange, Disturb, engineVars, history
<1>4. CASE ClientChangesNothing \/ UNCHANGED wakeVars
  BY <1>4 DEF ClientChangesNothing, wakeVars, engineVars, history
<1>. QED BY <1>1, <1>2, <1>3, <1>4

LEMMA StepType == TypeOK /\ [Next]_wakeVars => TypeOK'
<1>. SUFFICES ASSUME TypeOK, [Next]_wakeVars PROVE TypeOK'
  OBVIOUS
<1>. QED BY SecondPassesType, TickBeginsType, TickEndsType, RequestType, OthersType
         DEF Next, TimeIsUp

\* The loop's state keeps its types; above all, no sleep is longer than IDLE_TICK_SECS.
THEOREM TypeCorrect == Spec => []TypeOK
BY InitType, StepType, PTL DEF Spec


------------------------------------------------------------------------------
\* A sleep that starts now has nothing in it.

\* At a later moment of the same day the clock has moved on by whole minutes.
LEMMA SameDay ==
    ASSUME TypeOK, NEW t \in Nat, now <= t,
           t < now + ToMidnight(MinuteOf(now), SecondOf(now))
    PROVE  /\ DayOf(t) = DayOf(now)
           /\ \E k \in Nat : /\ MinuteOf(t) = MinuteOf(now) + k
                             /\ t - now >= k * MinuteSecs - SecondOf(now)
<1>. DEFINE d == DayOf(now)
            m == MinuteOf(now)
            s == SecondOf(now)
            e == DayOf(t)
            n == MinuteOf(t)
            r == SecondOf(t)
<1>1. now \in Nat /\ DayMinutes \in Nat \ {0} /\ MinuteSecs \in Nat \ {0}
  BY RulesAssumption DEF RulesAssumption, TypeOK
<1>2. DaySecs \in Nat \ {0} /\ DaySecs = DayMinutes * MinuteSecs
  BY <1>1 DEF DaySecs
<1>3. /\ d \in Nat /\ m \in 0 .. DayMinutes - 1 /\ s \in 0 .. MinuteSecs - 1
      /\ now = DaySecs * d + MinuteSecs * m + s
  BY <1>1, ClockParts
<1>4. /\ e \in Nat /\ n \in 0 .. DayMinutes - 1 /\ r \in 0 .. MinuteSecs - 1
      /\ t = DaySecs * e + MinuteSecs * n + r
  BY ClockParts
<1>5. t < now + ((DayMinutes - m) * MinuteSecs - s)
  <2>1. MinuteSecs <= (DayMinutes - m) * MinuteSecs
    <3>1. 1 * MinuteSecs <= (DayMinutes - m) * MinuteSecs
      BY <1>1, <1>3
    <3>. QED BY <1>1, <3>1
  <2>2. (DayMinutes - m) * MinuteSecs - s \in Int /\ (DayMinutes - m) * MinuteSecs - s >= 1
    BY <1>1, <1>3, <2>1
  <2>3. ToMidnight(m, s) = (DayMinutes - m) * MinuteSecs - s
    BY <2>2, AtLeastOneIs DEF ToMidnight
  <2>. QED BY <2>3
<1>. HIDE DEF d, m, s, e, n, r
<1>6. MinuteSecs * m \in Nat /\ MinuteSecs * n \in Nat /\ DaySecs * d \in Nat /\ DaySecs * e \in Nat
  BY <1>1, <1>2, <1>3, <1>4
<1>7. t < DaySecs * d + DaySecs
  <2>1. (DayMinutes - m) * MinuteSecs = DaySecs - MinuteSecs * m
    BY <1>1, <1>2, <1>3
  <2>. QED BY <1>2, <1>3, <1>5, <1>6, <2>1
<1>8. DaySecs * d <= t
  BY <1>1, <1>3, <1>6
<1>9. e = d
  <2>1. PICK rest \in 0 .. DaySecs - 1 : t = DaySecs * d + rest
    <3>1. t - DaySecs * d \in 0 .. DaySecs - 1 /\ t = DaySecs * d + (t - DaySecs * d)
      BY <1>2, <1>6, <1>7, <1>8
    <3>. QED BY <3>1
  <2>2. DaySecs \in Nat \ {0} /\ d \in Nat
    BY <1>2, <1>3
  <2>3. t \div DaySecs = d
    BY <2>1, <2>2, DivisionIsUnique
  <2>. QED BY <2>3 DEF e, DayOf
<1>10. MinuteSecs * m + s <= MinuteSecs * n + r
  BY <1>3, <1>4, <1>6, <1>9
<1>11. m <= n
  <2>1. SUFFICES ASSUME n + 1 <= m PROVE FALSE
    BY <1>3, <1>4
  <2>2. MinuteSecs * (n + 1) <= MinuteSecs * m
    BY <1>1, <1>3, <1>4, <2>1
  <2>3. MinuteSecs * (n + 1) = MinuteSecs * n + MinuteSecs
    BY <1>1, <1>4
  <2>. QED BY <1>1, <1>3, <1>4, <1>6, <1>10, <2>2, <2>3
<1>. DEFINE k == n - m
<1>12. k \in Nat /\ n = m + k
  BY <1>3, <1>4, <1>11
<1>13. t - now >= k * MinuteSecs - s
  <2>1. k * MinuteSecs = MinuteSecs * n - MinuteSecs * m
    BY <1>1, <1>3, <1>4
  <2>2. t - now = MinuteSecs * n - MinuteSecs * m + r - s
    BY <1>3, <1>4, <1>6, <1>9
  <2>. QED BY <1>3, <1>4, <1>6, <2>1, <2>2
<1>. HIDE DEF k
<1>. QED BY <1>9, <1>12, <1>13 DEF d, m, s, e, n

LEMMA WeekdayType ==
    ASSUME NEW t \in Nat
    PROVE  WeekdayOf(t) \in Weekdays
<1>1. DayOf(t) \in Nat
  BY ClockParts
<1>2. FirstWeekday - 1 + DayOf(t) \in Nat
  BY <1>1, WakeAssumption DEF WakeAssumption, Weekdays
<1>3. (FirstWeekday - 1 + DayOf(t)) % 7 \in 0 .. 6
  BY <1>2
<1>. QED BY <1>3 DEF WeekdayOf, Weekdays

\* Until the end of the day, minutes ahead are minutes of the same weekday.
LEMMA AheadToday ==
    ASSUME NEW m \in Nat, NEW k \in Nat, NEW weekday \in Weekdays, m + k < DayMinutes
    PROVE  MinuteAfter(m, k) = m + k /\ WeekdayAfter(m, weekday, k) = weekday
<1>1. DayMinutes \in Nat \ {0} /\ m + k \in 0 .. DayMinutes - 1 /\ m + k = DayMinutes * 0 + (m + k)
  BY RulesAssumption DEF RulesAssumption
<1>2. (m + k) \div DayMinutes = 0 /\ (m + k) % DayMinutes = m + k
  <2>. DEFINE n == m + k
  <2>1. DayMinutes \in Nat \ {0} /\ n \in 0 .. DayMinutes - 1 /\ n \in Nat /\ n = DayMinutes * 0 + n
    BY <1>1
  <2>. HIDE DEF n
  <2>2. n \div DayMinutes = 0 /\ n % DayMinutes = n
    BY <2>1, DivisionIsUnique
  <2>. QED BY <2>2 DEF n
<1>3. ((weekday - 1 + 0) % 7) + 1 = weekday
  BY DEF Weekdays
<1>. QED BY <1>2, <1>3 DEF MinuteAfter, WeekdayAfter

\* Before the first flip of a window its answer is today's.
LEMMA WindowKeepsStill ==
    ASSUME TypeOK, NEW blocked, NEW a \in WakeApps, NEW w \in rules[a].windows,
           NEW t \in Nat, now <= t, t < now + TickInterval(blocked)
    PROVE  InWindow(w, MinuteOf(t), WeekdayOf(t)) = InWindow(w, MinuteOf(now), WeekdayOf(now))
<1>. DEFINE m == MinuteOf(now)
            s == SecondOf(now)
            weekday == WeekdayOf(now)
            interval == TickInterval(blocked)
            flips == Flips(w, m, weekday)
<1>1. now \in Nat /\ DayMinutes \in Nat \ {0} /\ MinuteSecs \in Nat \ {0}
  BY RulesAssumption DEF RulesAssumption, TypeOK
<1>2. m \in 0 .. DayMinutes - 1 /\ s \in 0 .. MinuteSecs - 1 /\ weekday \in Weekdays
  BY <1>1, ClockParts, WeekdayType
<1>3. interval \in Nat \ {0} /\ \A x \in Options(blocked) : interval <= x
  BY IntervalIsLeast
<1>4. t < now + ToMidnight(m, s)
  <2>1. ToMidnight(m, s) \in Options(blocked) /\ ToMidnight(m, s) \in Nat
    BY OptionsType DEF Options
  <2>2. interval <= ToMidnight(m, s)
    BY <1>3, <2>1
  <2>. QED BY <1>1, <1>3, <2>1, <2>2
<1>5. PICK k \in Nat : MinuteOf(t) = m + k /\ t - now >= k * MinuteSecs - s
  BY <1>4, SameDay
<1>6. DayOf(t) = DayOf(now) /\ WeekdayOf(t) = weekday
  BY <1>4, SameDay DEF WeekdayOf
<1>7. m + k < DayMinutes
  BY <1>1, <1>5, ClockParts
<1>8. MinuteAfter(m, k) = MinuteOf(t) /\ WeekdayAfter(m, weekday, k) = weekday
  BY <1>2, <1>5, <1>7, AheadToday
<1>9. CASE k = 0
  <2>1. MinuteOf(t) = m
    BY <1>2, <1>5, <1>9
  <2>. QED BY <1>6, <2>1
<1>10. CASE k # 0 /\ k \notin flips
  <2>1. k \in 1 .. 2 * DayMinutes
    BY <1>1, <1>2, <1>7, <1>10
  <2>. QED BY <1>6, <1>8, <1>10, <2>1 DEF Flips
<1>11. CASE k \in flips
  <2>1. flips \subseteq 1 .. 2 * DayMinutes
    BY DEF Flips
  <2>2. PICK f \in flips : \A y \in flips : f <= y
    <3>1. flips \in SUBSET Nat
      BY <1>1, <2>1
    <3>. QED BY <1>11, <3>1, LeastExists
  <2>3. f \in Nat /\ f >= 1 /\ f <= k
    BY <1>1, <1>11, <2>1, <2>2
  <2>4. f * MinuteSecs >= MinuteSecs /\ f * MinuteSecs <= k * MinuteSecs
        /\ f * MinuteSecs \in Nat /\ k * MinuteSecs \in Nat
    <3>1. 1 * MinuteSecs <= f * MinuteSecs
      BY <1>1, <2>3
    <3>2. f * MinuteSecs <= k * MinuteSecs
      BY <1>1, <2>3
    <3>3. f * MinuteSecs \in Nat /\ k * MinuteSecs \in Nat
      BY <1>1, <2>3
    <3>. QED BY <1>1, <3>1, <3>2, <3>3
  <2>5. AtLeastOne(f * MinuteSecs - s) = f * MinuteSecs - s
    BY <1>1, <1>2, <2>4, AtLeastOneIs
  <2>6. f * MinuteSecs - s \in EdgeSecs(w, m, weekday, s)
    BY <2>2, <2>5 DEF EdgeSecs
  <2>7. EdgeSecs(w, m, weekday, s) \subseteq Options(blocked)
    <3>1. w \in UNION {r.windows : r \in EnabledSets}
      BY DEF EnabledSets
    <3>2. EdgeSecs(w, m, weekday, s) \subseteq
              UNION {EdgeSecs(v, m, weekday, s) : v \in (UNION {r.windows : r \in EnabledSets})}
      BY <3>1
    <3>. QED BY <3>2 DEF Options
  <2>8. interval <= f * MinuteSecs - s
    BY <1>3, <2>6, <2>7
  <2>. QED BY <1>1, <1>2, <1>3, <1>5, <2>4, <2>8
<1>. QED BY <1>9, <1>10, <1>11

\* A moment at which nothing differs from what the last tick found.
SettledAt(t) ==
    /\ DayOf(t) = lastDay
    /\ \A a \in WakeApps : verdict[a] = Decision(a, t, seenOff)

\* No moment before the next wake-up differs in day or decision from now.
LEMMA SleepIsQuiet ==
    ASSUME TypeOK, NEW blocked, NEW a \in WakeApps, NEW off \in BOOLEAN,
           NEW t \in Nat, now <= t, t < now + TickInterval(blocked)
    PROVE  DayOf(t) = DayOf(now) /\ Decision(a, t, off) = Decision(a, now, off)
<1>. DEFINE interval == TickInterval(blocked)
<1>1. now \in Nat /\ interval \in Nat /\ \A x \in Options(blocked) : interval <= x
  BY IntervalIsLeast DEF TypeOK
<1>2. DayOf(t) = DayOf(now)
  <2>1. ToMidnight(MinuteOf(now), SecondOf(now)) \in Options(blocked)
        /\ ToMidnight(MinuteOf(now), SecondOf(now)) \in Nat
    BY OptionsType DEF Options
  <2>2. t < now + ToMidnight(MinuteOf(now), SecondOf(now))
    BY <1>1, <2>1
  <2>. QED BY <2>2, SameDay
<1>3. ASSUME NEW u \in Expiries, u \in Nat
      PROVE  (t < u) = (now < u)
  <2>1. CASE u > now
    <3>1. u - now \in ToExpiries(Expiries, now)
      BY <2>1 DEF ToExpiries
    <3>2. interval <= u - now
      BY <1>1, <3>1 DEF Options
    <3>. QED BY <1>1, <1>3, <2>1, <3>2
  <2>2. CASE ~(u > now)
    BY <1>1, <1>3, <2>2
  <2>. QED BY <2>1, <2>2
<1>4. (t < extUntil[a]) = (now < extUntil[a]) /\ (t < coolUntil[a]) = (now < coolUntil[a])
  <2>1. extUntil[a] \in Expiries /\ coolUntil[a] \in Expiries
    BY DEF Expiries
  <2>2. extUntil[a] \in Nat /\ coolUntil[a] \in Nat
    BY WakeAssumption DEF WakeAssumption, TypeOK
  <2>. QED BY <1>3, <2>1, <2>2
<1>5. ASSUME NEW w \in rules[a].windows
      PROVE  InWindow(w, MinuteOf(t), WeekdayOf(t)) = InWindow(w, MinuteOf(now), WeekdayOf(now))
  BY WindowKeepsStill
<1>6. WindowsBlock(rules[a], MinuteOf(t), WeekdayOf(t))
        = WindowsBlock(rules[a], MinuteOf(now), WeekdayOf(now))
  <2>1. (\E w \in rules[a].windows : InWindow(w, MinuteOf(t), WeekdayOf(t)))
          = (\E w \in rules[a].windows : InWindow(w, MinuteOf(now), WeekdayOf(now)))
    BY <1>5
  <2>. QED BY <2>1 DEF WindowsBlock
<1>7. Decision(a, t, off) = Decision(a, now, off)
  BY <1>4, <1>6 DEF Decision, Eval
<1>. QED BY <1>2, <1>7
\* Along a sleep, and while a client is served during it, every remaining moment is
\* settled, unless the clock slipped.
SleepInv ==
    /\ loopPc = "tick" /\ ~slipped => now = decidedAt /\ lastDay = DayOf(now)
    /\ loopPc \in {"poll", "client"} /\ sleep > 0 /\ ~slipped =>
          \A t \in now .. now + sleep - 1 : SettledAt(t)

LEMMA SettledStays ==
    ASSUME NEW t, SettledAt(t), UNCHANGED engineVars
    PROVE  SettledAt(t)'
BY DEF SettledAt, Decision, engineVars

LEMMA TickEndsSleep ==
    ASSUME TypeOK, SleepInv, TickEnds
    PROVE  SleepInv'
<1>1. loopPc = "tick" /\ loopPc' = "poll" /\ now' = now /\ lastDay' = lastDay /\ slipped' = slipped
      /\ rules' = rules /\ extUntil' = extUntil /\ coolUntil' = coolUntil /\ seenOff' = seenOff
  BY DEF TickEnds
<1>2. SUFFICES ASSUME ~slipped, NEW t \in now .. now + sleep' - 1
               PROVE  SettledAt(t)'
  BY <1>1 DEF SleepInv
<1>3. now = decidedAt /\ lastDay = DayOf(now) /\ now \in Nat /\ seenOff \in BOOLEAN
  BY <1>1, <1>2 DEF SleepInv, TypeOK
<1>4. PICK blocked : sleep' = TickInterval(blocked)
  BY DEF TickEnds
<1>5. TickInterval(blocked) \in Nat
  BY IntervalIsLeast
<1>6. t \in Nat /\ now <= t /\ t < now + TickInterval(blocked)
  BY <1>2, <1>3, <1>4, <1>5
<1>7. DayOf(t) = lastDay'
  <2>1. CASE WakeApps = {}
    <3>1. t < now + ToMidnight(MinuteOf(now), SecondOf(now))
      <4>1. ToMidnight(MinuteOf(now), SecondOf(now)) \in Options(blocked)
            /\ ToMidnight(MinuteOf(now), SecondOf(now)) \in Nat
        BY OptionsType DEF Options
      <4>2. TickInterval(blocked) <= ToMidnight(MinuteOf(now), SecondOf(now))
        BY <4>1, IntervalIsLeast
      <4>. QED BY <1>3, <1>5, <1>6, <4>1, <4>2
    <3>. QED BY <1>1, <1>3, <1>6, <3>1, SameDay
  <2>2. ASSUME NEW a \in WakeApps PROVE DayOf(t) = lastDay'
    BY <1>1, <1>3, <1>6, SleepIsQuiet
  <2>. QED BY <2>1, <2>2
<1>8. ASSUME NEW a \in WakeApps
      PROVE  verdict'[a] = Decision(a, t, seenOff)
  <2>1. verdict'[a] = Decision(a, now, seenOff)
    BY <1>3 DEF TickEnds
  <2>2. Decision(a, t, seenOff) = Decision(a, now, seenOff)
    BY <1>3, <1>6, SleepIsQuiet
  <2>. QED BY <2>1, <2>2
<1>. QED BY <1>1, <1>7, <1>8 DEF SettledAt, Decision

LEMMA StepSleep == TypeOK /\ SleepInv /\ [Next]_wakeVars => SleepInv'
<1>. SUFFICES ASSUME TypeOK, SleepInv, [Next]_wakeVars PROVE SleepInv'
  OBVIOUS
<1>0. now \in Nat /\ sleep \in Nat /\ IdleTick \in Nat
  BY RulesAssumption DEF RulesAssumption, TypeOK
<1>1. CASE SecondPasses
  <2>1. UNCHANGED engineVars /\ now' = now + 1 /\ sleep' = (IF sleep > 0 THEN sleep - 1 ELSE 0)
        /\ loopPc' = loopPc /\ (loopPc = "tick" => slipped') /\ (loopPc # "tick" => slipped' = slipped)
    BY <1>1 DEF SecondPasses
  <2>2. ASSUME loopPc \in {"poll", "client"}, sleep' > 0, ~slipped',
               NEW t \in now' .. now' + sleep' - 1
        PROVE  SettledAt(t)'
    <3>1. t \in now .. now + sleep - 1 /\ sleep > 0 /\ ~slipped
      BY <1>0, <2>1, <2>2
    <3>. QED BY <2>1, <2>2, <3>1, SettledStays DEF SleepInv
  <2>. QED BY <2>1, <2>2 DEF SleepInv
<1>2. ASSUME NEW used, TickBegins(used)
      PROVE  SleepInv'
  BY <1>2 DEF TickBegins, SleepInv, DayOf
<1>3. CASE TickEnds
  BY <1>3, TickEndsSleep
<1>4. CASE Suspend \/ PackagesChange \/ \E newRules \in RuleChoices : Reload(newRules)
  BY <1>4 DEF Suspend, PackagesChange, Reload, SleepInv
<1>5. ASSUME NEW a \in WakeApps, NEW secs \in Extensions, Extend(a, secs)
      PROVE  SleepInv'
  BY <1>5 DEF Extend, SleepInv
<1>6. CASE Accept \/ ClientChangesNothing \/ ScreenSwitches \/ UNCHANGED wakeVars
  <2>1. UNCHANGED engineVars /\ now' = now /\ sleep' = sleep /\ slipped' = slipped
        /\ (loopPc' = loopPc \/ loopPc' = "due"
              \/ {loopPc, loopPc'} \subseteq {"poll", "client"})
    BY <1>6 DEF Accept, ClientChangesNothing, ScreenSwitches, wakeVars, history
  <2>2. ASSUME loopPc' \in {"poll", "client"}, sleep' > 0, ~slipped',
               NEW t \in now' .. now' + sleep' - 1
        PROVE  SettledAt(t)'
    BY <2>1, <2>2, SettledStays DEF SleepInv
  <2>3. loopPc' = "tick" /\ ~slipped' => now' = decidedAt' /\ lastDay' = DayOf(now')
    BY <2>1 DEF SleepInv, engineVars
  <2>. QED BY <2>2, <2>3 DEF SleepInv, DayOf
<1>. QED BY <1>1, <1>2, <1>3, <1>4, <1>5, <1>6 DEF Next, TimeIsUp

\* No window edge and no deadline falls inside a sleep, whatever the rules are
\* (next_wake_secs, window_edge_secs).
THEOREM OnTimeCorrect == Spec => []WakesOnTime
<1>1. Init => SleepInv
  BY DEF Init, SleepInv
<1>2. TypeOK /\ SleepInv => WakesOnTime
  <2>. SUFFICES ASSUME TypeOK, SleepInv, Asleep, ~slipped PROVE DecisionHolds
    BY DEF WakesOnTime
  <2>1. now \in Nat /\ sleep \in Nat
    BY RulesAssumption DEF RulesAssumption, TypeOK
  <2>2. now \in now .. now + sleep - 1
    BY <2>1 DEF Asleep
  <2>3. SettledAt(now)
    BY <2>2 DEF SleepInv, Asleep
  <2>. QED BY <2>3 DEF SettledAt, DecisionHolds
<1>. QED BY <1>1, <1>2, StepSleep, TypeCorrect, PTL DEF Spec

\* No sleep runs across local midnight, where the day's counters are reset (the midnight
\* cut of next_wake_secs).
THEOREM NewDayCorrect == Spec => []NewDayIsNoticed
<1>1. Init => SleepInv
  BY DEF Init, SleepInv
<1>2. TypeOK /\ SleepInv => NewDayIsNoticed
  <2>. SUFFICES ASSUME TypeOK, SleepInv, Asleep, ~slipped PROVE lastDay = DayOf(now)
    BY DEF NewDayIsNoticed
  <2>1. now \in Nat /\ sleep \in Nat
    BY RulesAssumption DEF RulesAssumption, TypeOK
  <2>2. now \in now .. now + sleep - 1
    BY <2>1 DEF Asleep
  <2>3. SettledAt(now)
    BY <2>2 DEF SleepInv, Asleep
  <2>. QED BY <2>3 DEF SettledAt
<1>. QED BY <1>1, <1>2, StepSleep, TypeCorrect, PTL DEF Spec
------------------------------------------------------------------------------
\* How long a reading stays in force.

\* While the loop sleeps for at most limit after a tick, its reading gets no older than
\* that, the tick and the client that may hold it up.
DueWithin(limit) ==
    /\ loopPc \in {"poll", "client"} /\ sleep > 0 => age + sleep <= limit + TickSecs
    /\ loopPc = "poll" => age <= limit + TickSecs
    /\ loopPc = "client" => age <= limit + TickSecs + spent

LoopInv ==
    /\ loopPc = "client" => spent <= ClientSecs
    /\ loopPc = "tick" => spent <= TickSecs /\ now = decidedAt + spent

AgeInv ==
    /\ DueWithin(IdleTick)
    /\ loopPc = "due" => age <= IdleTick + TickSecs + ClientSecs
    /\ loopPc = "tick" => age <= IdleTick + TickSecs + ClientSecs + spent

LEMMA StepLoop == TypeOK /\ LoopInv /\ [Next]_wakeVars => LoopInv'
<1>. SUFFICES ASSUME TypeOK, LoopInv, [Next]_wakeVars PROVE LoopInv'
  OBVIOUS
<1>. USE WakeAssumption DEF WakeAssumption
<1>0. now \in Nat /\ spent \in Nat /\ decidedAt \in Nat
  BY DEF TypeOK
<1>1. CASE SecondPasses
  BY <1>0, <1>1 DEF SecondPasses, LoopInv, engineVars
<1>2. ASSUME NEW used, TickBegins(used)
      PROVE  LoopInv'
  BY <1>0, <1>2 DEF TickBegins, LoopInv
<1>3. CASE TickEnds \/ Suspend \/ PackagesChange \/ Accept \/ ClientChangesNothing
           \/ \E newRules \in RuleChoices : Reload(newRules)
  BY <1>0, <1>3 DEF TickEnds, Suspend, PackagesChange, Accept, ClientChangesNothing, Reload, LoopInv
<1>4. ASSUME NEW a \in WakeApps, NEW secs \in Extensions, Extend(a, secs)
      PROVE  LoopInv'
  BY <1>4 DEF Extend, LoopInv
<1>5. CASE ScreenSwitches \/ UNCHANGED wakeVars
  BY <1>5 DEF ScreenSwitches, wakeVars, engineVars, LoopInv
<1>. QED BY <1>1, <1>2, <1>3, <1>4, <1>5 DEF Next, TimeIsUp

\* Only the end of a tick can make a reading outlast its limit.
LEMMA StillDue ==
    ASSUME TypeOK, LoopInv, NEW limit \in Nat, DueWithin(limit), [Next]_wakeVars, ~TickEnds
    PROVE  DueWithin(limit)'
<1>. USE WakeAssumption DEF WakeAssumption
<1>0. age \in Nat /\ sleep \in Nat /\ spent \in Nat
  BY RulesAssumption DEF RulesAssumption, TypeOK
<1>1. CASE SecondPasses
  <2>1. age' = age + 1 /\ loopPc' = loopPc /\ sleep' = (IF sleep > 0 THEN sleep - 1 ELSE 0)
        /\ (loopPc = "poll" => sleep > 0) /\ (loopPc = "client" => spent' = spent + 1)
    BY <1>1 DEF SecondPasses
  <2>. QED BY <1>0, <2>1 DEF DueWithin
<1>2. ASSUME NEW used, TickBegins(used)
      PROVE  DueWithin(limit)'
  BY <1>2 DEF TickBegins, DueWithin
<1>3. CASE Suspend \/ PackagesChange \/ \E newRules \in RuleChoices : Reload(newRules)
  BY <1>3 DEF Suspend, PackagesChange, Reload, DueWithin
<1>4. CASE Accept
  BY <1>0, <1>4 DEF Accept, history, DueWithin
<1>5. CASE ClientChangesNothing
  BY <1>0, <1>5 DEF ClientChangesNothing, history, DueWithin
<1>6. ASSUME NEW a \in WakeApps, NEW secs \in Extensions, Extend(a, secs)
      PROVE  DueWithin(limit)'
  BY <1>6 DEF Extend, DueWithin
<1>7. CASE ScreenSwitches \/ UNCHANGED wakeVars
  BY <1>7 DEF ScreenSwitches, wakeVars, history, DueWithin
<1>. QED BY <1>1, <1>2, <1>3, <1>4, <1>5, <1>6, <1>7 DEF Next, TimeIsUp

\* The sleep a tick ends with is no longer than any of the options.
LEMMA SleepIsShort ==
    ASSUME TypeOK, TickEnds, NEW limit, \A blocked : limit \in Options(blocked)
    PROVE  sleep' \in Nat /\ sleep' <= limit
<1>1. PICK blocked : sleep' = TickInterval(blocked)
  BY DEF TickEnds
<1>. QED BY <1>1, IntervalIsLeast

LEMMA TickEndsDue ==
    ASSUME TypeOK, LoopInv, TickEnds, NEW limit \in Nat, sleep' \in Nat, sleep' <= limit
    PROVE  DueWithin(limit)' /\ age' <= TickSecs
<1>1. loopPc' = "poll" /\ age' = spent /\ spent <= TickSecs /\ spent \in Nat
  <2>1. now = decidedAt + spent /\ spent <= TickSecs /\ loopPc' = "poll" /\ age' = now - decidedAt
    BY DEF TickEnds, LoopInv
  <2>2. decidedAt \in Nat /\ spent \in Nat
    BY WakeAssumption DEF WakeAssumption, TypeOK
  <2>. QED BY <2>1, <2>2
<1>2. TickSecs \in Nat
  BY WakeAssumption DEF WakeAssumption
<1>3. age' <= TickSecs /\ age' \in Nat
  BY <1>1
<1>4. age' + sleep' <= limit + TickSecs /\ age' <= limit + TickSecs
  <2>1. PICK n \in Nat, m \in Nat : n = sleep' /\ m = age'
    BY <1>3
  <2>2. n <= limit /\ m <= TickSecs
    BY <1>3, <2>1
  <2>3. m + n <= limit + TickSecs /\ m <= limit + TickSecs
    BY <1>2, <2>2
  <2>. QED BY <2>1, <2>3
<1>5. loopPc' # "client"
  BY <1>1
<1>. QED BY <1>3, <1>4, <1>5 DEF DueWithin

LEMMA StepAge == TypeOK /\ LoopInv /\ AgeInv /\ [Next]_wakeVars => AgeInv'
<1>. SUFFICES ASSUME TypeOK, LoopInv, AgeInv, [Next]_wakeVars PROVE AgeInv'
  OBVIOUS
<1>. USE WakeAssumption DEF WakeAssumption
<1>0. age \in Nat /\ sleep \in Nat /\ spent \in Nat /\ IdleTick \in Nat
  BY RulesAssumption DEF RulesAssumption, TypeOK
<1>1. CASE TickEnds
  <2>1. DueWithin(IdleTick)'
    BY <1>0, <1>1, SleepIsShort, TickEndsDue, OptionsType
  <2>2. loopPc' = "poll"
    BY <1>1 DEF TickEnds
  <2>. QED BY <2>1, <2>2 DEF AgeInv
<1>2. CASE ~TickEnds
  <2>1. DueWithin(IdleTick)'
    BY <1>0, <1>2, StillDue DEF AgeInv
  <2>2. loopPc' = "due" => age' <= IdleTick + TickSecs + ClientSecs
    <3>1. CASE SecondPasses \/ TimeIsUp \/ UNCHANGED wakeVars
      BY <1>0, <3>1 DEF SecondPasses, TimeIsUp, wakeVars, history, AgeInv
    <3>2. CASE Suspend \/ ScreenSwitches \/ Accept
               \/ \E used \in SUBSET WakeApps : TickBegins(used)
      BY <3>2 DEF Suspend, ScreenSwitches, Accept, TickBegins, AgeInv
    <3>3. CASE \/ PackagesChange \/ ClientChangesNothing
               \/ \E newRules \in RuleChoices : Reload(newRules)
               \/ \E a \in WakeApps, secs \in Extensions : Extend(a, secs)
      <4>1. age' = age /\ loopPc \in {"poll", "client"}
        BY <3>3 DEF PackagesChange, ClientChangesNothing, Reload, Extend, history
      <4>. QED BY <1>0, <4>1 DEF AgeInv, DueWithin, LoopInv
    <3>. QED BY <1>2, <3>1, <3>2, <3>3 DEF Next
  <2>3. loopPc' = "tick" => age' <= IdleTick + TickSecs + ClientSecs + spent'
    <3>1. CASE SecondPasses
      BY <1>0, <3>1 DEF SecondPasses, AgeInv
    <3>2. ASSUME NEW used, TickBegins(used)
          PROVE  age' <= IdleTick + TickSecs + ClientSecs + spent'
      BY <1>0, <3>2 DEF TickBegins, AgeInv, DueWithin
    <3>3. CASE \/ Suspend \/ PackagesChange \/ Accept \/ ClientChangesNothing
               \/ \E newRules \in RuleChoices : Reload(newRules)
               \/ \E a \in WakeApps, secs \in Extensions : Extend(a, secs)
      BY <3>3 DEF Suspend, PackagesChange, Accept, ClientChangesNothing, Reload, Extend
    <3>4. CASE ScreenSwitches \/ UNCHANGED wakeVars
      BY <3>4 DEF ScreenSwitches, wakeVars, history, AgeInv
    <3>. QED BY <1>2, <3>1, <3>2, <3>3, <3>4 DEF Next, TimeIsUp
  <2>. QED BY <2>1, <2>2, <2>3 DEF AgeInv
<1>. QED BY <1>1, <1>2

\* However clients, suspends and slow ticks fall together, no decision in force rests on
\* a reading older than one idle sleep and what can delay the next tick (the poll timeout
\* and the handling of events in run_daemon).
THEOREM RecentCorrect == Spec => []DecisionIsRecent
<1>1. Init => LoopInv /\ AgeInv
  BY RulesAssumption, WakeAssumption
     DEF RulesAssumption, WakeAssumption, Init, LoopInv, AgeInv, DueWithin
<1>2. TypeOK /\ LoopInv /\ AgeInv => DecisionIsRecent
  <2>. SUFFICES ASSUME TypeOK, LoopInv, AgeInv PROVE DecisionIsRecent
    OBVIOUS
  <2>1. age \in Nat /\ spent \in Nat /\ IdleTick \in Nat /\ TickSecs \in Nat /\ ClientSecs \in Nat
        /\ loopPc \in {"poll", "client", "due", "tick"}
    BY RulesAssumption, WakeAssumption DEF RulesAssumption, WakeAssumption, TypeOK
  <2>. QED BY <2>1 DEF DecisionIsRecent, LoopInv, AgeInv, DueWithin
<1>. QED BY <1>1, <1>2, StepLoop, StepAge, TypeCorrect, PTL DEF Spec
------------------------------------------------------------------------------
\* The lock screen.

\* What the last tick read and decided; with a screen rule in force it read the screen,
\* and the next reading comes at the active cadence.
LockInv ==
    /\ offFor > 0 => screenOff
    /\ loopPc = "tick" /\ NeedsScreen /\ offFor > spent => seenOff
    /\ loopPc \in {"poll", "client"} =>
          /\ \A a \in WakeApps : verdict[a] = Decision(a, decidedAt, seenOff)
          /\ NeedsScreen => DueWithin(ActiveTick) /\ (offFor > age => seenOff)

LEMMA ActiveIsOption ==
    ASSUME NeedsScreen, NEW blocked
    PROVE  ActiveTick \in Options(blocked)
<1>1. PICK s \in EnabledSets : NeedsCadence(s)
  BY DEF NeedsScreen, EnabledSets, NeedsCadence
<1>2. ActiveTick \in Cadences(EnabledSets, blocked # {})
  BY <1>1 DEF Cadences
<1>. QED BY <1>2 DEF Options

LEMMA TickEndsLock ==
    ASSUME TypeOK, LoopInv, LockInv, TickEnds
    PROVE  LockInv'
<1>1. /\ loopPc = "tick" /\ loopPc' = "poll" /\ offFor' = offFor /\ screenOff' = screenOff
      /\ decidedAt' = decidedAt /\ seenOff' = seenOff /\ rules' = rules /\ spent' = spent
      /\ extUntil' = extUntil /\ coolUntil' = coolUntil /\ age' = now - decidedAt
      /\ verdict' = [a \in WakeApps |-> Decision(a, decidedAt, seenOff)]
  BY DEF TickEnds
<1>2. \A a \in WakeApps : verdict'[a] = Decision(a, decidedAt, seenOff)'
  BY <1>1 DEF Decision
<1>3. NeedsScreen' = NeedsScreen
  BY <1>1 DEF NeedsScreen
<1>4. ASSUME NeedsScreen
      PROVE  DueWithin(ActiveTick)' /\ (offFor' > age' => seenOff')
  <2>1. ActiveTick \in Nat
    BY RulesAssumption DEF RulesAssumption
  <2>2. DueWithin(ActiveTick)'
    BY <1>4, <2>1, ActiveIsOption, SleepIsShort, TickEndsDue
  <2>3. decidedAt \in Nat /\ spent \in Nat
    BY WakeAssumption DEF WakeAssumption, TypeOK
  <2>4. age' = spent
    BY <1>1, <2>3 DEF LoopInv
  <2>5. offFor > spent => seenOff
    BY <1>1, <1>4 DEF LockInv
  <2>. QED BY <1>1, <2>2, <2>4, <2>5
<1>5. offFor' > 0 => screenOff'
  BY <1>1 DEF LockInv
<1>. QED BY <1>1, <1>2, <1>3, <1>4, <1>5 DEF LockInv

LEMMA StepLock == TypeOK /\ LoopInv /\ LockInv /\ [Next]_wakeVars => LockInv'
<1>. SUFFICES ASSUME TypeOK, LoopInv, LockInv, [Next]_wakeVars PROVE LockInv'
  OBVIOUS
<1>. USE WakeAssumption DEF WakeAssumption
<1>0. age \in Nat /\ spent \in Nat /\ offFor \in Nat /\ ActiveTick \in Nat
  BY RulesAssumption DEF RulesAssumption, TypeOK, ScreenReaction
<1>1. CASE TickEnds
  BY <1>1, TickEndsLock
<1>2. CASE ~TickEnds /\ loopPc' \in {"poll", "client"}
  <2>1. loopPc \in {"poll", "client"} /\ UNCHANGED engineVars
    BY <1>2 DEF Next, TimeIsUp, SecondPasses, Suspend, ScreenSwitches, Accept, PackagesChange,
                TickBegins, ClientChangesNothing, Reload, Extend, wakeVars
  <2>2. \A a \in WakeApps : verdict'[a] = Decision(a, decidedAt, seenOff)'
    BY <2>1 DEF LockInv, Decision, engineVars
  <2>3. NeedsScreen' = NeedsScreen /\ seenOff' = seenOff
    BY <2>1 DEF NeedsScreen, engineVars
  <2>4. NeedsScreen => DueWithin(ActiveTick)'
    BY <1>0, <1>2, <2>1, StillDue DEF LockInv
  <2>5. \/ age' = age /\ (offFor' = offFor \/ offFor' = 0)
        \/ age' = age + 1 /\ offFor' \in Nat /\ offFor' <= offFor + 1
    <3>1. CASE SecondPasses
      BY <1>0, <3>1, RulesAssumption
         DEF SecondPasses, Capped, ScreenReaction, RulesAssumption
    <3>2. CASE ~SecondPasses
      BY <1>2, <2>1, <3>2
         DEF Next, TimeIsUp, Suspend, ScreenSwitches, Accept, PackagesChange,
             TickBegins, ClientChangesNothing, Reload, Extend, wakeVars, history
    <3>. QED BY <3>1, <3>2
  <2>6. NeedsScreen => (offFor' > age' => seenOff')
    BY <1>0, <2>1, <2>3, <2>5 DEF LockInv
  <2>7. offFor' > 0 => screenOff'
    <3>1. CASE SecondPasses
      BY <3>1 DEF SecondPasses
    <3>2. CASE ~SecondPasses
      BY <1>2, <2>1, <3>2
         DEF Next, TimeIsUp, Suspend, ScreenSwitches, Accept, PackagesChange,
             TickBegins, ClientChangesNothing, Reload, Extend, wakeVars, history, LockInv
    <3>. QED BY <3>1, <3>2
  <2>. QED BY <1>2, <2>2, <2>3, <2>4, <2>6, <2>7 DEF LockInv
<1>3. CASE ~TickEnds /\ loopPc' \notin {"poll", "client"}
  <2>1. CASE SecondPasses
    <3>1. loopPc = "tick" /\ loopPc' = loopPc => spent' = spent + 1
      BY <2>1 DEF SecondPasses
    <3>2. loopPc' = loopPc /\ UNCHANGED engineVars /\ screenOff' = screenOff
          /\ offFor' = (IF screenOff THEN Capped(offFor + 1) ELSE 0)
      BY <2>1 DEF SecondPasses
    <3>3. offFor' \in Nat /\ offFor' <= offFor + 1 /\ (offFor' > 0 => screenOff')
      BY <1>0, <3>2, RulesAssumption DEF Capped, ScreenReaction, RulesAssumption
    <3>4. NeedsScreen' = NeedsScreen /\ seenOff' = seenOff
      BY <3>2 DEF NeedsScreen, engineVars
    <3>5. loopPc' = "tick" /\ NeedsScreen' /\ offFor' > spent' => seenOff'
      BY <1>0, <3>1, <3>2, <3>3, <3>4 DEF LockInv
    <3>. QED BY <1>3, <3>3, <3>5 DEF LockInv
  <2>2. ASSUME NEW used, TickBegins(used)
        PROVE  LockInv'
    <3>1. loopPc' = "tick" /\ NeedsScreen' = NeedsScreen /\ spent' = 0
          /\ seenOff' = (NeedsScreen /\ screenOff) /\ UNCHANGED <<screenOff, offFor>>
      BY <2>2 DEF TickBegins, NeedsScreen
    <3>. QED BY <3>1 DEF LockInv
  <2>3. CASE ScreenSwitches
    <3>1. offFor' = 0 /\ loopPc' = loopPc /\ spent' = spent
      BY <2>3 DEF ScreenSwitches
    <3>. QED BY <1>0, <1>3, <3>1 DEF LockInv
  <2>4. CASE \/ Suspend \/ PackagesChange \/ Accept \/ ClientChangesNothing
             \/ \E newRules \in RuleChoices : Reload(newRules)
             \/ \E a \in WakeApps, secs \in Extensions : Extend(a, secs)
    <3>1. loopPc' # "tick" /\ UNCHANGED <<screenOff, offFor>>
      BY <2>4 DEF Suspend, PackagesChange, Accept, ClientChangesNothing, Reload, Extend, history
    <3>. QED BY <1>3, <3>1 DEF LockInv
  <2>5. CASE UNCHANGED wakeVars
    <3>1. UNCHANGED <<loopPc, spent, rules, seenOff, screenOff, offFor>>
      BY <2>5 DEF wakeVars, engineVars, history
    <3>. QED BY <1>3, <3>1 DEF LockInv, NeedsScreen
  <2>. QED BY <1>3, <2>1, <2>2, <2>3, <2>4, <2>5 DEF Next, TimeIsUp
<1>. QED BY <1>1, <1>2, <1>3

\* An app with the lock-screen rule is blocked within one active tick and the delays of
\* the loop after the screen goes off (the active cadence of next_wake_secs).
THEOREM LockScreenCorrect == Spec => []LockScreenIsSeen
<1>1. Init => LoopInv /\ LockInv
  <2>. SUFFICES ASSUME Init PROVE LoopInv /\ LockInv
    OBVIOUS
  <2>1. LoopInv /\ DueWithin(ActiveTick) /\ ~(offFor > 0) /\ ~(offFor > age) /\ loopPc # "tick"
    BY RulesAssumption, WakeAssumption
       DEF RulesAssumption, WakeAssumption, Init, LoopInv, DueWithin
  <2>2. verdict = [a \in WakeApps |-> Decision(a, 0, FALSE)] /\ decidedAt = 0 /\ seenOff = FALSE
    BY DEF Init
  <2>3. \A a \in WakeApps : verdict[a] = Decision(a, decidedAt, seenOff)
    BY <2>2
  <2>. QED BY <2>1, <2>3 DEF LockInv
<1>2. TypeOK /\ LoopInv /\ LockInv => LockScreenIsSeen
  <2>. SUFFICES ASSUME TypeOK, LockInv, NEW a \in WakeApps, loopPc = "poll",
                       rules[a].lock_block, offFor > ScreenReaction, decidedAt >= extUntil[a]
                PROVE  verdict[a]
    BY DEF LockScreenIsSeen
  <2>1. age \in Nat /\ offFor \in Nat /\ ActiveTick \in Nat /\ TickSecs \in Nat /\ ClientSecs \in Nat
    BY RulesAssumption, WakeAssumption DEF RulesAssumption, WakeAssumption, TypeOK, ScreenReaction
  <2>2. NeedsScreen
    BY DEF NeedsScreen
  <2>3. age <= ActiveTick + TickSecs
    BY <2>2 DEF LockInv, DueWithin
  <2>4. seenOff
    BY <2>1, <2>2, <2>3 DEF LockInv, ScreenReaction
  <2>5. verdict[a] = Decision(a, decidedAt, seenOff)
    BY DEF LockInv
  <2>6. ~(decidedAt < extUntil[a])
    <3>1. decidedAt \in Nat /\ extUntil[a] \in Nat
      BY WakeAssumption DEF WakeAssumption, TypeOK
    <3>. QED BY <3>1
  <2>. QED BY <2>4, <2>5, <2>6 DEF Decision, Eval
<1>. QED BY <1>1, <1>2, StepLoop, StepLock, TypeCorrect, PTL DEF Spec
------------------------------------------------------------------------------
\* Windows and minutes of the week.

\* A minute of the week, counted from the start of some day and possibly running into the
\* next one, is one minute of one weekday.
LEMMA MinuteOfWeek ==
    ASSUME NEW e \in Weekdays, NEW n \in 0 .. 2 * DayMinutes - 1,
           NEW d \in Weekdays, NEW m \in 0 .. DayMinutes - 1
    PROVE  ((e - 1) * DayMinutes + n) % WeekMinutes = (d - 1) * DayMinutes + m
              <=> \/ n < DayMinutes /\ e = d /\ n = m
                  \/ n >= DayMinutes /\ e = PrevWeekday(d) /\ n = m + DayMinutes
<1>. DEFINE D == DayMinutes
            W == WeekMinutes
            x == (e - 1) * D + n
            y == (d - 1) * D + m
<1>1. D \in Nat \ {0} /\ W = 7 * D /\ W \in Nat \ {0} /\ e \in 1 .. 7 /\ d \in 1 .. 7
  BY RulesAssumption DEF RulesAssumption, WeekMinutes, Weekdays
<1>2. n \in 0 .. 2 * D - 1 /\ m \in 0 .. D - 1
  OBVIOUS
<1>3. ASSUME NEW f \in 0 .. 6, NEW k \in 0 .. D - 1, f * D + k = y
      PROVE  f = d - 1 /\ k = m
  <2>1. PICK g \in Nat : g = d - 1
    BY <1>1
  <2>2. D * f + k \in Nat /\ D * f + k = D * g + m
    BY <1>1, <1>2, <1>3, <2>1
  <2>3. (D * f + k) \div D = f /\ (D * f + k) % D = k
    <3>1. PICK a \in Nat : a = D * f + k
      BY <2>2
    <3>2. f \in Nat /\ k \in 0 .. D - 1 /\ D \in Nat \ {0}
      BY <1>1, <1>3
    <3>3. a \div D = f /\ a % D = k
      BY <3>1, <3>2, DivisionIsUnique
    <3>. QED BY <3>1, <3>3
  <2>4. (D * g + m) \div D = g /\ (D * g + m) % D = m
    <3>1. PICK a \in Nat : a = D * g + m
      BY <2>2
    <3>2. g \in Nat /\ m \in 0 .. D - 1 /\ D \in Nat \ {0}
      BY <1>1, <1>2
    <3>3. a \div D = g /\ a % D = m
      BY <3>1, <3>2, DivisionIsUnique
    <3>. QED BY <3>1, <3>3
  <2>. QED BY <2>1, <2>2, <2>3, <2>4
<1>4. ASSUME NEW q \in Nat, NEW r \in 0 .. W - 1, x = W * q + r
      PROVE  x % W = r
  <2>1. PICK a \in Nat : a = W * q + r
    BY <1>1
  <2>2. a % W = r
    BY <1>1, <2>1, DivisionIsUnique
  <2>. QED BY <1>4, <2>1, <2>2
<1>5. CASE n < D
  <2>1. PICK f \in 0 .. 6 : f = e - 1
    BY <1>1
  <2>2. x = f * D + n /\ f * D + n \in 0 .. W - 1
    <3>1. f * D <= 6 * D /\ f * D \in Nat
      BY <1>1
    <3>. QED BY <1>1, <1>2, <1>5, <2>1, <3>1
  <2>3. x % W = x
    <3>1. PICK r \in 0 .. W - 1 : r = f * D + n
      BY <2>2
    <3>2. x = W * 0 + r
      BY <1>1, <2>2, <3>1
    <3>. QED BY <1>4, <2>2, <3>1, <3>2
  <2>4. x = y => e = d /\ n = m
    BY <1>1, <1>2, <1>3, <1>5, <2>1, <2>2
  <2>5. e = d /\ n = m => x = y
    OBVIOUS
  <2>6. ~(n >= D)
    BY <1>1, <1>2, <1>5
  <2>. QED BY <1>5, <2>3, <2>4, <2>5, <2>6
<1>6. CASE n >= D /\ e < 7
  <2>1. PICK f \in 1 .. 6, k \in 0 .. D - 1 : f = e /\ k = n - D
    BY <1>1, <1>2, <1>6
  <2>2. x = f * D + k /\ f * D + k \in 0 .. W - 1
    <3>1. f * D <= 6 * D /\ f * D \in Nat /\ (e - 1) * D = f * D - D
      BY <1>1, <2>1
    <3>. QED BY <1>1, <1>2, <2>1, <3>1
  <2>3. x % W = x
    <3>1. PICK r \in 0 .. W - 1 : r = f * D + k
      BY <2>2
    <3>2. x = W * 0 + r
      BY <1>1, <2>2, <3>1
    <3>. QED BY <1>4, <2>2, <3>1, <3>2
  <2>4. x = y => f = d - 1 /\ k = m
    BY <1>3, <2>2
  <2>5. f = d - 1 /\ k = m => x = y
    BY <2>2
  <2>6. f = d - 1 <=> e = PrevWeekday(d)
    BY <1>1, <1>6, <2>1 DEF PrevWeekday
  <2>7. k = m <=> n = m + D
    BY <1>1, <1>2, <2>1
  <2>8. ~(n < D)
    BY <1>1, <1>2, <1>6
  <2>. QED BY <1>6, <2>3, <2>4, <2>5, <2>6, <2>7, <2>8
<1>7. CASE n >= D /\ e = 7
  <2>1. PICK k \in 0 .. D - 1 : k = n - D
    BY <1>1, <1>2, <1>7
  <2>2. x = W * 1 + k /\ k \in 0 .. W - 1
    BY <1>1, <1>2, <1>7, <2>1
  <2>3. x % W = k
    BY <1>4, <2>2
  <2>4. k = y => d = 1 /\ k = m
    <3>1. 0 * D + k = k
      BY <1>1
    <3>2. k = y => 0 = d - 1 /\ k = m
      BY <1>3, <3>1
    <3>. QED BY <1>1, <3>2
  <2>5. d = 1 /\ k = m => k = y
    BY <1>1, <1>2
  <2>6. d = 1 <=> e = PrevWeekday(d)
    BY <1>1, <1>7 DEF PrevWeekday
  <2>7. k = m <=> n = m + D
    BY <1>1, <1>2, <2>1
  <2>8. ~(n < D)
    BY <1>1, <1>2, <1>7
  <2>. QED BY <1>7, <2>3, <2>4, <2>5, <2>6, <2>7, <2>8
<1>8. n < D \/ (n >= D /\ e < 7) \/ (n >= D /\ e = 7)
  BY <1>1, <1>2
<1>. QED BY <1>5, <1>6, <1>7, <1>8
\* The minute and weekday a window covers, for a whole window.
LEMMA WindowIsItsMinutes ==
    ASSUME NEW w \in TimeWindows(Weekdays), NEW m \in 0 .. DayMinutes - 1, NEW d \in Weekdays
    PROVE  InWindow(w, m, d) <=> (d - 1) * DayMinutes + m \in MinutesOfWeek(w)
<1>. DEFINE D == DayMinutes
            y == (d - 1) * D + m
            starts == StartDays(w)
            reach(n) == n \in w.start .. w.start + StretchLength(w) - 1
<1>1. D \in Nat \ {0} /\ w.start \in 0 .. D /\ w.end \in 0 .. D /\ w.days \subseteq Weekdays
      /\ m \in 0 .. D - 1
  BY RulesAssumption DEF RulesAssumption, TimeWindows
<1>2. starts \subseteq Weekdays /\ StretchLength(w) \in Nat
  BY <1>1 DEF StartDays, StretchLength
<1>3. ASSUME NEW e \in Weekdays
      PROVE  DaysAllow(w.days, e) <=> e \in starts
  BY DEF DaysAllow, StartDays
<1>4. PrevWeekday(d) \in Weekdays
  BY DEF PrevWeekday, Weekdays
<1>5. ASSUME NEW n, reach(n)
      PROVE  n \in 0 .. 2 * D - 1
  BY <1>1, <1>5 DEF StretchLength
<1>6. y \in MinutesOfWeek(w)
        <=> \E e \in starts, k \in 0 .. StretchLength(w) - 1 :
                ((e - 1) * D + w.start + k) % WeekMinutes = y
  BY DEF MinutesOfWeek
<1>7. y \in MinutesOfWeek(w) <=> \E e \in starts, n \in 0 .. 2 * D - 1 :
                                     reach(n) /\ ((e - 1) * D + n) % WeekMinutes = y
  <2>1. ASSUME NEW e \in starts, NEW k \in 0 .. StretchLength(w) - 1
        PROVE  /\ reach(w.start + k) /\ w.start + k \in 0 .. 2 * D - 1
               /\ (e - 1) * D + w.start + k = (e - 1) * D + (w.start + k)
    <3>1. e \in Int /\ (e - 1) * D \in Int
      BY <1>1, <1>2 DEF Weekdays
    <3>2. reach(w.start + k)
      BY <1>1, <1>2
    <3>. QED BY <1>1, <1>2, <1>5, <3>1, <3>2
  <2>2. ASSUME NEW e \in starts, NEW n \in 0 .. 2 * D - 1, reach(n)
        PROVE  /\ n - w.start \in 0 .. StretchLength(w) - 1
               /\ (e - 1) * D + w.start + (n - w.start) = (e - 1) * D + n
    <3>1. e \in Int /\ (e - 1) * D \in Int
      BY <1>1, <1>2 DEF Weekdays
    <3>2. n - w.start \in 0 .. StretchLength(w) - 1
      BY <1>1, <1>2, <2>2
    <3>. QED BY <1>1, <3>1, <3>2
  <2>. HIDE DEF reach
  <2>. QED BY <1>6, <2>1, <2>2
<1>8. ASSUME NEW e \in starts, NEW n \in 0 .. 2 * D - 1
      PROVE  ((e - 1) * D + n) % WeekMinutes = y
                <=> \/ n < D /\ e = d /\ n = m
                    \/ n >= D /\ e = PrevWeekday(d) /\ n = m + D
  BY <1>2, MinuteOfWeek
<1>9. y \in MinutesOfWeek(w) <=> \/ d \in starts /\ reach(m)
                                 \/ PrevWeekday(d) \in starts /\ reach(m + D)
  <2>1. m \in 0 .. 2 * D - 1 /\ m < D /\ m + D \in 0 .. 2 * D - 1 /\ m + D >= D
    BY <1>1
  <2>. HIDE DEF reach, starts, y
  <2>. QED BY <1>7, <1>8, <2>1
<1>10. reach(m) <=> \/ w.start < w.end /\ m \in w.start .. w.end - 1
                    \/ w.start > w.end /\ m >= w.start
  BY <1>1 DEF StretchLength
<1>11. reach(m + D) <=> w.start > w.end /\ m < w.end
  BY <1>1 DEF StretchLength
<1>. QED BY <1>3, <1>4, <1>9, <1>10, <1>11 DEF InWindow

\* in_window with its weekday arithmetic opens a window exactly in the minutes of the week
\* it covers, for every rules file.
THEOREM WindowsCorrect == Spec => []WindowsAreTheirMinutes
<1>1. TypeOK => WindowsAreTheirMinutes
  <2>. SUFFICES ASSUME TypeOK, NEW a \in WakeApps, NEW w \in rules[a].windows
                PROVE  InWindow(w, MinuteOf(now), WeekdayOf(now))
                         <=> (WeekdayOf(now) - 1) * DayMinutes + MinuteOf(now) \in MinutesOfWeek(w)
    BY DEF WindowsAreTheirMinutes
  <2>1. now \in Nat
    BY DEF TypeOK
  <2>2. w \in TimeWindows(Weekdays)
    BY DEF TypeOK, RuleSets
  <2>3. MinuteOf(now) \in 0 .. DayMinutes - 1 /\ WeekdayOf(now) \in Weekdays
    BY <2>1, ClockParts, WeekdayType
  <2>. QED BY <2>2, <2>3, WindowIsItsMinutes
<1>. QED BY <1>1, TypeCorrect, PTL
================================================================================
