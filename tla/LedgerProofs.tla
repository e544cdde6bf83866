------------------------------ MODULE LedgerProofs ------------------------------
(***************************************************************************)
(* Theorems about Ledger, for every set of uids, any limits and cadences,  *)
(* and any number of crashes: type correctness, the extension budget, the  *)
(* day of the counters, cooldowns and toggles, and what a crash takes.     *)
(***************************************************************************)
EXTENDS Ledger, TLAPS

------------------------------------------------------------------------------
\* Type correctness.

RuleTypeOK == rule \in DurationRule

\* The state file holds what Snapshot writes.
DiskTypeOK ==
    disk = NoFile \/ /\ disk.usageAny \in [Uids -> Nat]
                     /\ disk.usageFg \in [Uids -> Nat]
                     /\ disk.coolUntil \in [Accounts -> Nat]
                     /\ disk.granted \in [Accounts -> Nat]

\* What makes the types inductive: no tick lies in the future, the clock does not go back
\* behind its start, and the types of the rule and of the file.
TypeInv ==
    /\ TypeOK
    /\ Start <= now
    /\ lastTick <= now
    /\ RuleTypeOK
    /\ DiskTypeOK

LEMMA DayIsNat ==
    ASSUME NEW t \in Nat, NEW offset \in Int, t + offset >= 0
    PROVE  DayOf(t, offset) \in Nat
<1>. DEFINE s == t + offset
<1>1. s \in Nat /\ DaySecs \in Nat \ {0}
  BY LedgerAssumption DEF LedgerAssumption
<1>. HIDE DEF s
<1>2. s \div DaySecs \in Nat
  BY <1>1
<1>. QED BY <1>2 DEF DayOf, s

LEMMA ResetType ==
    ASSUME NEW S, NEW f \in [S -> Nat]
    PROVE  AfterReset(f) \in [S -> Nat]
BY DEF AfterReset

LEMMA ElapsedIsNat ==
    ASSUME TypeInv
    PROVE  Elapsed \in Nat
BY LedgerAssumption DEF LedgerAssumption, TypeInv, TypeOK, Elapsed, Never

LEMMA TodayIsNat ==
    ASSUME TypeInv
    PROVE  Today \in Nat
<1>1. now \in Nat /\ Start <= now /\ Start \in Nat /\ Offset \in Int /\ Start + Offset >= 0
  BY LedgerAssumption DEF LedgerAssumption, TypeInv, TypeOK
<1>2. now + Offset >= 0
  BY <1>1
<1>. QED BY <1>1, <1>2, DayIsNat DEF Today

\* What the two halves of a tick's accounting return.
LEMMA CreditedType ==
    ASSUME TypeInv, NEW usage \in [Uids -> Nat], NEW uids
    PROVE  Settled(Credited(usage, uids)) \in [Uids -> Nat]
<1>1. \A u \in Uids : AfterReset(usage)[u] \in Nat
  BY ResetType
<1>2. Credited(usage, uids) \in [Uids -> Nat]
  BY <1>1, ElapsedIsNat DEF Credited
<1>. QED BY <1>2 DEF Settled

LEMMA CooldownsType ==
    ASSUME TypeInv, NEW any, NEW fg
    PROVE  Cooldowns(any, fg) \in [Accounts -> Nat]
<1>1. AfterReset(coolUntil) \in [Accounts -> Nat]
  BY ResetType DEF TypeInv, TypeOK
<1>2. now + rule.freeze \in Nat
  BY DEF TypeInv, TypeOK, RuleTypeOK, DurationRule
<1>. QED BY <1>1, <1>2 DEF Cooldowns

LEMMA TickBeginsType ==
    ASSUME TypeInv, NEW live, NEW fg, TickBegins(live, fg)
    PROVE  TypeInv'
<1>1. usageAny' \in [Uids -> Nat] /\ usageFg' \in [Uids -> Nat]
  BY CreditedType DEF TickBegins, TypeInv, TypeOK
<1>2. coolUntil' \in [Accounts -> Nat]
  BY CooldownsType DEF TickBegins
<1>3. extUntil' \in [Accounts -> Nat] /\ granted' \in [Accounts -> Nat]
  BY ResetType DEF TickBegins, TypeInv, TypeOK
<1>4. blocked' \subseteq Uids
  BY DEF TickBegins, TypeInv, RuleTypeOK, DurationRule
<1>5. lastDay' \in Nat
  BY TodayIsNat DEF TickBegins
<1>6. {mislabelled', saveFailed', toggled'} \subseteq BOOLEAN
  BY DEF TickBegins, TypeInv, TypeOK
<1>7. lastTick' = now /\ now' = now /\ pc' = "decided" /\ Start <= now
  BY DEF TickBegins, TypeInv
<1>8. RuleTypeOK' /\ DiskTypeOK'
  BY DEF TickBegins, TypeInv, RuleTypeOK, DiskTypeOK
<1>9. extensions' \in [Accounts -> Nat] /\ diskExtensions' \in [Accounts -> Nat]
  BY ResetType DEF TickBegins, fileHistory, TypeInv, TypeOK
<1>10. diskToggled' \in BOOLEAN
  BY DEF TickBegins, fileHistory, TypeInv, TypeOK
<1>. QED
  BY <1>1, <1>2, <1>3, <1>4, <1>5, <1>6, <1>7, <1>8, <1>9, <1>10
     DEF TickBegins, TypeInv, TypeOK

\* The three ways a tick ends.
LEMMA TickEndsType ==
    ASSUME TypeInv, TickWithoutSave \/ TickSaves \/ TickSaveFails
    PROVE  TypeInv'
<1>1. RuleTypeOK' /\ lastTick' <= now'
  BY DEF TickWithoutSave, TickSaves, TickSaveFails, TickEndsWith, TypeInv, RuleTypeOK
<1>2. DiskTypeOK'
  BY DEF TickWithoutSave, TickSaves, TickSaveFails, TickEndsWith, Snapshot, counters,
         TypeInv, TypeOK, DiskTypeOK
<1>3. lastSave' \in Nat /\ saveFailed' \in BOOLEAN
  BY DEF TickWithoutSave, TickSaves, TickSaveFails, TypeInv, TypeOK
<1>4. diskToggled' \in BOOLEAN /\ diskExtensions' \in [Accounts -> Nat]
  BY DEF TickWithoutSave, TickSaves, TickSaveFails, TickEndsWith, fileHistory, TypeInv, TypeOK
<1>. QED
  BY <1>1, <1>2, <1>3, <1>4
     DEF TickWithoutSave, TickSaves, TickSaveFails, TickEndsWith, counters,
         TypeInv, TypeOK

LEMMA CrashType ==
    ASSUME TypeInv, Crash
    PROVE  TypeInv'
<1>1. NoUsage \in [Uids -> Nat] /\ NoEntries \in [Accounts -> Nat]
  BY DEF NoUsage, NoEntries
<1>2. RuleTypeOK' /\ DiskTypeOK' /\ crashes' \in 0 .. MaxCrashes
  BY LedgerAssumption
     DEF LedgerAssumption, Crash, TypeInv, TypeOK, RuleTypeOK, DiskTypeOK
<1>3. lastTick' <= now' /\ Start <= now'
  BY DEF Crash, TypeInv, TypeOK, Never
<1>4. TypeOK'
  BY <1>1, <1>2 DEF Crash, fileHistory, TypeInv, TypeOK
<1>. QED BY <1>2, <1>3, <1>4 DEF TypeInv

LEMMA RestartType ==
    ASSUME TypeInv, Restart
    PROVE  TypeInv'
<1>1. DayOf(now, 0) \in Nat
  BY DayIsNat DEF TypeInv, TypeOK
<1>2. RuleTypeOK' /\ DiskTypeOK'
  BY DEF Restart, TypeInv, RuleTypeOK, DiskTypeOK
<1>0. UNCHANGED fileHistory
  BY DEF Restart
<1>3. CASE Restorable
  <2>1. /\ usageAny' \in [Uids -> Nat] /\ usageFg' \in [Uids -> Nat]
        /\ coolUntil' \in [Accounts -> Nat] /\ granted' \in [Accounts -> Nat]
    BY <1>3 DEF Restart, Restorable, TypeInv, DiskTypeOK
  <2>2. mislabelled' \in BOOLEAN /\ toggled' \in BOOLEAN
    BY <1>3 DEF Restart, TypeInv, TypeOK
  <2>3. extensions' \in [Accounts -> Nat]
    BY <1>3 DEF Restart, TypeInv, TypeOK
  <2>. QED
    BY <1>0, <1>1, <1>2, <1>3, <2>1, <2>2, <2>3 DEF Restart, fileHistory, TypeInv, TypeOK
<1>4. CASE ~Restorable
  BY <1>0, <1>2, <1>4 DEF Restart, fileHistory, TypeInv, TypeOK
<1>. QED BY <1>3, <1>4

LEMMA CutIsNat ==
    ASSUME TypeInv, NEW k \in Accounts, NEW secs \in Nat, granted[k] < Cap
    PROVE  CutToBudget(secs, k) \in Nat /\ granted[k] + CutToBudget(secs, k) <= Cap
BY LedgerAssumption DEF LedgerAssumption, TypeInv, TypeOK, CutToBudget

LEMMA ExtendType ==
    ASSUME TypeInv, NEW k \in Accounts, NEW secs \in Grants, Extend(k, secs)
    PROVE  TypeInv'
<1>1. CutToBudget(secs, k) \in Nat
  BY CutIsNat, LedgerAssumption DEF LedgerAssumption, Extend
<1>2. /\ granted' \in [Accounts -> Nat] /\ extUntil' \in [Accounts -> Nat]
      /\ extensions' \in [Accounts -> Nat]
  BY <1>1 DEF Extend, TypeInv, TypeOK
<1>3. RuleTypeOK' /\ DiskTypeOK' /\ lastTick' <= now'
  BY DEF Extend, clocks, TypeInv, RuleTypeOK, DiskTypeOK
<1>. QED
  BY <1>2, <1>3 DEF Extend, clocks, fileHistory, TypeInv, TypeOK

LEMMA ToggleType ==
    ASSUME TypeInv, ToggleSharedPool
    PROVE  TypeInv'
<1>1. RuleTypeOK'
  BY DEF ToggleSharedPool, TypeInv, RuleTypeOK, DurationRule
<1>2. coolUntil' \in [Accounts -> Nat] /\ toggles' \in 0 .. MaxToggles
  BY LedgerAssumption DEF LedgerAssumption, ToggleSharedPool, TypeInv, TypeOK
<1>3. DiskTypeOK' /\ lastTick' <= now'
  BY DEF ToggleSharedPool, clocks, TypeInv, DiskTypeOK
<1>. QED
  BY <1>1, <1>2, <1>3 DEF ToggleSharedPool, clocks, TypeInv, TypeOK

LEMMA SecondPassesType ==
    ASSUME TypeInv, SecondPasses
    PROVE  TypeInv'
<1>1. now' \in Nat /\ lastTick' <= now' /\ Start <= now'
  BY LedgerAssumption DEF LedgerAssumption, SecondPasses, clocks, TypeInv, TypeOK, Never
<1>2. RuleTypeOK' /\ DiskTypeOK'
  BY DEF SecondPasses, TypeInv, RuleTypeOK, DiskTypeOK
<1>. QED
  BY <1>1, <1>2 DEF SecondPasses, counters, clocks, history, fileHistory, TypeInv, TypeOK

LEMMA InitType == Init => TypeInv
<1>. SUFFICES ASSUME Init PROVE TypeInv
  OBVIOUS
<1>1. NoUsage \in [Uids -> Nat] /\ NoEntries \in [Accounts -> Nat]
  BY DEF NoUsage, NoEntries
<1>2. now \in Nat /\ lastTick <= now /\ Start <= now
  BY LedgerAssumption DEF LedgerAssumption, Init, Never
<1>3. RuleTypeOK /\ DiskTypeOK
  BY LedgerAssumption DEF LedgerAssumption, Init, RuleTypeOK, DiskTypeOK
<1>4. crashes \in 0 .. MaxCrashes /\ toggles \in 0 .. MaxToggles
  BY LedgerAssumption DEF LedgerAssumption, Init
<1>5. TypeOK
  BY <1>1, <1>2, <1>4 DEF Init, TypeOK
<1>. QED BY <1>2, <1>3, <1>5 DEF TypeInv

LEMMA StepType ==
    ASSUME TypeInv, [Next]_ledgerVars
    PROVE  TypeInv'
<1>1. CASE UNCHANGED ledgerVars
  <2>. USE <1>1 DEF ledgerVars, counters, clocks, history, fileHistory
  <2>1. RuleTypeOK' /\ DiskTypeOK'
    BY DEF TypeInv, RuleTypeOK, DiskTypeOK
  <2>. QED BY <2>1 DEF TypeInv, TypeOK
<1>2. CASE Next
  BY <1>2, TickBeginsType, TickEndsType, CrashType, RestartType, ExtendType, ToggleType,
     SecondPassesType
     DEF Next
<1>. QED BY <1>1, <1>2

\* The ledger's state, and that of its file, keep their types.
THEOREM TypeCorrect == Spec => []TypeOK
<1>1. TypeInv => TypeOK
  BY DEF TypeInv
<1>2. TypeInv /\ [Next]_ledgerVars => TypeInv'
  BY StepType
<1>. QED BY <1>1, <1>2, InitType, PTL DEF Spec

------------------------------------------------------------------------------
\* The extension budget.

\* A file never holds more grants than a day allows, and a daemon that has just started
\* has no extension: these make ExtensionsAreGranted inductive.
GrantInv ==
    /\ ExtensionsAreGranted
    /\ disk = NoFile \/ \A k \in Accounts : disk.granted[k] <= Cap
    /\ pc = "down" => extUntil = NoEntries

LEMMA ResetKeepsGrants ==
    ASSUME TypeInv, GrantInv, NEW live, NEW fg, TickBegins(live, fg)
    PROVE  GrantInv'
<1>1. ASSUME NEW k \in Accounts
      PROVE  granted'[k] <= Cap /\ extUntil'[k] <= now' + granted'[k]
  <2>1. CASE NewDay
    <3>1. granted'[k] = 0 /\ extUntil'[k] = 0 /\ now' = now
      BY <1>1, <2>1 DEF TickBegins, AfterReset, TypeInv, TypeOK
    <3>. QED BY <3>1, LedgerAssumption DEF LedgerAssumption, TypeInv, TypeOK
  <2>2. CASE ~NewDay
    BY <1>1, <2>2 DEF TickBegins, AfterReset, GrantInv, ExtensionsAreGranted
  <2>. QED BY <2>1, <2>2
<1>. QED BY <1>1 DEF TickBegins, GrantInv, ExtensionsAreGranted

LEMMA ExtendKeepsGrants ==
    ASSUME TypeInv, GrantInv, NEW a \in Accounts, NEW secs \in Grants, Extend(a, secs)
    PROVE  GrantInv'
<1>. DEFINE cut == CutToBudget(secs, a)
<1>1. cut \in Nat /\ granted[a] + cut <= Cap
  BY CutIsNat, LedgerAssumption DEF LedgerAssumption, Extend
<1>2. /\ granted' = [granted EXCEPT ![a] = @ + cut]
      /\ extUntil' = [extUntil EXCEPT ![a] = (IF @ > now THEN @ ELSE now) + cut]
      /\ now' = now /\ pc' = "ready" /\ disk' = disk
  BY DEF Extend, Serving
<1>. HIDE DEF cut
<1>3. \A k \in Accounts : granted'[k] <= Cap /\ extUntil'[k] <= now' + granted'[k]
  BY <1>1, <1>2 DEF TypeInv, TypeOK, GrantInv, ExtensionsAreGranted
<1>. QED BY <1>2, <1>3 DEF GrantInv, ExtensionsAreGranted

LEMMA RestartKeepsGrants ==
    ASSUME TypeInv, GrantInv, Restart
    PROVE  GrantInv'
<1>1. now' = now /\ extUntil' = NoEntries /\ pc' = "ready" /\ disk' = disk
  BY DEF Restart, GrantInv
<1>2. \A k \in Accounts : granted'[k] \in Nat /\ granted'[k] <= Cap
  BY DEF Restart, Restorable, TypeInv, TypeOK, DiskTypeOK, GrantInv, ExtensionsAreGranted
<1>. QED
  BY <1>1, <1>2 DEF NoEntries, TypeInv, TypeOK, GrantInv, ExtensionsAreGranted

LEMMA OthersKeepGrants ==
    ASSUME TypeInv, GrantInv,
           \/ TickWithoutSave \/ TickSaves \/ TickSaveFails \/ Crash
           \/ ToggleSharedPool \/ SecondPasses \/ UNCHANGED ledgerVars
    PROVE  GrantInv'
<1>1. CASE TickWithoutSave \/ TickSaveFails \/ ToggleSharedPool \/ UNCHANGED ledgerVars
  BY <1>1 DEF TickWithoutSave, TickSaveFails, TickEndsWith, ToggleSharedPool, ledgerVars,
              counters, Serving, GrantInv, ExtensionsAreGranted
<1>2. CASE TickSaves
  BY <1>2 DEF TickSaves, TickEndsWith, Snapshot, counters, GrantInv, ExtensionsAreGranted
<1>3. CASE Crash
  BY <1>3, LedgerAssumption
     DEF LedgerAssumption, Crash, NoEntries, TypeInv, TypeOK, GrantInv, ExtensionsAreGranted
<1>4. CASE SecondPasses
  BY <1>4 DEF SecondPasses, counters, TypeInv, TypeOK, GrantInv, ExtensionsAreGranted
<1>. QED BY <1>1, <1>2, <1>3, <1>4

\* A day's grants stay within the cap, and no extension reaches further than they do,
\* over any sequence of requests, resets, failing saves, crashes and restarts.
THEOREM ExtensionsCorrect == Spec => []ExtensionsAreGranted
<1>1. Init => GrantInv
  BY LedgerAssumption
     DEF LedgerAssumption, Init, NoEntries, NoFile, GrantInv, ExtensionsAreGranted
<1>2. TypeInv /\ GrantInv /\ [Next]_ledgerVars => GrantInv'
  BY ResetKeepsGrants, ExtendKeepsGrants, RestartKeepsGrants, OthersKeepGrants DEF Next
<1>3. TypeInv /\ [Next]_ledgerVars => TypeInv'
  BY StepType
<1>4. GrantInv => ExtensionsAreGranted
  BY DEF GrantInv
<1>. QED BY <1>1, <1>2, <1>3, <1>4, InitType, PTL DEF Spec

------------------------------------------------------------------------------
\* Which day the counters belong to.

\* CountersAreTodays also inside a tick; a daemon that is down has counted nothing.
DayInv ==
    /\ since # Never /\ ~mislabelled => since = lastDay
    /\ pc = "down" => since = Never

\* The tick that notices a new day starts counting from nothing.
LEMMA ResetForgets ==
    ASSUME TypeInv, NewDay
    PROVE  AfterReset(usageAny) = NoUsage /\ AfterReset(usageFg) = NoUsage
BY DEF TypeInv, TypeOK, AfterReset, NoUsage

LEMMA TickKeepsDay ==
    ASSUME TypeInv, DayInv, NEW live, NEW fg, TickBegins(live, fg)
    PROVE  DayInv'
<1>1. /\ lastDay' = Today /\ pc' = "decided"
      /\ since' = SinceAfter(usageAny', usageFg')
      /\ mislabelled' = (mislabelled /\ ~NewDay)
  BY DEF TickBegins
<1>2. CASE NewDay
  <2>1. since' \in {Never, Today}
    BY <1>1, <1>2, ResetForgets DEF SinceAfter
  <2>. QED BY <1>1, <2>1 DEF DayInv
<1>3. CASE ~NewDay
  <2>1. since' = Never \/ since' = Today \/ (since # Never /\ since' = since)
    <3>1. CASE since = Never
      BY <1>1, <3>1 DEF SinceAfter
    <3>2. CASE since # Never
      BY <1>1, <3>2 DEF SinceAfter
    <3>. QED BY <3>1, <3>2
  <2>2. lastDay = Today
    BY <1>3 DEF NewDay
  <2>3. CASE mislabelled
    <3>1. mislabelled' = TRUE
      BY <1>1, <1>3, <2>3
    <3>. QED BY <3>1, <1>1 DEF DayInv
  <2>4. CASE ~mislabelled
    BY <1>1, <2>1, <2>2, <2>4 DEF DayInv
  <2>. QED BY <2>3, <2>4
<1>. QED BY <1>2, <1>3

LEMMA RestartKeepsDay ==
    ASSUME DayInv, Restart
    PROVE  DayInv'
<1>1. CASE Restorable
  BY <1>1 DEF Restart, Restorable, DayInv
<1>2. CASE ~Restorable
  BY <1>2 DEF Restart, DayInv
<1>. QED BY <1>1, <1>2

LEMMA OthersKeepDay ==
    ASSUME DayInv,
           \/ TickWithoutSave \/ TickSaves \/ TickSaveFails \/ Crash
           \/ \E k \in Accounts, secs \in Grants : Extend(k, secs)
           \/ ToggleSharedPool \/ SecondPasses \/ UNCHANGED ledgerVars
    PROVE  DayInv'
BY DEF TickWithoutSave, TickSaves, TickSaveFails, TickEndsWith, Crash, Extend, Serving,
       ToggleSharedPool, SecondPasses, ledgerVars, clocks, history, DayInv

\* What is charged against a limit was counted on the day of the last tick, unless it
\* came from a file that bears another day than its contents.
THEOREM DayCorrect == Spec => []CountersAreTodays
<1>1. Init => DayInv
  BY DEF Init, DayInv
<1>2. TypeInv /\ DayInv /\ [Next]_ledgerVars => DayInv'
  BY TickKeepsDay, RestartKeepsDay, OthersKeepDay DEF Next
<1>3. TypeInv /\ [Next]_ledgerVars => TypeInv'
  BY StepType
<1>4. DayInv => CountersAreTodays
  BY DEF DayInv, CountersAreTodays
<1>. QED BY <1>1, <1>2, <1>3, <1>4, InitType, PTL DEF Spec

------------------------------------------------------------------------------
\* Cooldowns and the toggle.

LingerInv ==
    /\ NoCooldownLingers
    /\ crashes \in Nat
    /\ pc = "down" => crashes # 0

\* A tick begins cooldowns of the accounts in use only.
LEMMA TickKeepsLinger ==
    ASSUME TypeInv, LingerInv, NEW live, NEW fg, TickBegins(live, fg)
    PROVE  LingerInv'
<1>1. crashes' = crashes /\ TimeAccounts' = TimeAccounts /\ pc' = "decided"
  BY DEF TickBegins, TimeAccounts, TimeAccount
<1>2. ASSUME crashes = 0, NEW k \in Accounts \ TimeAccounts
      PROVE  coolUntil'[k] = 0
  <2>1. coolUntil[k] = 0
    BY <1>2 DEF LingerInv, NoCooldownLingers
  <2>2. coolUntil'[k] = AfterReset(coolUntil)[k]
    BY <1>2 DEF TickBegins, Cooldowns
  <2>. QED BY <1>2, <2>1, <2>2 DEF AfterReset, TypeInv, TypeOK
<1>. QED BY <1>1, <1>2 DEF LingerInv, NoCooldownLingers

LEMMA ToggleForgets ==
    ASSUME LingerInv, ToggleSharedPool
    PROVE  LingerInv'
<1>1. \A k \in Accounts : coolUntil'[k] = 0
  BY DEF ToggleSharedPool, ForgottenByToggle, Accounts
<1>. QED BY <1>1 DEF ToggleSharedPool, Serving, LingerInv, NoCooldownLingers

LEMMA OthersKeepLinger ==
    ASSUME LingerInv,
           \/ TickWithoutSave \/ TickSaves \/ TickSaveFails \/ Crash \/ Restart
           \/ \E k \in Accounts, secs \in Grants : Extend(k, secs)
           \/ SecondPasses \/ UNCHANGED ledgerVars
    PROVE  LingerInv'
<1>1. CASE Crash \/ Restart
  BY <1>1 DEF Crash, Restart, LingerInv, NoCooldownLingers
<1>2. CASE ~(Crash \/ Restart)
  <2>1. /\ crashes' = crashes /\ coolUntil' = coolUntil /\ rule' = rule
        /\ pc' = "down" => pc = "down"
    BY <1>2 DEF TickWithoutSave, TickSaves, TickSaveFails, TickEndsWith, Extend, Serving,
                SecondPasses, ledgerVars, counters
  <2>2. TimeAccounts' = TimeAccounts
    BY <2>1 DEF TimeAccounts, TimeAccount
  <2>. QED BY <2>1, <2>2 DEF LingerInv, NoCooldownLingers
<1>. QED BY <1>1, <1>2

\* As long as the daemon has not crashed, no toggle of shared_pool leaves a cooldown of
\* the other mode behind.
THEOREM LingerCorrect == Spec => []NoCooldownLingers
<1>1. Init => LingerInv
  BY DEF Init, NoEntries, LingerInv, NoCooldownLingers
<1>2. TypeInv /\ LingerInv /\ [Next]_ledgerVars => LingerInv'
  BY TickKeepsLinger, ToggleForgets, OthersKeepLinger DEF Next
<1>3. TypeInv /\ [Next]_ledgerVars => TypeInv'
  BY StepType
<1>4. LingerInv => NoCooldownLingers
  BY DEF LingerInv
<1>. QED BY <1>1, <1>2, <1>3, <1>4, InitType, PTL DEF Spec

------------------------------------------------------------------------------
\* What a crash takes.

LEMMA DivMonotone ==
    ASSUME NEW a \in Nat, NEW b \in Nat, NEW d \in Nat \ {0}, a <= b
    PROVE  a \div d <= b \div d
<1>. DEFINE q == a \div d
            r == b \div d
<1>1. q \in Nat /\ r \in Nat /\ d * q <= a /\ b < d * (r + 1)
  OBVIOUS
<1>. HIDE DEF q, r
<1>2. SUFFICES ASSUME r + 1 <= q PROVE FALSE
  BY <1>1 DEF q, r
<1>3. d * (r + 1) <= d * q
  BY <1>1, <1>2
<1>. QED BY <1>1, <1>3

\* Days do not go back, and none is Never.
LEMMA DaysAdvance ==
    ASSUME TypeInv, NEW later \in Nat, now <= later
    PROVE  Today <= DayOf(later, Offset) /\ DayOf(later, Offset) \in Nat
<1>1. /\ now \in Nat /\ Start <= now /\ Start \in Nat /\ Offset \in Int
      /\ Start + Offset >= 0 /\ DaySecs \in Nat \ {0}
  BY LedgerAssumption DEF LedgerAssumption, TypeInv, TypeOK
<1>2. now + Offset \in Nat /\ later + Offset \in Nat /\ now + Offset <= later + Offset
  BY <1>1
<1>3. DayOf(now, Offset) <= DayOf(later, Offset)
  <2>. HIDE DEF DayOf
  <2>1. (now + Offset) \div DaySecs <= (later + Offset) \div DaySecs
    BY <1>1, <1>2, DivMonotone
  <2>. QED BY <2>1 DEF DayOf
<1>4. DayOf(later, Offset) \in Nat
  BY <1>1, <1>2, DayIsNat
<1>. QED BY <1>3, <1>4 DEF Today

\* What a restart would find in the file for a day.
Found(usage, day, u) == IF disk # NoFile /\ disk.day = day THEN usage[u] ELSE 0
FileAny == IF disk = NoFile THEN NoUsage ELSE disk.usageAny
FileFg == IF disk = NoFile THEN NoUsage ELSE disk.usageFg

\* What memory has and the file has not, of today.
Unsaved(bound) ==
    \A u \in Uids : /\ usageAny[u] - Found(FileAny, lastDay, u) <= bound
                   /\ usageFg[u] - Found(FileFg, lastDay, u) <= bound

UnsavedAtCrash(bound) ==
    \A u \in Uids : /\ atCrash.usageAny[u] - Found(FileAny, atCrash.day, u) <= bound
                   /\ atCrash.usageFg[u] - Found(FileFg, atCrash.day, u) <= bound

LossBound == SaveEvery + TickSecs + MaxTick - 1

\* The saves, the ticks and the day go forward; a daemon that has not ticked yet has what
\* it restored.
SaveInv ==
    /\ lastDay <= Today /\ atCrash.day <= Today /\ lastSave <= now
    /\ atCrash \in [day : Nat \cup {Never}, usageAny : [Uids -> Nat], usageFg : [Uids -> Nat]]
    /\ lastTick = Never => lastSave = 0 /\ pc # "decided"
    /\ lastTick # Never => lastSave <= lastTick + TickSecs
    /\ pc = "decided" => lastTick # Never /\ now <= lastTick + TickSecs /\ lastSave <= lastTick
    /\ pc = "ready" /\ lastTick # Never => lastTick - lastSave < SaveEvery
    /\ pc = "down" => /\ usageAny = NoUsage /\ usageFg = NoUsage
                      /\ lastTick = Never /\ lastDay = Never

\* How much is unsaved in each state; a file that is not of the day of the last tick counts
\* for nothing, and what is of an earlier day is not missed.
LossInv ==
    ~saveFailed =>
        /\ lastTick = Never /\ lastDay = Today => Unsaved(0)
        /\ lastTick # Never /\ lastDay = Today =>
              Unsaved(lastTick - lastSave + TickSecs) /\ Unsaved(LossBound)
        /\ pc = "down" /\ atCrash.day = Today => UnsavedAtCrash(LossBound)
        /\ LossIsBounded

LEMMA CreditBound ==
    ASSUME TypeInv, NEW usage \in [Uids -> Nat], NEW uids, NEW u \in Uids
    PROVE  Settled(Credited(usage, uids))[u] <= AfterReset(usage)[u] + Elapsed
<1>1. AfterReset(usage)[u] \in Nat
  BY ResetType
<1>2. Credited(usage, uids)[u] <= AfterReset(usage)[u] + Elapsed
  BY <1>1, ElapsedIsNat DEF Credited
<1>3. Credited(usage, uids)[u] \in Nat
  BY <1>1, ElapsedIsNat DEF Credited
<1>. QED BY <1>1, <1>2, <1>3, ElapsedIsNat DEF Settled

LEMMA FoundIsNat ==
    ASSUME TypeInv, NEW u \in Uids, NEW day
    PROVE  Found(FileAny, day, u) \in Nat /\ Found(FileFg, day, u) \in Nat
BY DEF TypeInv, DiskTypeOK, Found, FileAny, FileFg

LEMMA FilesAre ==
    ASSUME disk' = disk
    PROVE  /\ FileAny' = FileAny /\ FileFg' = FileFg
           /\ \A usage, day, u : Found(usage, day, u)' = Found(usage, day, u)
BY DEF FileAny, FileFg, Found

LEMMA SaveInit == Init => SaveInv /\ LossInv
<1>. SUFFICES ASSUME Init PROVE SaveInv /\ LossInv
  OBVIOUS
<1>. USE DEF Init, Never
<1>1. TypeInv /\ Today \in Nat
  BY InitType, TodayIsNat
<1>2. NothingLost \in [day : Nat \cup {Never}, usageAny : [Uids -> Nat], usageFg : [Uids -> Nat]]
  BY DEF NothingLost, NoUsage
<1>3. SaveInv
  BY <1>1, <1>2 DEF SaveInv, NothingLost, TypeInv, TypeOK
<1>4. LossInv
  BY <1>1 DEF LossInv, LossIsBounded, JustRestarted, NothingLost
<1>. QED BY <1>3, <1>4

LEMMA TickBeginsSave ==
    ASSUME TypeInv, SaveInv, NEW live, NEW fg, TickBegins(live, fg)
    PROVE  SaveInv'
<1>1. Today \in Nat /\ now \in Nat /\ Today' = Today
  BY TodayIsNat DEF TypeInv, TypeOK, TickBegins, Today
<1>2. NothingLost \in [day : Nat \cup {Never}, usageAny : [Uids -> Nat], usageFg : [Uids -> Nat]]
      /\ NothingLost.day = Never
  BY DEF NothingLost, NoUsage
<1>. QED BY <1>1, <1>2, LedgerAssumption
         DEF LedgerAssumption, SaveInv, TickBegins, TypeInv, TypeOK, Never

LEMMA ElapsedBounds ==
    ASSUME TypeInv, SaveInv
    PROVE  /\ Elapsed <= MaxTick
           /\ lastTick = Never => Elapsed = 0
           /\ lastTick # Never => Elapsed <= now - lastTick
BY LedgerAssumption DEF LedgerAssumption, TypeInv, TypeOK, Elapsed, Never

LEMMA TickBeginsLoss ==
    ASSUME TypeInv, SaveInv, LossInv, NEW live, NEW fg, TickBegins(live, fg)
    PROVE  LossInv'
<1>. SUFFICES ASSUME ~saveFailed
              PROVE  /\ Unsaved(now - lastSave + TickSecs)'
                     /\ Unsaved(LossBound)'
  <2>1. /\ lastTick' = now /\ now' = now /\ lastSave' = lastSave /\ pc' = "decided"
        /\ now # Never /\ saveFailed' = saveFailed
    BY DEF TickBegins, TypeInv, TypeOK, Never
  <2>. QED BY <2>1 DEF LossInv, LossIsBounded, JustRestarted
<1>1. /\ usageAny \in [Uids -> Nat] /\ usageFg \in [Uids -> Nat]
      /\ {now, lastSave, TickSecs, SaveEvery, MaxTick} \subseteq Nat /\ SaveEvery > 0
      /\ lastTick \in Nat \cup {Never}
  BY LedgerAssumption DEF LedgerAssumption, TypeInv, TypeOK
<1>2. Elapsed \in Nat
  BY ElapsedIsNat
<1>3. /\ now' = now /\ lastSave' = lastSave /\ disk' = disk /\ lastDay' = Today
      /\ usageAny' = Settled(Credited(usageAny, live)) /\ usageFg' = Settled(Credited(usageFg, fg))
  BY DEF TickBegins
<1>4. Elapsed <= now - lastSave + TickSecs /\ Elapsed <= LossBound
  BY <1>1, <1>2, ElapsedBounds DEF SaveInv, LossBound, Never
<1>5. LossBound \in Nat /\ now - lastSave + TickSecs \in Nat
  BY <1>1 DEF LossBound, SaveInv
<1>6. ASSUME NEW u \in Uids
      PROVE  /\ usageAny'[u] <= AfterReset(usageAny)[u] + Elapsed
             /\ usageFg'[u] <= AfterReset(usageFg)[u] + Elapsed
             /\ usageAny'[u] \in Nat /\ usageFg'[u] \in Nat
  BY <1>1, <1>3, <1>6, CreditBound, CreditedType
<1>7. ASSUME NEW u \in Uids
      PROVE  /\ Found(FileAny, Today, u) \in Nat /\ Found(FileFg, Today, u) \in Nat
             /\ Found(FileAny, lastDay, u)' = Found(FileAny, Today, u)
             /\ Found(FileFg, lastDay, u)' = Found(FileFg, Today, u)
  BY <1>3, <1>7, FoundIsNat DEF Found, FileAny, FileFg
<1>8. CASE NewDay
  <2>1. \A u \in Uids : AfterReset(usageAny)[u] = 0 /\ AfterReset(usageFg)[u] = 0
    BY <1>1, <1>8 DEF AfterReset
  <2>. HIDE DEF LossBound
  <2>2. ASSUME NEW u \in Uids
        PROVE  /\ usageAny'[u] - Found(FileAny, Today, u) <= Elapsed
               /\ usageFg'[u] - Found(FileFg, Today, u) <= Elapsed
    BY <2>1, <2>2, <1>2, <1>6, <1>7
  <2>. QED BY <2>2, <1>2, <1>3, <1>4, <1>5, <1>6, <1>7 DEF Unsaved, LossBound
<1>9. CASE ~NewDay
  <2>1. lastDay = Today
    BY <1>9 DEF NewDay
  <2>2. \A u \in Uids : AfterReset(usageAny)[u] = usageAny[u] /\ AfterReset(usageFg)[u] = usageFg[u]
    BY <1>9 DEF AfterReset
  <2>3. PICK bound \in Int :
            Unsaved(bound) /\ bound + Elapsed <= now - lastSave + TickSecs
                           /\ bound + Elapsed <= LossBound
    <3>1. CASE lastTick = Never
      BY <3>1, <2>1, <1>4, <1>2 DEF LossInv
    <3>2. CASE lastTick # Never
      <4>. DEFINE bound == lastTick - lastSave + TickSecs
      <4>1. Unsaved(bound) /\ bound \in Int
        BY <3>2, <2>1, <1>1 DEF LossInv, Never
      <4>2. lastTick - lastSave < SaveEvery
        BY <3>2 DEF SaveInv, TickBegins
      <4>3. bound + Elapsed <= now - lastSave + TickSecs /\ bound + Elapsed <= LossBound
        BY <3>2, <4>2, <1>1, <1>2, ElapsedBounds DEF LossBound, Never
      <4>. QED BY <4>1, <4>3
    <3>. QED BY <3>1, <3>2
  <2>4. ASSUME NEW u \in Uids
        PROVE  /\ usageAny'[u] - Found(FileAny, Today, u) <= bound + Elapsed
               /\ usageFg'[u] - Found(FileFg, Today, u) <= bound + Elapsed
    <3>1. /\ usageAny[u] - Found(FileAny, Today, u) <= bound
          /\ usageFg[u] - Found(FileFg, Today, u) <= bound
      BY <2>1, <2>3, <2>4 DEF Unsaved
    <3>2. usageAny[u] \in Nat /\ usageFg[u] \in Nat
      BY <1>1
    <3>. QED BY <3>1, <3>2, <2>2, <1>2, <1>6, <1>7
  <2>5. LossBound' = LossBound /\ (now - lastSave + TickSecs)' = now - lastSave + TickSecs
    BY <1>3 DEF LossBound
  <2>. QED BY <2>3, <2>4, <2>5, <1>2, <1>5, <1>6, <1>7 DEF Unsaved
<1>. QED BY <1>8, <1>9

LEMMA TickEndsSave ==
    ASSUME TypeInv, SaveInv, LossInv, TickWithoutSave \/ TickSaves \/ TickSaveFails
    PROVE  SaveInv' /\ LossInv'
<1>. USE DEF TickEndsWith
<1>1. /\ pc = "decided" /\ pc' = "ready" /\ now' = now /\ lastTick' = lastTick /\ lastDay' = lastDay
      /\ usageAny' = usageAny /\ usageFg' = usageFg /\ atCrash' = atCrash /\ Today' = Today
  BY DEF TickWithoutSave, TickSaves, TickSaveFails, counters, Today
<1>2. /\ {now, TickSecs, SaveEvery, MaxTick, lastSave, Start} \subseteq Nat /\ SaveEvery > 0
      /\ lastTick \in Nat \cup {Never} /\ lastTick <= now /\ Never \notin Nat
  BY LedgerAssumption DEF LedgerAssumption, TypeInv, TypeOK, Never
<1>3. lastTick \in Nat /\ lastTick # Never /\ now <= lastTick + TickSecs
  BY <1>1, <1>2 DEF SaveInv
<1>4. CASE TickWithoutSave
  <2>1. lastSave' = lastSave /\ disk' = disk /\ saveFailed' = saveFailed
        /\ lastTick - lastSave < SaveEvery
    BY <1>2, <1>3, <1>4 DEF TickWithoutSave, SaveDue
  <2>2. SaveInv'
    BY <1>1, <1>3, <2>1 DEF SaveInv
  <2>3. LossInv'
    BY <1>1, <1>3, <2>1, FilesAre
       DEF LossInv, LossIsBounded, JustRestarted, Unsaved, UnsavedAtCrash, LossBound
  <2>. QED BY <2>2, <2>3
<1>5. CASE TickSaves
  <2>1. lastSave' = now /\ disk' = Snapshot
    BY <1>5 DEF TickSaves
  <2>2. SaveInv'
    BY <1>1, <1>2, <1>3, <2>1 DEF SaveInv
  <2>3. ASSUME lastDay = Today, NEW u \in Uids
        PROVE  /\ Found(FileAny, lastDay, u)' = usageAny[u]
               /\ Found(FileFg, lastDay, u)' = usageFg[u]
    <3>1. disk' # NoFile
      BY <2>1 DEF Snapshot, NoFile, TypeInv
    <3>. QED BY <1>1, <2>1, <2>3, <3>1 DEF Found, FileAny, FileFg, Snapshot
  <2>4. ASSUME lastDay = Today, NEW bound \in Nat, NEW u \in Uids
        PROVE  /\ usageAny'[u] - Found(FileAny, lastDay, u)' <= bound
               /\ usageFg'[u] - Found(FileFg, lastDay, u)' <= bound
    <3>1. usageAny[u] \in Nat /\ usageFg[u] \in Nat
      BY <2>4 DEF TypeInv, TypeOK
    <3>. QED BY <1>1, <2>3, <2>4, <3>1
  <2>5. /\ (lastTick - lastSave + TickSecs)' = lastTick - now + TickSecs
        /\ lastTick - now + TickSecs \in Nat /\ LossBound' = LossBound /\ LossBound \in Nat
    BY <1>1, <1>2, <1>3, <2>1 DEF LossBound
  <2>6. lastDay' = Today' => Unsaved(lastTick - lastSave + TickSecs)' /\ Unsaved(LossBound)'
    BY <1>1, <2>4, <2>5 DEF Unsaved
  <2>7. LossInv'
    BY <1>1, <1>3, <2>6 DEF LossInv, LossIsBounded, JustRestarted
  <2>. QED BY <2>2, <2>7
<1>6. CASE TickSaveFails
  <2>1. lastSave' = now /\ saveFailed' = TRUE
    BY <1>6 DEF TickSaveFails
  <2>2. SaveInv'
    BY <1>1, <1>2, <1>3, <2>1 DEF SaveInv
  <2>. QED BY <2>1, <2>2 DEF LossInv
<1>. QED BY <1>4, <1>5, <1>6

LEMMA CrashSave ==
    ASSUME TypeInv, SaveInv, LossInv, Crash
    PROVE  SaveInv' /\ LossInv'
<1>1. /\ pc' = "down" /\ lastTick' = Never /\ lastDay' = Never /\ lastSave' = 0
      /\ usageAny' = NoUsage /\ usageFg' = NoUsage /\ disk' = disk /\ now' = now
      /\ atCrash' = [day |-> lastDay, usageAny |-> usageAny, usageFg |-> usageFg]
      /\ saveFailed' = saveFailed /\ Today' = Today
  BY DEF Crash, Today
<1>2. Today \in Nat /\ Never \notin Nat /\ Never <= Today /\ now \in Nat
  BY TodayIsNat DEF Never, TypeInv, TypeOK
<1>3. SaveInv'
  BY <1>1, <1>2 DEF SaveInv, TypeInv, TypeOK
<1>4. ASSUME ~saveFailed, lastDay = Today
      PROVE  UnsavedAtCrash(LossBound)'
  <2>1. LossBound \in Nat
    BY LedgerAssumption DEF LedgerAssumption, LossBound
  <2>2. PICK bound \in Nat : bound <= LossBound /\ Unsaved(bound)
    BY <1>4, <2>1 DEF LossInv
  <2>3. ASSUME NEW u \in Uids
        PROVE  /\ usageAny[u] - Found(FileAny, lastDay, u) <= LossBound
               /\ usageFg[u] - Found(FileFg, lastDay, u) <= LossBound
    <3>1. /\ usageAny[u] \in Nat /\ usageFg[u] \in Nat
          /\ Found(FileAny, lastDay, u) \in Nat /\ Found(FileFg, lastDay, u) \in Nat
      BY <2>3, FoundIsNat DEF TypeInv, TypeOK
    <3>2. /\ usageAny[u] - Found(FileAny, lastDay, u) <= bound
          /\ usageFg[u] - Found(FileFg, lastDay, u) <= bound
      BY <2>2, <2>3 DEF Unsaved
    <3>. QED BY <2>1, <2>2, <3>1, <3>2
  <2>4. \A u \in Uids : /\ Found(FileAny, atCrash.day, u)' = Found(FileAny, lastDay, u)
                       /\ Found(FileFg, atCrash.day, u)' = Found(FileFg, lastDay, u)
    BY <1>1 DEF Found, FileAny, FileFg
  <2>. QED BY <1>1, <2>3, <2>4 DEF UnsavedAtCrash, LossBound
<1>5. LossInv'
  BY <1>1, <1>2, <1>4 DEF LossInv, LossIsBounded, JustRestarted
<1>. QED BY <1>3, <1>5

\* No file bears a day that has not begun.
FileDated == disk.day \in Nat \cup {Never} /\ disk.day <= Today

LEMMA InitDated == Init => FileDated
BY InitType, TodayIsNat DEF Init, FileDated, NoFile, Never

LEMMA StepDated ==
    ASSUME TypeInv, FileDated, [Next]_ledgerVars
    PROVE  FileDated'
<1>1. Today \in Nat /\ now \in Nat
  BY TodayIsNat DEF TypeInv, TypeOK
<1>2. now' = now \/ now' = now + 1
  BY DEF Next, TickBegins, TickWithoutSave, TickSaves, TickSaveFails, TickEndsWith, Crash,
         Restart, Extend, ToggleSharedPool, SecondPasses, ledgerVars
<1>3. now' \in Nat /\ now' >= now
  BY <1>1, <1>2
<1>4. Today <= Today' /\ Today' \in Nat
  BY <1>3, DaysAdvance DEF Today
<1>5. disk' = disk \/ disk' = Snapshot
  BY DEF Next, TickBegins, TickWithoutSave, TickSaves, TickSaveFails, TickEndsWith, Crash,
         Restart, Extend, ToggleSharedPool, SecondPasses, ledgerVars
<1>6. Snapshot.day = Today
  BY DEF Snapshot
<1>7. disk'.day \in Nat \cup {Never} /\ disk'.day <= Today
  BY <1>1, <1>5, <1>6 DEF FileDated
<1>. QED BY <1>1, <1>4, <1>7 DEF FileDated, Never

\* A restart that knows the file of this day for today's finds what was saved; a file of
\* another day holds nothing of today.
LEMMA RestartSave ==
    ASSUME TypeInv, FileDated, SaveInv, LossInv, Restart
    PROVE  SaveInv' /\ LossInv'
<1>1. /\ pc = "down" /\ pc' = "ready" /\ now' = now /\ lastTick' = lastTick
      /\ lastSave' = lastSave /\ disk' = disk /\ atCrash' = atCrash /\ saveFailed' = saveFailed
      /\ Today' = Today
  BY DEF Restart, Today
<1>2. Today \in Nat /\ now \in Nat
  BY TodayIsNat DEF TypeInv, TypeOK
<1>3. lastDay' \in {lastDay, disk.day}
  BY <1>1 DEF Restart, Restorable
<1>4. lastTick = Never /\ lastDay = Never /\ Never \notin Nat /\ usageAny = NoUsage /\ usageFg = NoUsage
  BY <1>1 DEF SaveInv, Never
<1>5. SaveInv'
  BY <1>1, <1>2, <1>3, <1>4 DEF SaveInv, FileDated
<1>6. ASSUME NEW u \in Uids, lastDay' = Today
      PROVE  /\ usageAny'[u] = Found(FileAny, Today, u) /\ usageFg'[u] = Found(FileFg, Today, u)
  <2>1. Restorable /\ disk # NoFile
    BY <1>1, <1>2, <1>4, <1>6 DEF Restart, Restorable
  <2>2. disk.day = Today
    BY <1>6, <2>1 DEF Restart, Restorable
  <2>. QED BY <1>1, <2>1, <2>2 DEF Restart, Found, FileAny, FileFg
<1>7. ASSUME NEW u \in Uids
      PROVE  /\ Found(FileAny, Today, u)' = Found(FileAny, Today, u)
             /\ Found(FileFg, Today, u)' = Found(FileFg, Today, u)
             /\ Found(FileAny, Today, u) \in Nat /\ Found(FileFg, Today, u) \in Nat
             /\ usageAny'[u] \in Nat /\ usageFg'[u] \in Nat
  <2>1. usageAny'[u] \in Nat /\ usageFg'[u] \in Nat
    BY <1>7, RestartType DEF TypeInv, TypeOK
  <2>. QED BY <1>1, <1>7, <2>1, FoundIsNat DEF Found, FileAny, FileFg
<1>8. (lastDay = Today => Unsaved(0))'
  BY <1>1, <1>6, <1>7 DEF Unsaved
<1>9. LossIsBounded'
  <2>1. SUFFICES ASSUME ~saveFailed, atCrash.day = Today, disk.day = Today => lastDay' = Today,
                        NEW u \in Uids
                 PROVE  /\ atCrash.usageAny[u] - usageAny'[u] < SaveEvery + TickSecs + MaxTick
                        /\ atCrash.usageFg[u] - usageFg'[u] < SaveEvery + TickSecs + MaxTick
    BY <1>1 DEF LossIsBounded, JustRestarted, TodaysFileIsKnown
  <2>2. /\ atCrash.usageAny[u] - Found(FileAny, Today, u) <= LossBound
        /\ atCrash.usageFg[u] - Found(FileFg, Today, u) <= LossBound
    BY <1>1, <2>1 DEF LossInv, UnsavedAtCrash
  <2>3. /\ atCrash.usageAny[u] \in Nat /\ atCrash.usageFg[u] \in Nat
        /\ {SaveEvery, TickSecs, MaxTick} \subseteq Nat
    BY <2>1, LedgerAssumption DEF SaveInv, LedgerAssumption
  <2>4. Found(FileAny, Today, u) <= usageAny'[u] /\ Found(FileFg, Today, u) <= usageFg'[u]
    <3>1. CASE disk.day = Today
      BY <1>6, <1>7, <2>1, <3>1
    <3>2. CASE disk.day # Today
      BY <1>7, <3>2 DEF Found
    <3>. QED BY <3>1, <3>2
  <2>. QED BY <1>7, <2>2, <2>3, <2>4 DEF LossBound
<1>. QED BY <1>1, <1>4, <1>5, <1>8, <1>9 DEF LossInv

LEMMA SecondSave ==
    ASSUME TypeInv, FileDated, SaveInv, LossInv, SecondPasses
    PROVE  SaveInv' /\ LossInv'
<1>1. /\ pc' = pc /\ lastTick' = lastTick /\ lastSave' = lastSave /\ disk' = disk
      /\ lastDay' = lastDay /\ atCrash' = atCrash /\ saveFailed' = saveFailed
      /\ usageAny' = usageAny /\ usageFg' = usageFg
      /\ now' = now + 1 /\ now \in Nat /\ (pc = "decided" => now < lastTick + TickSecs)
  BY DEF SecondPasses, clocks, counters, history, TypeInv, TypeOK
<1>2. Today <= Today' /\ Today \in Nat /\ Today' \in Nat
  BY <1>1, DaysAdvance, TodayIsNat DEF Today
<1>3. /\ {TickSecs, lastSave} \subseteq Nat /\ lastTick \in Nat \cup {Never}
      /\ lastDay \in Nat \cup {Never} /\ atCrash.day \in Nat \cup {Never} /\ Never \in Int
  BY LedgerAssumption DEF LedgerAssumption, TypeInv, TypeOK, SaveInv, Never
<1>4. SaveInv'
  <2>1. lastDay <= Today' /\ atCrash.day <= Today' /\ lastSave <= now'
    BY <1>1, <1>2, <1>3 DEF SaveInv
  <2>2. pc = "decided" => now' <= lastTick + TickSecs
    BY <1>1, <1>3 DEF SaveInv
  <2>. QED BY <1>1, <2>1, <2>2 DEF SaveInv
<1>5. /\ lastDay = Today' => lastDay = Today
      /\ atCrash.day = Today' => atCrash.day = Today /\ Today' = Today
  BY <1>2, <1>3 DEF SaveInv
<1>6. LossInv'
  BY <1>1, <1>5, FilesAre
     DEF LossInv, LossIsBounded, JustRestarted, TodaysFileIsKnown, Unsaved, UnsavedAtCrash, LossBound
<1>. QED BY <1>4, <1>6

LEMMA OthersSave ==
    ASSUME SaveInv, LossInv,
           \/ \E k \in Accounts, secs \in Grants : Extend(k, secs)
           \/ ToggleSharedPool \/ UNCHANGED ledgerVars
    PROVE  SaveInv' /\ LossInv'
<1>1. /\ pc' = pc /\ now' = now /\ lastTick' = lastTick /\ lastDay' = lastDay
      /\ lastSave' = lastSave /\ disk' = disk /\ atCrash' = atCrash
      /\ saveFailed' = saveFailed /\ usageAny' = usageAny /\ usageFg' = usageFg /\ Today' = Today
  BY DEF Extend, ToggleSharedPool, ledgerVars, clocks, counters, history, Today
<1>2. SaveInv'
  BY <1>1 DEF SaveInv
<1>3. LossInv'
  BY <1>1, FilesAre
     DEF LossInv, LossIsBounded, JustRestarted, TodaysFileIsKnown, Unsaved, UnsavedAtCrash, LossBound
<1>. QED BY <1>2, <1>3

\* A crash at any moment takes no more of the day's usage than one save period, one tick's
\* length and one tick's credit, unless the last save had failed or the restart took the
\* day's file for one of another day.
THEOREM LossCorrect == Spec => []LossIsBounded
<1>. DEFINE Inv == TypeInv /\ FileDated /\ SaveInv /\ LossInv
<1>1. Init => Inv
  BY InitType, InitDated, SaveInit
<1>2. ASSUME Inv, [Next]_ledgerVars PROVE Inv'
  BY <1>2, StepType, StepDated, TickBeginsSave, TickBeginsLoss, TickEndsSave, CrashSave,
     RestartSave, SecondSave, OthersSave
     DEF Next
<1>3. Inv => (~saveFailed => LossIsBounded)
  BY DEF LossInv
<1>4. Inv => LossIsBounded
  BY <1>3 DEF LossIsBounded
<1>. QED BY <1>1, <1>2, <1>4, PTL DEF Spec

------------------------------------------------------------------------------
\* In UTC load_state compares the file's day with the right day.  So the timezone, which it
\* does not know, is all that violates RestartKeepsToday, and all that the exception in
\* LossIsBounded is for.
TodayIsKept == (JustRestarted => TodaysFileIsKnown) /\ RestartKeepsToday

LEMMA RestartKeepsFile ==
    ASSUME Offset = 0, TypeInv, Restart
    PROVE  TodayIsKept'
<1>1. disk' = disk /\ Today' = Today /\ DayOf(now, 0) = Today
  BY DEF Restart, Today
<1>2. ASSUME disk.day = Today
      PROVE  lastDay' = Today /\ usageAny' = disk.usageAny /\ usageFg' = disk.usageFg
  <2>1. disk # NoFile
    BY <1>2, TodayIsNat DEF NoFile, Never
  <2>. QED BY <1>1, <1>2, <2>1 DEF Restart, Restorable
<1>. QED BY <1>1, <1>2 DEF TodayIsKept, TodaysFileIsKnown, RestartKeepsToday

\* Any other step that ends before the first tick leaves file and memory alone.
LEMMA OthersKeepFile ==
    ASSUME TypeInv, FileDated, SaveInv, TodayIsKept, [Next]_ledgerVars, ~Restart
    PROVE  TodayIsKept'
<1>. SUFFICES ASSUME JustRestarted' PROVE TodayIsKept'
  BY DEF TodayIsKept, RestartKeepsToday
<1>1. now \in Nat /\ now # Never
  BY DEF TypeInv, TypeOK, Never
<1>2. CASE SecondPasses \/ UNCHANGED ledgerVars
  <2>1. /\ disk' = disk /\ lastDay' = lastDay /\ usageAny' = usageAny /\ usageFg' = usageFg
        /\ pc' = pc /\ lastTick' = lastTick /\ (now' = now \/ now' = now + 1)
    BY <1>2 DEF SecondPasses, clocks, counters, ledgerVars
  <2>2. now' \in Nat /\ now' >= now
    BY <1>1, <2>1
  <2>3. Today <= Today' /\ Today \in Nat /\ Today' \in Nat
    BY <2>2, DaysAdvance, TodayIsNat DEF Today
  <2>4. disk.day = Today' => disk.day = Today /\ Today' = Today
    BY <2>3 DEF FileDated, Never
  <2>. QED BY <2>1, <2>4 DEF TodayIsKept, TodaysFileIsKnown, RestartKeepsToday, JustRestarted
<1>3. CASE ~SecondPasses /\ ledgerVars' # ledgerVars
  <2>1. pc' # "ready" \/ lastTick' # Never
    BY <1>1, <1>3
       DEF Next, TickBegins, TickWithoutSave, TickSaves, TickSaveFails, TickEndsWith, Crash,
           Extend, ToggleSharedPool, Serving, clocks, SaveInv
  <2>. QED BY <2>1 DEF JustRestarted
<1>. QED BY <1>2, <1>3

\* In UTC the day's state survives every restart: RestartKeepsToday holds, and LossIsBounded
\* has no exception but a save that failed.
THEOREM UTCKeepsToday == Offset = 0 => (Spec => []TodayIsKept)
<1>. SUFFICES ASSUME Offset = 0 PROVE Spec => []TodayIsKept
  OBVIOUS
<1>. DEFINE Inv == TypeInv /\ FileDated /\ SaveInv /\ LossInv /\ TodayIsKept
<1>1. Init => Inv
  <2>1. Init => TodayIsKept
    BY InitType, TodayIsNat
       DEF Init, TodayIsKept, TodaysFileIsKnown, RestartKeepsToday, NoFile, Never
  <2>. QED BY <2>1, InitType, InitDated, SaveInit
<1>2. ASSUME Inv, [Next]_ledgerVars PROVE Inv'
  <2>1. TodayIsKept'
    BY <1>2, RestartKeepsFile, OthersKeepFile
  <2>2. TypeInv' /\ FileDated' /\ SaveInv' /\ LossInv'
    BY <1>2, StepType, StepDated, TickBeginsSave, TickBeginsLoss, TickEndsSave, CrashSave,
       RestartSave, SecondSave, OthersSave
       DEF Next
  <2>. QED BY <2>1, <2>2
<1>3. Inv => TodayIsKept
  OBVIOUS
<1>. QED BY <1>1, <1>2, <1>3, PTL DEF Spec

================================================================================
