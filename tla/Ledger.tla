--------------------------------- MODULE Ledger ---------------------------------
(***************************************************************************)
(* What the engine counts per day (daemon/src/engine.rs): usage, cooldowns *)
(* and extension grants; their reset at local midnight; the state file     *)
(* that is to carry them over a restart of the daemon.                     *)
(*                                                                         *)
(* One duration rule governs some uids: as an app rule each, as a group,   *)
(* or as a group with a shared pool.  An account is what the usage limit   *)
(* and its cooldown apply to, a uid or the group's pool; an extension is   *)
(* held by the uid or by the group.  Times are seconds; what the code      *)
(* counts in minutes is given in seconds.                                  *)
(***************************************************************************)
EXTENDS Integers, FiniteSets, FiniteSetsExt, Functions

CONSTANTS Uids,
          Group,        \* the group's key
          RuleChoices,  \* the rules that may be in force when the model starts
          Limit,        \* limit_minutes
          MaxTick,      \* MAX_TICK_SECS
          SaveEvery,    \* STATE_SAVE_SECS
          Cap,          \* the extension a day allows (120 minutes)
          Grants,       \* the extensions one may ask for
          DaySecs,      \* the length of a day
          Offset,       \* the configured timezone, seconds east of UTC
          TickSecs,     \* a tick takes at most this long (bound)
          Start,        \* the epoch second at which the model starts
          Horizon,      \* the clock stops here (bound)
          MaxCrashes,   \* how often the daemon dies (bound)
          MaxToggles    \* how often shared_pool is toggled (bound)

\* A duration rule with its group, if any; freeze is freeze_minutes, 0 for no cooldown.
DurationRule ==
    [members : SUBSET Uids, grouped : BOOLEAN, pooled : BOOLEAN,
     scope : {"foreground", "background", "any"}, freeze : Nat]

ASSUME LedgerAssumption ==
    /\ IsFiniteSet(Uids) /\ Group \notin Uids
    /\ RuleChoices \subseteq DurationRule
    /\ \A r \in RuleChoices : r.pooled => r.grouped
    /\ {Limit, MaxTick, SaveEvery, DaySecs} \subseteq Nat \ {0}
    /\ {Cap, TickSecs, Start, Horizon, MaxCrashes, MaxToggles} \subseteq Nat
    /\ Offset \in Int /\ Start + Offset >= 0
    /\ Grants \subseteq Nat
    /\ Start >= SaveEvery

VARIABLES now,        \* epoch seconds
          pc,         \* "down", "ready", or "decided" (inside a tick, before the save)
          rule,       \* [members, grouped, pooled, scope, freeze]
          usageAny,   \* Engine.usage_seconds
          usageFg,    \* Engine.usage_fg
          coolUntil,  \* cooldown_until and group_cooldown_until, 0 if there is no entry
          extUntil,   \* extension_until and group_extension_until, 0 if no entry
          granted,    \* ext_granted_today and group_ext_granted_today
          lastTick,   \* Engine.last_tick, Never before the first; in a tick, its now_epoch
          lastDay,    \* Engine.last_day, Never if not set
          lastSave,   \* Engine.last_save
          blocked,    \* the uids the last tick blocked
          disk,       \* state.json, or NoFile
          crashes, toggles,
          since,      \* history: the day on which the oldest usage in force was counted
          diskSince,  \* history: the same for the usage in the file
          mislabelled,\* history: the usage in force came from a file whose day it is not
          atCrash,    \* history: what the last crash took from memory, until the next tick
          saveFailed, \* history: the last save did not reach the disk
          toggled,    \* history: shared_pool was toggled since the usage in force was
                      \* first counted
          diskToggled,\* history: the same for the usage in the file
          extensions, \* history: how many extensions make up granted
          diskExtensions \* history: the same for the file

counters == <<usageAny, usageFg, coolUntil, extUntil, granted>>
clocks == <<lastTick, lastDay, lastSave>>
fileHistory == <<diskSince, diskToggled, diskExtensions>>
history == <<since, mislabelled, atCrash, saveFailed, toggled, extensions, fileHistory>>
ledgerVars == <<now, pc, rule, counters, clocks, blocked, disk, crashes, toggles, history>>

------------------------------------------------------------------------------

Never == -1
NoFile == [day |-> Never]
Accounts == Uids \cup {Group}

NoUsage == [u \in Uids |-> 0]
NothingLost == [day |-> Never, usageAny |-> NoUsage, usageFg |-> NoUsage]
NoEntries == [k \in Accounts |-> 0]

DayOf(t, offset) == (t + offset) \div DaySecs
Today == DayOf(now, Offset)

\* Which account a uid's usage is held against, and whose extension exempts it.
TimeAccount(u) == IF rule.pooled THEN Group ELSE u
ExtAccount(u) == IF rule.grouped THEN Group ELSE u

TimeAccounts == {TimeAccount(u) : u \in rule.members}
\* The extension that exempts the payers of an account.
ExtensionOf(k) == IF rule.grouped THEN Group ELSE k
ExtAccounts == {ExtAccount(u) : u \in rule.members}
Payers(k) == {u \in rule.members : TimeAccount(u) = k}

\* scoped_usage
Scoped(any, fg) ==
    CASE rule.scope = "any"        -> any
      [] rule.scope = "background" -> IF any > fg THEN any - fg ELSE 0
      [] OTHER                     -> fg

\* The usage an account is charged with: over_duration sums over a shared pool.
Used(any, fg, k) ==
    SumFunctionOnSet([u \in Uids |-> Scoped(any[u], fg[u])], Payers(k))

\* Mutant: the limit may be used up to the last second and one more.
UsedUpAfter(any, fg, k) == Used(any, fg, k) > Limit

UsedUp(any, fg, k) == Used(any, fg, k) >= Limit

------------------------------------------------------------------------------
\* One tick: Engine::tick up to the wanted states.

NewDay == lastDay # Today

\* Mutant: the day's reset leaves the counters alone when the state came from a file.
AfterResetUnlessRestored(f) ==
    IF NewDay /\ lastTick # Never THEN [x \in DOMAIN f |-> 0] ELSE f

\* The daily reset.
AfterReset(f) == IF NewDay THEN [x \in DOMAIN f |-> 0] ELSE f

Elapsed ==
    IF lastTick = Never THEN 0
    ELSE IF now - lastTick < MaxTick THEN now - lastTick ELSE MaxTick

Credited(usage, uids) ==
    [u \in Uids |-> AfterReset(usage)[u] + (IF u \in uids THEN Elapsed ELSE 0)]

\* maintain_uid_cooldown and maintain_group_cooldown: a cooldown that is over takes
\* the usage of its payers with it; one starts where the limit is used up.
Ended == {k \in TimeAccounts : rule.freeze > 0 /\ AfterReset(coolUntil)[k] \in 1 .. now}

\* Mutant: the end of a cooldown takes one limit off instead of starting from zero.
SettledByLimit(usage) ==
    [u \in Uids |-> IF u \in rule.members /\ TimeAccount(u) \in Ended
                    THEN usage[u] - Limit ELSE usage[u]]

Settled(usage) == [u \in Uids |-> IF u \in rule.members /\ TimeAccount(u) \in Ended THEN 0 ELSE usage[u]]

Cooldowns(any, fg) ==
    LET cool == AfterReset(coolUntil)
        open == {k \in TimeAccounts : rule.freeze > 0 /\ (cool[k] = 0 \/ k \in Ended)}
    IN  [k \in Accounts |-> IF k \notin open THEN cool[k]
                            ELSE IF UsedUp(any, fg, k) THEN now + rule.freeze ELSE 0]

\* eval for a duration rule alone: extension, then cooldown, then the limit.
Blocks(u, any, fg, cool, ext) ==
    /\ now >= ext[ExtAccount(u)]
    /\ now < cool[TimeAccount(u)] \/ UsedUp(any, fg, TimeAccount(u))

\* uids_snapshot, of the uids under the rule (duration_targets): those seen running, and
\* those in the foreground; /proc is only walked when the rule counts more than
\* foreground time.  What is blocked does not run (Enforcement).
MayRun == rule.members \ blocked

Snapshots ==
    IF rule.scope = "foreground"
    THEN {<<{}, fg>> : fg \in SUBSET MayRun}
    ELSE UNION {{<<live, fg>> : fg \in SUBSET live} : live \in SUBSET MayRun}

SinceAfter(any, fg) ==
    IF any = NoUsage /\ fg = NoUsage THEN Never
    ELSE IF since = Never \/ (AfterReset(usageAny) = NoUsage /\ AfterReset(usageFg) = NoUsage)
         THEN Today ELSE since

TickBegins(live, fg) ==
    /\ pc = "ready"
    /\ pc' = "decided"
    /\ usageAny' = Settled(Credited(usageAny, live))
    /\ usageFg' = Settled(Credited(usageFg, fg))
    /\ coolUntil' = Cooldowns(usageAny', usageFg')
    /\ extUntil' = AfterReset(extUntil)
    /\ granted' = AfterReset(granted)
    /\ blocked' = {u \in rule.members : Blocks(u, usageAny', usageFg', coolUntil', extUntil')}
    /\ lastDay' = Today
    /\ lastTick' = now
    /\ since' = SinceAfter(usageAny', usageFg')
    /\ mislabelled' = (mislabelled /\ ~NewDay)
    /\ toggled' = (toggled /\ ~NewDay)
    /\ extensions' = AfterReset(extensions)
    /\ atCrash' = NothingLost
    /\ UNCHANGED <<now, rule, lastSave, disk, crashes, toggles, saveFailed, fileHistory>>

------------------------------------------------------------------------------
\* The state file.

\* Mutant: an unsaved minute more before the next save.
SaveDueLate == lastTick - lastSave >= 4 * SaveEvery

SaveDue == lastTick - lastSave >= SaveEvery

\* Mutant: the two usages change places in the file.
SnapshotSwapped == [day |-> Today, usageAny |-> usageFg, usageFg |-> usageAny,
                    coolUntil |-> coolUntil, granted |-> granted]

\* save_state reads the clock again for the day it writes.
Snapshot == [day |-> Today, usageAny |-> usageAny, usageFg |-> usageFg,
             coolUntil |-> coolUntil, granted |-> granted]

\* How a tick ends: with a file and what is known of its contents.
TickEndsWith(file, known) ==
    /\ pc = "decided"
    /\ pc' = "ready"
    /\ disk' = file
    /\ diskSince' = known[1] /\ diskToggled' = known[2] /\ diskExtensions' = known[3]
    /\ UNCHANGED <<now, rule, counters, lastTick, lastDay, blocked, crashes,
                   toggles, since, mislabelled, atCrash, toggled, extensions>>

TickWithoutSave ==
    /\ ~SaveDue
    /\ TickEndsWith(disk, fileHistory)
    /\ UNCHANGED <<lastSave, saveFailed>>

TickSaves ==
    /\ SaveDue
    /\ TickEndsWith(Snapshot, <<since, toggled, extensions>>)
    /\ lastSave' = now
    /\ saveFailed' = FALSE

\* The write or the rename fails: nobody is told, and the next try is a period away.
TickSaveFails ==
    /\ SaveDue
    /\ TickEndsWith(disk, fileHistory)
    /\ lastSave' = now
    /\ saveFailed' = TRUE

\* The daemon dies (or the device does) at any point; memory is gone.
Crash ==
    /\ pc # "down"
    /\ crashes < MaxCrashes
    /\ crashes' = crashes + 1
    /\ pc' = "down"
    /\ atCrash' = [day |-> lastDay, usageAny |-> usageAny, usageFg |-> usageFg]
    /\ usageAny' = NoUsage /\ usageFg' = NoUsage
    /\ coolUntil' = NoEntries /\ extUntil' = NoEntries /\ granted' = NoEntries
    /\ lastTick' = Never /\ lastDay' = Never /\ lastSave' = 0
    /\ blocked' = {}
    /\ since' = Never
    /\ mislabelled' = FALSE
    /\ toggled' = FALSE
    /\ extensions' = NoEntries
    /\ UNCHANGED <<now, rule, disk, toggles, saveFailed, fileHistory>>

\* Engine::new and load_state.  The timezone is not known yet (rules are parsed, but
\* only a reload sets tz_secs): the day the file is compared with is UTC's.
Restorable == disk # NoFile /\ disk.day = DayOf(now, 0)

Restart ==
    /\ pc = "down"
    /\ pc' = "ready"
    /\ IF Restorable
       THEN /\ lastDay' = DayOf(now, 0)
            /\ usageAny' = disk.usageAny
            /\ usageFg' = disk.usageFg
            /\ coolUntil' = disk.coolUntil
            /\ granted' = disk.granted
            /\ since' = diskSince
            /\ mislabelled' = (diskSince \notin {Never, disk.day})
            /\ toggled' = diskToggled
            /\ extensions' = diskExtensions
       ELSE UNCHANGED <<lastDay, usageAny, usageFg, coolUntil, granted, since, mislabelled,
                        toggled, extensions>>
    /\ UNCHANGED <<now, rule, extUntil, lastTick, lastSave, blocked, disk,
                   crashes, toggles, atCrash, saveFailed, fileHistory>>

------------------------------------------------------------------------------
\* Requests, served between ticks once the first tick is over.

Serving == pc = "ready" /\ lastTick # Never

\* Mutant: the grant is not cut to what is left of the day's budget.
CutToBudgetNot(secs, k) == secs

CutToBudget(secs, k) == IF secs < Cap - granted[k] THEN secs ELSE Cap - granted[k]

\* add_extension: cut to the day's budget, added to a running extension.
Extend(k, secs) ==
    /\ Serving
    /\ k \in ExtAccounts
    /\ granted[k] < Cap
    /\ granted' = [granted EXCEPT ![k] = @ + CutToBudget(secs, k)]
    /\ extUntil' = [extUntil EXCEPT ![k] = (IF @ > now THEN @ ELSE now) + CutToBudget(secs, k)]
    /\ extensions' = [extensions EXCEPT ![k] = @ + 1]
    /\ UNCHANGED <<now, pc, rule, usageAny, usageFg, coolUntil, clocks, blocked, disk,
                   crashes, toggles, since, mislabelled, atCrash, saveFailed, toggled,
                   fileHistory>>

\* Mutant: the pool's own cooldown survives the toggle.
ForgottenByToggleMembers == Uids

ForgottenByToggle == {Group} \cup Uids

\* reload with the group's shared_pool toggled: cooldowns of the old mode are dropped,
\* usage is kept.
ToggleSharedPool ==
    /\ Serving
    /\ rule.grouped
    /\ toggles < MaxToggles
    /\ toggles' = toggles + 1
    /\ rule' = [rule EXCEPT !.pooled = ~@]
    /\ coolUntil' = [k \in Accounts |-> IF k \in ForgottenByToggle THEN 0 ELSE coolUntil[k]]
    /\ toggled' = TRUE
    /\ diskToggled' = TRUE
    /\ UNCHANGED <<now, pc, usageAny, usageFg, extUntil, granted, clocks, blocked, disk,
                   crashes, since, diskSince, mislabelled, atCrash, saveFailed,
                   extensions, diskExtensions>>

SecondPasses ==
    /\ now < Horizon
    /\ pc = "decided" => now < lastTick + TickSecs
    /\ now' = now + 1
    /\ UNCHANGED <<pc, rule, counters, clocks, blocked, disk, crashes, toggles, history>>

------------------------------------------------------------------------------

Init ==
    /\ now = Start
    /\ pc = "ready"
    /\ rule \in RuleChoices
    /\ usageAny = NoUsage /\ usageFg = NoUsage
    /\ coolUntil = NoEntries /\ extUntil = NoEntries /\ granted = NoEntries
    /\ lastTick = Never /\ lastDay = Never /\ lastSave = 0
    /\ blocked = {}
    /\ disk = NoFile
    /\ crashes = 0 /\ toggles = 0
    /\ since = Never /\ diskSince = Never
    /\ mislabelled = FALSE
    /\ atCrash = NothingLost
    /\ saveFailed = FALSE
    /\ toggled = FALSE /\ diskToggled = FALSE
    /\ extensions = NoEntries /\ diskExtensions = NoEntries

Next ==
    \/ \E s \in Snapshots : TickBegins(s[1], s[2])
    \/ TickWithoutSave
    \/ TickSaves
    \/ TickSaveFails
    \/ Crash
    \/ Restart
    \/ \E k \in Accounts, secs \in Grants : Extend(k, secs)
    \/ ToggleSharedPool
    \/ SecondPasses

Spec == Init /\ [][Next]_ledgerVars

------------------------------------------------------------------------------

\* The types of the ledger's state.
TypeOK ==
    /\ now \in Nat
    /\ pc \in {"down", "ready", "decided"}
    /\ {usageAny, usageFg} \subseteq [Uids -> Nat]
    /\ {coolUntil, extUntil, granted, extensions, diskExtensions} \subseteq [Accounts -> Nat]
    /\ {lastTick, lastDay} \subseteq Nat \cup {Never}
    /\ lastSave \in Nat
    /\ blocked \subseteq Uids
    /\ {mislabelled, saveFailed, toggled, diskToggled} \subseteq BOOLEAN
    /\ crashes \in 0 .. MaxCrashes
    /\ toggles \in 0 .. MaxToggles

\* No extension reaches further than what was granted today, and a day's grants stay
\* within the cap, whatever resets and restarts fall between (add_extension).
ExtensionsAreGranted ==
    \A k \in Accounts : granted[k] <= Cap /\ extUntil[k] <= now + granted[k]

\* A cooldown that counts was earned: its account has used up its limit, and not longer
\* than one cooldown ago; through resets, restarts and changes of the pooling
\* (engine.rs 362).  Two crashes, each right after a toggle, are the exception: the state
\* file brings the first mode's cooldown back, and then back into force.
CooldownsAreEarned ==
    crashes <= 1 \/ toggles <= 1 =>
        \A k \in TimeAccounts :
            coolUntil[k] # 0 =>
                /\ UsedUp(usageAny, usageFg, k)
                /\ coolUntil[k] <= now + rule.freeze

\* Without a crash no cooldown of the other pooling mode lingers after a toggle
\* (engine.rs 362).
NoCooldownLingers ==
    crashes = 0 => \A k \in Accounts \ TimeAccounts : coolUntil[k] = 0

\* With what is blocked not running, an account exceeds its limit by less than this for
\* each payer: the credit of one tick, the time granted to it, and one more tick's credit
\* for each extension that may end between ticks; through resets, crashes and restarts,
\* unless the pooling changed since the usage was first counted.
Allowance(k) == MaxTick * (1 + extensions[ExtensionOf(k)]) + granted[ExtensionOf(k)]

LimitIsKept ==
    ~toggled =>
        \A k \in TimeAccounts :
            Used(usageAny, usageFg, k) < Limit + Cardinality(Payers(k)) * Allowance(k)

\* What a crash makes a daemon forget of its day is bounded by the save period and the
\* tick that was running (engine.rs 50), unless saving failed, or the restart took a file
\* of this day for one of another (load_state, before the timezone is known).
JustRestarted == pc = "ready" /\ lastTick = Never
TodaysFileIsKnown == disk.day = Today => lastDay = Today

LossIsBounded ==
    JustRestarted /\ atCrash.day = Today /\ ~saveFailed /\ TodaysFileIsKnown =>
        \A u \in Uids :
            /\ atCrash.usageAny[u] - usageAny[u] < SaveEvery + TickSecs + MaxTick
            /\ atCrash.usageFg[u] - usageFg[u] < SaveEvery + TickSecs + MaxTick

\* Between ticks the usage in force was counted on the day of the last tick; a state
\* file whose day is not that of its contents is the exception.
CountersAreTodays ==
    Serving /\ since # Never /\ ~mislabelled => since = lastDay

\* What the comment at engine.rs 296 says without exception: restored state belongs
\* to today.
RestoredStateIsTodays == Serving /\ since # Never => since = lastDay

\* What the comment at engine.rs 50 says: a restart does not defeat the day's limits,
\* so a file written on the (local) day of the restart is restored.
RestartKeepsToday ==
    JustRestarted /\ disk # NoFile /\ disk.day = Today
        => usageAny = disk.usageAny /\ usageFg = disk.usageFg
===============================================================================
