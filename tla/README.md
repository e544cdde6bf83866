# Ningshi: TLA+ models, model checks and proofs

Ningshi keeps selected Android apps from running. A root daemon (`daemon/src`, Rust)
decides from the user's rules which uids are blocked; BPF probes
(`daemon/bpf/gate.bpf.c`) report processes of blocked uids; a killer thread signals
them; a WebUI edits the rules file. These modules model the parts of that program whose
correctness depends on interleavings, clocks, restarts and bounds.

Source paths below are relative to the repository; `engine.rs` and the other bare `.rs`
names are in `daemon/src`.

## 1. The system

| component | state | operations | modelled in |
|---|---|---|---|
| kernel gate (`gate.bpf.c`) | maps `blocked_uids`, `spawned`, `reported`, `stats`; ring `events` | probes on binder entry, binder exit, credential change | `KernelGate` (promise: `GateEvents`) |
| gate threads (`gate.rs`) | drain thread's `recent`; killer's pending pidfds; shared block list mirror and identity index; wake pipe | drain, receive and pin, poll, check list, check identity, kill, shut down | `Killer` |
| sweep and transition kills (`clear.rs`, `proc.rs`) | the listing being worked through | list, check owner, pin, signal | `Clear` |
| block list transitions (`engine.rs` 478-590) | `blocked`, plus the gate's lists | replace index, kill, insert, remove, sweep | `Enforcement` |
| rule evaluation and schedule (`engine.rs` 932-1115) | none (pure) | `eval`, `in_window`, `window_edge_secs`, `next_wake_secs` | `Rules` |
| main loop (`main.rs`, `socket.rs`) | `next_tick`, one client at a time | poll, accept, tick, request | `Wake` |
| usage ledger and state file (`engine.rs`) | usage, cooldowns, extensions, day, `state.json` | credit, cool down, reset, save, restore, extend, toggle | `Ledger` |
| package map (`pm.rs`, `sync_packages`) | `uid_of`, per-uid state keyed by it | resolve, migrate, drop | `Packages` (promise: `WatchedFile`) |
| rules store (`rules.rs`, `load_rules`, `apply_rules_file`, `reload`) | rules in force, their source, `rules.json`, `rules.json.ok` | load, fall back, apply, back up | `RulesStore` (promise: `WatchedFile`) |
| foreground and screen (`fg.rs`) | none | read cpusets, DRM | inputs of `Ledger` and `Wake` |
| status and health | none | read-only | no |
| watchdog and install scripts | none | respawn the daemon | `Crash`, `Restart` in `Ledger`; `Crashes`, `DaemonStarts` in `UserData` |
| WebUI (`module/webroot`) | an edited copy of the rules | fetch, edit, apply | `WebUI` |

**How they interact.** The probes and the drain thread share a ring buffer, the drain
and killer threads a channel. The engine writes the kernel's block map and, behind two
mutexes, the mirror and the identity index that the killer reads. Engine, sweep, control
socket and clock all run in one thread: a tick and a request never overlap, but each is
long, reads the clock more than once and can be cut short by an error or the death of
the process. What survives is `rules.json`, its backup and `state.json`. The two files the
daemon does not write alone, `rules.json` and `packages.list`, it watches by their mtime;
user, package manager and WebUI sessions may write them between any two of its steps.

**What is hard.** Pid numbers are reused between any two looks at them. Lists are
changed while another thread acts on what it read from them. Events may be lost, so a
sweep must make up for them. Decisions must be taken again exactly when time changes
them, though the loop sleeps for minutes, waits for clients and its clock stops in
suspend. Counters must survive a crash, but not a midnight.

**What makes each part correct**

- *kernel gate*: an event is about a process that runs under a blocked uid at that
  moment; an event consumes a mark.
- *gate threads*: nobody is signalled but a process with a name the user blocked, for a
  uid on the list; no pending process is forgotten; a shutdown ends.
- *transitions and sweeps*: the three block lists agree; what runs under a blocked uid
  ends; other uids are left alone.
- *schedule and loop*: the decision in force is the one the rules ask for now.
- *ledger*: limits hold, cooldowns are earned, extensions stay within the granted
  budget, a day's counters are that day's, a crash costs at most a save period.
- *packages*: what is kept by uid follows the app and is never another's; the map is
  that of the list once the daemon believes so.
- *rules store*: a rule in force stays so until somebody takes it out, whatever becomes
  of the file; no decision before the rules are fully configured.
- *WebUI*: a session nobody interferes with shows what is in force.

## 2. The modules

Each definition of a module stands for the lines `PROJECT.json` lists under `map`.

### Processes, GateEvents, KernelGate

`Processes` is the device: `proc[p]` is the app whose process has pid number `p`,
`gen[p]` counts the processes that have had it. A pair of the two is what a pidfd pins.
External, modelled from how `proc.rs` and `gate.rs` use `/proc` and pidfds.

`KernelGate` has one action per probe (`Launch`/`CredChange`, `BinderEntry`,
`BinderEntryFault`, `BinderExit`) and the bounded maps of the BPF program, which ignore
an insert when they are full. The abstract `GateEvents` says only that an event enters the ring
at a moment when its process runs under a blocked uid; `KernelGate` implements it by the
identity on the shared variables, and `Killer` is built on it, so what is shown of the
daemon does not depend on which probes the device's kernel accepts.

### Killer, Clear, Enforcement

`Killer` has the drain thread (`Drain`, `DrainStops`), the killer thread with one action
per step between which another thread may run (`Receive`, `StartPoll`, `CheckBlocked`,
`ReadNames`, `IdentityMatches`/`IdentityMisses`, `KillCur`), and the shutdown of
`Gate::drop`. The 20 tries of `pkg_of_pid_wait` are `IdentityTries`. `oom_score_adj` is
free at each read; a cmdline may still be inherited from zygote at any read.

`Clear` is `kill_pid_if_uid`: owner, pidfd and signal are three steps. The listing of
`/proc` before them is one.

`Enforcement` composes both with the device and the second half of `Engine::tick`:
identity index first, then each transition (kill, map, mirror or the reverse), then at times a
sweep. What the rules want is free at every tick. A map that refuses a uid
ends the tick where it is, as `?` does. `DropGate` is the one way `run_daemon` returns
with a gate running: `socket::listen` fails after the initial tick.

### Rules, Wake

`Rules` translates the pure engine functions. `window_edge_secs` is the least step at
which the predicate flips. Lengths of day, minute and cadences are parameters.
`MinutesOfWeek` is the reference: a window is a stretch of minutes of the week.
`Sanitized` drops weekdays that do not exist from what the rules file says; `Wake` puts
no rules in force but through it (`Loaded`). A window's `HH:MM` is a minute of the day,
`24:00` allowed; the larger values that `parse_hhmm` (`engine.rs` 1112) lets pass are not
modelled.

`Wake` is the loop of `run_daemon` with the part of `Engine::tick` that time drives.
A tick is two steps, its reading of the clock and its end, where `tick_interval_secs`
reads it again; seconds may pass in between. The sleep is counted on the loop's own
clock (`Instant`), which a suspend stops. The model starts where the loop does: the
initial tick is over and `next_tick` is now. Which apps have used up their
limit is free, since `Ledger` counts usage. The clock is read in whole seconds, as in
`now_parts`; what is lost to the fraction of a second is not seen.

### Ledger

One duration rule over some uids: app rules, a group or a group with a shared pool. A
tick is `TickBegins` (reset, credit, cooldowns, verdicts) and, after up to `TickSecs`,
one of `TickWithoutSave`, `TickSaves`, `TickSaveFails`; `Crash` may fall anywhere,
`Restart` is `Engine::new` with `load_state`, including that it knows no timezone yet.
`Extend` and `ToggleSharedPool` are requests. Minutes are seconds in the model. Which
uids run, and which are in front, is free at every tick among those that are
not blocked: that the others do not run is what `Enforcement` is about. What an
account is charged with (`over_duration`) is a sum over its payers, the members of a pool.

`LimitIsKept` says how far an account may go beyond its limit: for each payer the credit
of one tick, what was granted, and one more tick's credit for each extension, because an
extension ends between two ticks and the one that notices credits all since the last.
Grants are forgotten at midnight and brought back by a restart, so `extensions` and
`toggled` record, for the usage in memory, of how many extensions its grants are made up
and whether `shared_pool` was toggled since it was first counted (a toggle turns the usage of
members into that of a pool, at once over any limit). `diskExtensions` and `diskToggled`
record the same for the usage in the file. The file needs its own: a save that runs over
midnight after a toggle labels yesterday's usage with the new day, the next tick begins that
day afresh, and a restart brings the toggled usage back.

### WatchedFile, RulesStore, WebUI, Packages, UserData

These five are about everything the daemon reads that others write. `UserData` composes
the three in the middle with the daemon's thread, which `pc` follows through
`Engine::new`, `reload`, `sync_packages` and `tick`, one step for each access to a file:

| `pc` | next step of the daemon | code |
|---|---|---|
| `down` | `DaemonStarts`: restore `state.json` if it is of today | `Engine::new`, `load_state` |
| `load` | `LoadsRules`: live file, else backup, else nothing | `load_rules` |
| `parse` | `LoadsRules`: live file, else what is in force, else `load` | `reload` 345-352 |
| `copy` | `CopiesRules`: copy what the live file now is | `refresh_backup` |
| `resolve` | `ReloadResolves`, `ReloadFails`: timezone, protected packages, uid map | `reload` 354-356 |
| `stamp` | `ReloadEnds`: remember the mtime, answer the request | `reload` 357 on |
| `check`, `idle` | `Checks`: does a tick need a reload first | `reload_if_changed` |
| `sync` | `SyncLooks`: the mtime of `packages.list` | `sync_packages` 674-684 |
| `read` | `SyncResolves`, `SyncFails` | `sync_packages` 685 |
| `migrate` | `Migrate` (one app at a time, any order), `SyncDone` | `sync_packages` 688-717 |
| `decide` | `Decides`: new day, credit, perhaps a save | `tick` 388 on |

`RulesStore` has the rules file, its copy, and those steps as far as they are about
rules; `EditBegins`, `EditEnds`, `EditBreaksOff`, `FileIsRemoved` are an editor or a
shell. A rule set is the set of packages it has a rule for; what a rule says is not told
apart, since every load takes a file whole. A file that claims a newer version carries
the mark `Newer`: `apply` refuses it, `Rules::load` does not look.

`WebUI` has sessions that read the file once, change one rule at a time and save the
whole: write `rules.json.tmp` (the same for all of them), run `ningshi apply`, and read again if
that fails. `AsksApply` and the load that follows are the daemon's, so a session waits.

`Packages` resolves a list of app ids into the map of every user's apps, and moves what
is kept by uid. Of a ledger's entry it keeps whose time is in it, not how much: `Ledger`
counts. `usage` stands for `usage_seconds` and `usage_fg`, `granted` for everything kept
by uid that does not move with it (`ext_granted_today`, `cooldown_until`, `kill_count`).

`WatchedFile` is the abstract specification: a program keeps a copy of a file that
others write; once it believes it need not look again, the copy is the file's
content. `UserData` implements it twice (`INSTANCE ... WITH`): for `packages.list`
without exception, because `sync_packages` takes the mtime before it reads; for
`rules.json` but for the loads that a write overtakes, because `reload` takes the mtime last.

Some variables record what happened, because the promise has exceptions; each is
false without them, which TLC shows in seconds:

- `crossed`: the day's books were crossed. A reload put a new map in force before
  `sync_packages` could compare it with the old one, a restart forgot the old map, one rewrite of
  the list passed an app's uid to another app, or a process ran under a uid that the
  map still gave to another. Without it `StateFollowsItsApp` is violated.
- `overtaken`: `rules.json` was written after it was parsed and before its mtime was
  taken. The daemon then takes that write for known, until the next one. Without it
  `RulesAreWatched`, `ViewIsCurrent` and `Converges` are violated.
- `behind`: the backup is not what was loaded last, because the copy failed, was cut
  short by a crash, or copied a file that had changed since it was parsed. `overwrote`: a
  session saved a set that lacked a rule it had never seen. Without them `RulesAreKept`
  is violated.
- `kept`, `due`, `keyed` and `found` only help to state properties: rules nobody took
  out, apps whose time must still be there, the map the entries were made by, and
  whether a tick of this daemon has seen `rules.json`.

## 3. What the runs check

| run | module, cfg | checks | states |
|---|---|---|---|
| `kernel_gate` | `MCKernelGate`, `KernelGate.cfg` | `EventsNeedMarks`; `GateEvents` implemented (`EventsAreAboutBlockedProcesses`) | 0.6 million |
| `enforcement` | `MCEnforcement`, `Enforcement.cfg` | `KillsOnlyNamed`, `FreeIsSpared`, `ListsAgree` | 1.2 million |
| `enforcement_live` | `MCEnforcement`, `EnforcementLive.cfg` | `BlockedHasNames`, `BlockedDies`, `PendingResolves`, `ShutdownEnds` | 92 thousand |
| `wake` | `MCWake`, `Wake.cfg` | `WakesOnTime`, `NewDayIsNoticed`, `DecisionIsRecent`, `LockScreenIsSeen`, `WindowsAreTheirMinutes` | 1.4 million |
| `ledger` | `MCLedger`, `Ledger.cfg` | `ExtensionsAreGranted`, `CooldownsAreEarned`, `NoCooldownLingers`, `LimitIsKept`, `LossIsBounded`, `CountersAreTodays` | 1.4 million |
| `user_data` | `MCUserData`, `UserData.cfg` | `StateFollowsItsApp`, `NothingHeldForNobody`, `RulesAreKept`, `ViewIsCurrent`, `DecidesConfigured`, `Converges`; `WatchedFile` implemented twice (`ListIsWatched`, `RulesAreWatched`) | 0.9 million |
| `kill_recheck`, `shutdown_kill`, `sweep_recycled` | `MCEnforcement` | violated, section 5 | |
| `missed_edge` | `MCWake`, `MissedEdge.cfg` | violated, section 5 | |
| `tz_restart`, `midnight_save` | `MCLedger` | violated, section 5 | |

Every passing run also checks its module's `TypeOK`. Every property of a passing run has
a mutant of the code that breaks it, the definitions marked `Mutant:` in the modules.

**Bounds**

- `KernelGate.cfg`: two pid numbers each carried by two processes, two uids, a ring of
  one event and one report time fewer than there are processes, so that ring and maps
  overflow and a mark outlives its process. Counters stop at 2; a mark
  left behind shows with one. The maps need to be full and not full, not large.
- `Enforcement.cfg`: one pid number carried twice (the stale-pid cases need a
  predecessor and a successor), two apps sharing a uid (so that a name can be wanted and
  another not), two identity tries (a first and a last), ring and channel of one.
  Several pids only repeat the pattern: entries are handled one by one.
- `EnforcementLive.cfg`: the same with one process and one try; no state constraint, no
  symmetry. `InsertMayFail` is FALSE: a map that refuses a uid for ever
  blocks nobody. With it TRUE `BlockedHasNames` is false as well: a tick cut short
  has replaced the index but not the lists.
- `Wake.cfg`: four minutes of three seconds a day and cadences 2 < 3 < 7, in the order
  of the code's and not dividing the minute or the day, so that sleeps and edges do not
  fall together by accident; two days from a Sunday into a Monday, the turn
  of the week being where weekday arithmetic can fail; thirteen rule sets with every
  shape of window; two disturbances of any kind at any second. The code's proportions
  (a tick takes far less than a cadence) are kept by ticks and clients of one second.
- `Ledger.cfg`: a limit of one second with a credit of at most one per tick, so that an
  account can use up its limit, get an extension, use that up and still meet the next
  midnight: only so would an extension that lasts longer than it was granted for break
  `LimitIsKept` within the day. A day of five, run from its first second to the second
  of the next, one second west of UTC, so that restarts in the day's last second take
  its file for another day's and `LossIsBounded` needs its exception; one crash, one toggle; a cap of two against grants of one and two, so that a
  grant is cut; app rules of every scope, a group with a shared pool until it is toggled, and
  a group that shares extensions but not usage. A pool still takes several ticks of its
  two members, and with other limits, days and rules the invariants are theorems.
- `UserData.cfg`: two packages, one user, three app ids (an app can get a free id, and
  another's), two sessions. The outside is unbounded in kind but bounded in number, by six
  scenarios that each allow a few events, since the hazards are about pairs: an
  edit by hand, a session's save and a failure; the same with a crash; three saves by two sessions;
  two rewrites of the package list; a rewrite and an extension; a rewrite, a crash and a
  failure. Events fall between any two steps of the daemon. A hand edit removes one
  rule or adds one with a newer version; every edit passes through a file that does not
  parse. Restarts may be of the same day or of another, so `state.json` is restored or not. More
  packages or users only add entries that are handled one by one; the theorems hold for any
  number of each, and of events.

**Deadlock** is checked in `kernel_gate`, `wake`, `ledger` and `user_data` (in `Wake`,
reaching the horizon is a step of its own; in `Ledger` the daemon can always crash-restart
or tick; in `UserData` it ticks on).
It is not checked in the `Enforcement` configurations: once the gate is dropped and
every process has used up its numbers nothing has to happen.

**Fairness** (`Enforcement`, `Fairness`), and why the code gives it: the killer and the
drain thread are never blocked by each other for long, so each of their steps that stays
possible is taken; a pending entry reaches `TIMEOUT_MS`; ticks keep coming, since
`next_wake_secs` never exceeds `IDLE_TICK_SECS`; a tick goes on to its end. Two
assumptions are strong. `StartPoll`: the inner `try_recv` loop finds the channel empty
again and again, because one pid is queued at most once in five seconds. `StartSweep`:
ticks with something blocked are at most `SWEEP_TICK_SECS` apart and `SWEEP_SECS` is 60
s, so sweeps that are possible again and again happen. Nothing is assumed of
the device: processes, transactions and exits may never happen.

In `UserData`, `FairSpec` assumes that the daemon goes on: it is restarted when it has
died (`service.sh` is an endless loop), it ends what it began, and it ticks again
(`next_wake_secs` is never above `IDLE_TICK_SECS`). Nothing is assumed of editors,
sessions or the package manager. Failures are bounded in number, as crashes are: a
`packages.list` that can never be read again leaves the map as it is.

## 4. What is proved

For every set of pids and apps, any bounds, and any length of run:

| module | theorem | says |
|---|---|---|
| `KernelGateProofs` | `TypeCorrect` | `Spec => []TypeOK` |
| | `ImplementsGateEvents` | the probes implement `GateEvents` |
| | `MarksCorrect` | `Spec => []EventsNeedMarks` |
| `EnforcementProofs` | `TypeCorrect` | `Spec => []TypeOK` |
| | `ListsCorrect` | `Spec => []ListsAgree` |
| | `NamesCorrect` | `~InsertMayFail => (Spec => []BlockedHasNames)` |
| | `NamedCorrect` | `Spec => []KillsOnlyNamed` |
| | `FreeCorrect` | `Spec => []FreeIsSpared` |
| `LedgerProofs` | `TypeCorrect` | `Spec => []TypeOK` |
| | `ExtensionsCorrect` | `Spec => []ExtensionsAreGranted` |
| | `DayCorrect` | `Spec => []CountersAreTodays` |
| | `LingerCorrect` | `Spec => []NoCooldownLingers` |
| | `LossCorrect` | `Spec => []LossIsBounded` |
| | `UTCKeepsToday` | `Offset = 0 => (Spec => []TodayIsKept)`: in UTC `RestartKeepsToday` holds and `LossIsBounded` needs no exception for restarts |
| `SumTheorems` | `SumIs`, `SumIsNat` | what a sum over a finite set is, and that it is a natural |
| | `SumGrowth`, `SumAtMost` | a sum grows, and is, by at most `c` for each element when each is |
| `UsageProofs` | `CooldownsCorrect` | `Spec => []CooldownsAreEarned` |
| | `LimitCorrect` | `Spec => []LimitIsKept` |
| `WakeProofs` | `TypeCorrect` | `Spec => []TypeOK` |
| | `OnTimeCorrect` | `Spec => []WakesOnTime` |
| | `NewDayCorrect` | `Spec => []NewDayIsNoticed` |
| | `RecentCorrect` | `Spec => []DecisionIsRecent` |
| | `LockScreenCorrect` | `Spec => []LockScreenIsSeen` |
| | `WindowsCorrect` | `Spec => []WindowsAreTheirMinutes` |
| `UserDataProofs` | `TypeCorrect` | `Spec => []TypeOK` |
| | `ListWatched` | `Spec => ListIsWatched`: `packages.list` implements `WatchedFile` |
| | `RulesWatched` | `Spec => RulesAreWatched`: `rules.json` does, but for overtaken loads |
| | `StateCorrect` | `Spec => []StateFollowsItsApp` |
| | `NobodyCorrect` | `Spec => []NothingHeldForNobody` |
| | `KeptCorrect` | `Spec => []RulesAreKept` |
| | `ViewCorrect` | `Spec => []ViewIsCurrent` |
| | `ConfiguredCorrect` | `Spec => []DecidesConfigured` |

(`FairSpec` implies `Spec`, so all of these hold of what the run checks.)

The assumptions are the named `ASSUME`s of the modules: apps are records with a uid and
a package, `NoProc` is not an app, the bounds are naturals, at least one of the two
anchor probes is attached, rules are `DurationRule` records, the timezone is any integer
that does not put the start before the epoch, the marks `NoId`, `NoFile`, `Torn` and
`Newer` are none of the values they stand beside, the list the model starts with gives no
app id twice.

The arguments:

- `ImplementsGateEvents`: each probe step is a `Start`, a `Report` or a stutter of
  `GateEvents`. The step that matters is `BinderExit`: it looks the uid up again, so a
  stale mark emits only if the process that carries the tgid now is blocked now.
- `MarksCorrect`: `EventsNeedMarks` with the finiteness of `spawned`, which makes its
  cardinality move by one.
- `ListsCorrect`: `ListsAgree` is inductive because it says what holds inside
  `set_blocked` too, by `tickPc`.
- `NamesCorrect`: `NamesInv` adds, for the middle of a tick, that whatever is blocked
  and will stay so, or is about to be blocked, has a name in the new index.
- `NamedCorrect`: `PinsCorrect` first: the entry the killer works on has a generation
  the pid number has reached, so a process that carries the number with
  that generation was there all along. Then a live pinned process had its cmdline read
  by `IdentityMatches`, or else no read ever gave anything, and the process is dead.
- `FreeCorrect`: `FreeInv` says that a free process's uid is on no list; `StillListed`
  and the generations then exclude it.
- `Ledger`'s `TypeCorrect`: `TypeInv` adds that no tick lies in the future, so that elapsed
  time is a natural, that the clock stays after its start, so that the day is one, and
  the types of what the file holds.
- `ExtensionsCorrect`: `GrantInv` adds that the file's grants are within the cap and that
  a daemon that is down holds no extension. A restart brings grants back without their
  extensions, a reset drops both.
- `DayCorrect`: the tick that notices a new day empties the counters in the same
  step (`ResetForgets`); a file that is restored with its own day was counted on it.
- `LingerCorrect`: only accounts in use start a cooldown, a toggle drops those of both
  modes, and without a crash nothing comes back from the file.
- `LossCorrect`: `LossInv` bounds what memory has of today and the file has not by the
  seconds since the last save, and by the save period once a tick is over (`SaveInv`: a
  tick that finds the period over saves). No file bears a day that has not begun
  (`FileDated`), so a restart either knows the day's file, or there is none and everything of
  the day was unsaved, or it took the file for another day's (section 5, `tz_restart`).
- `UTCKeepsToday`: the last of these needs a timezone. It is the only theorem that assumes
  one, and says that `tz_restart` shows nothing but the timezone's doing.
- `SumTheorems`: the library defines a sum as a recursive function over the subsets and
  says nothing about it. That such a function exists is shown size by size
  (`SumGrows`, `SumsExist`); the facts about it by a least counterexample among the subsets
  (`LeastSubset`), because the library's induction theorems cannot be used here.
- `CooldownsCorrect`: a cooldown in force has to stay earned while usage changes under it.
  `TickAdds` says that a tick which ends no cooldown of an account takes nothing from its
  payers. `EarnInv` follows the cooldowns of both modes through the file: before the
  first restart the file's are earned in both modes, whichever is in force, and after
  it in the one in force as long as `shared_pool` was toggled at most once. With a second
  crash and a second toggle this ends, which is the exception `CooldownsAreEarned` names.
- `LimitCorrect`: `LimitIsKept` is not inductive, for usage at the allowance may still
  grow. `Kept` adds to the usage a `Reserve` of what each payer may yet be credited without a
  decision in between: what is due from the last tick; or what is left of a running
  extension and the tick that notices its end. `AfterTick` is the step that matters: a
  tick that finds the limit used up and no extension blocks all payers, and who is
  blocked does not run, so nothing is due; without a first tick nothing is credited
  either, so a restart owes nothing. `FileBounded` says the same of what the file would
  bring back.
- `Wake`'s `TypeCorrect`: the sleep is the least of a set of positive naturals with
  `IDLE_TICK_SECS` among them; that there is a least one is the well-foundedness of the
  naturals (`LeastExists`), which also gives a window its first flip.
- `OnTimeCorrect`, `NewDayCorrect`: `SleepInv` says of every moment of the sleep that is left,
  not only of now, that it lies on the day of the last tick and would get the same decision;
  so passing time only takes moments away. That the sleep which begins is such a one is
  `SleepIsQuiet`: it ends before midnight, so minutes only count up (`SameDay`); before
  the first flip of each window (`WindowKeepsStill`); and before every expiry.
- `RecentCorrect`: `AgeInv` says how old a reading may be in each phase of the loop. While
  time is left to sleep, `age + sleep` does not grow (`StillDue`); after that only the client
  that is being served and the tick add to it.
- `LockScreenCorrect`: the same bound with the active cadence, and `LockInv`: a screen that was
  off for longer than the reading is old was off when it was read.
- `WindowsCorrect`: a minute of the week is one minute of one weekday (`MinuteOfWeek`), the
  wrap from Sunday to Monday included; the tail of a window past midnight is the minutes
  from `DayMinutes` on.

- `UserData`'s `TypeCorrect`: `TypeInv` adds that whatever is still to be migrated has a
  uid in both maps (`TodoInv`).
- `ListWatched`: `ListInv` says that while the mtime is the remembered one, the map just
  read (inside `sync_packages`) or in force (outside) is that of the list. Each
  step is then a `Write`, `Read`, `ReadOld` or a stutter of `WatchedFile`.
- `RulesWatched`: `RulesInv` says the same of the rules between reading and remembering:
  not overtaken, the rules in force are the file.
- `NobodyCorrect`: `HeldInv` ties entries to the live uids of the map, or of the new map
  once the migration is over; only a restart or a reload breaks it, and then the list is
  unseen.
- `StateCorrect`, the longest: `StateInv` describes whose entries are where at each
  step of the migration. `keyed` is the map the entries were made by: an entry is under its
  app's uid of that map, or already moved (`Migrating`). No map gives two apps one
  uid (`MapsInv`), and unless the books were crossed no uid to be emptied is one to be
  filled, so the order of the hash map does not matter. `DiskOwned` says the
  same of the state file.
- `KeptCorrect`: `KeptInv` adds that the backup, while it is not behind, holds at least
  what is kept, and what may be in force at each step of a load.
- `ViewCorrect`: `ShownInv` says what a session that nobody interfered with knows of the file
  itself, and of the rules once the file has been loaded; `WaitingInv` that the
  daemon works for a session only while that session waits.
- `ConfiguredCorrect`: a daemon that has loaded but not reloaded has never remembered an
  mtime, so the first tick that sees the file reloads before it decides.

**Only model-checked**: liveness (`BlockedDies`, `PendingResolves`, `ShutdownEnds`,
`Converges`). Every invariant, action property and refinement of the passing runs is a
theorem, with one condition: `BlockedHasNames` needs a map that refuses no uid, as in
its run.

## 5. Where the code and its own words differ

Each is a run whose property restates a sentence of the repository and which TLC
violates; `PROJECT.json` quotes the lines.

1. `kill_recheck`: the killer reads the block list, then waits up to 200 ms for a name
   and does not read it again; a uid unblocked meanwhile is killed. `gate.rs` 83-85 says
   it must still be blocked when the kill is sent.
2. `shutdown_kill`: with the sender gone the killer signals everything pending without
   any check. The README says every kill confirms identity.
3. `sweep_recycled`: `kill_pid_if_uid` checks the owner before it opens the pidfd; a pid
   reused in between is killed. The comments at `proc.rs` 57 and `clear.rs` 7 exclude
   that. (Opening the pidfd first would close the gap.)
4. `missed_edge`: a tick decides with one reading of the clock and the sleep is
   computed from a later one; an edge between the two is applied only at the next
   wake-up, up to five minutes on. `WakesOnTime`, in the passing run, shows
   that this and a suspend are the only ways to be late.
5. `tz_restart`: `load_state` runs before the timezone is known, so east of UTC a
   restart in the early hours (west of it, in the evening) drops the state file, and with
   it the day's limits.
6. `midnight_save`: `save_state` reads the clock again for the day it writes; a save
   that runs over midnight labels yesterday's counters as today's. `CountersAreTodays`
   shows it is the only way old counters come to be used.

One thing more, too small for a run of its own. The comment at `engine.rs` 362 says that
a toggle of `shared_pool` clears the old mode's cooldowns "so it cannot linger and
wrongly block/unblock members". A crash after the toggle and before the next save brings
the entry back from `state.json`. Nothing reads it in the new mode; but it is saved
again, so a toggle back followed by a second such crash puts it in force, with usage that
may have been reset since: its end then wipes usage that should have counted. With
`MaxCrashes = 2`, `MaxToggles = 2`, `RuleChoices <- PoolRule`, `DaySecs = 12`, `Start =
14` and `Horizon = 20` in `Ledger.cfg`, `CooldownsAreEarned` without its first line is violated.
`NoCooldownLingers` and `CooldownsAreEarned` say what does hold.

`UserData` shows five more places where the code does less than its words; each is an
exception that its property names:

- `reload` takes the mtime after it has parsed (`engine.rs` 357), unlike
  `sync_packages` (675): a write in between is not picked up until the next one
  (`overtaken`).
- The README (line 95) says a file that claims a newer version is refused. Only
  `apply_rules_file` looks at the version; a file written by hand is loaded and copied to
  `rules.json.ok` like any other (`Acceptable` against `Usable`).
- The comment at `engine.rs` 243 says that the file copied is the one "that just parsed
  successfully". It is read again, and not atomically: a write between, or a crash in
  the copy, spoils it (`behind`), and `config.rs` 35 promises more.
- The comment at `engine.rs` 705 says the state of uninstalled apps is dropped since
  "their uid may be recycled by another app". When the list shows both in one
  rewrite, or after a restart, the new app gets the old one's usage (`crossed`).
- The extension of a reinstalled app moves to its new uid, but what was granted of the
  day's budget does not (`engine.rs` 698 and 710), so more than 120 minutes
  may be asked for that day (`Moved`).

## 6. What is not modelled, and why

- Overlapping rules on one uid (an app in two groups, two packages sharing a uid)
  in `Ledger`: `Enforcement` lets the last rule win, as the code does, but the two
  cooldown jobs that then touch one uid's usage are not composed.
- In `UserData`: amounts of time (`Ledger` has them); what a rule says (`Rules` has it);
  packages that share an app id, lines of `packages.list` with full uids and devices on
  which users come and go (`Users` is a constant); a second daemon, which the lock keeps out;
  a change of `shared_pool`, which `Ledger` has.
- A save over the work of another session is allowed by the code (`overwrote`) and not
  called wrong: nothing in the repository promises more.
- The wire format, logging, status and health (read-only), parsing of `HH:MM`.
- Sub-second times; the time `poll` takes to return.
- Probe attachment and libbpf: `Attached` is a constant of `KernelGate`.
- The reading of cpuset and DRM files, the installer, the watchdog's back-off and the
  WebUI's pages: input and output without state. Their results are free inputs of the
  models.

## 7. Plan

1. *Done*: `Processes`, `GateEvents`, `KernelGate`, `Killer`, `Clear`, `Enforcement`;
   `Rules`, `Wake`; `Ledger`; `WatchedFile`, `RulesStore`, `WebUI`, `Packages`,
   `UserData`; the proofs of section 4, among them every safety property of the
   passing runs.
2. Left to model: rules that overlap on one uid, with the two cooldown jobs that then
   touch one uid's usage.
