------------------------------- MODULE UserData -------------------------------
(***************************************************************************)
(* The daemon between the files it reads and those who write them: the     *)
(* user's editor and WebUI sessions write the rules, the device writes the *)
(* package list, and the daemon, one step at a time, loads the one,        *)
(* resolves the other, moves what it keeps by uid, saves it, dies and is   *)
(* started again (daemon/src/engine.rs new, reload, sync_packages, tick;   *)
(* daemon/src/main.rs run_daemon; module/service.sh).                      *)
(*                                                                         *)
(* What the tick decides after that is modelled by Rules, Wake, Ledger and *)
(* Enforcement.                                                            *)
(***************************************************************************)
EXTENDS WebUI, Packages, Naturals

CONSTANTS HandWritten,  \* what the user's editor may leave in rules.json (bound)
          Scenarios     \* how the model may start, and what may then happen how often (bound)

Kinds == {"edits", "opens", "saves", "rewrites", "crashes", "failures", "grants"}

ASSUME UserDataAssumption ==
    /\ Governed \subseteq Pkgs
    /\ HandWritten \subseteq RuleSets
    /\ Scenarios \subseteq [live : RuleSets, list : {l \in Lists : Distinct(l)},
                           left : [Kinds -> Nat]]
    /\ Sessions \cap {"start", "tick", "reload"} = {}

VARIABLES disk,  \* state.json: usage and granted; and of history, due, keyed and crossed
          left   \* what may still happen, of each kind

vars == <<storeVars, uiVars, packageVars, disk, left>>

------------------------------------------------------------------------------

Phases == {"down", "load", "parse", "copy", "resolve", "stamp", "idle", "check", "sync",
           "read", "migrate", "decide"}
Jobs == {"start", "tick", "reload"} \cup Sessions

NothingSaved == [usage |-> [uid \in Uids |-> {}], granted |-> [uid \in Uids |-> {}],
                 due |-> {}, keyed |-> NoMap, crossed |-> FALSE]

TypeOK ==
    /\ pc \in Phases
    /\ job \in Jobs
    /\ StoreTypeOK
    /\ UiTypeOK
    /\ PackagesTypeOK
    /\ disk \in [usage : [Uids -> SUBSET Apps], granted : [Uids -> SUBSET Apps],
                 due : SUBSET Apps, keyed : Maps, crossed : BOOLEAN]
    /\ left \in [Kinds -> Nat]

Init ==
    /\ \E scenario \in Scenarios :
          /\ StoreInit(scenario.live)
          /\ PackagesInit(scenario.list)
          /\ left = scenario.left
    /\ UiInit
    /\ disk = NothingSaved

Uses(kind) ==
    /\ left[kind] > 0
    /\ left' = [left EXCEPT ![kind] = @ - 1]

------------------------------------------------------------------------------
\* The outside: the user's editor, the package manager, the sessions.

HandWrites ==
    /\ \/ Uses("edits") /\ \E content \in HandWritten : EditBegins(content)
       \/ Uses("edits") /\ FileIsRemoved
       \/ UNCHANGED left /\ EditEnds
    /\ ui' = Interferes(ui, Sessions)
    /\ UNCHANGED <<cand, overwrote, packageVars, disk>>

HandGivesUp == EditBreaksOff /\ UNCHANGED <<uiVars, packageVars, disk, left>>

PackagesChange ==
    /\ Uses("rewrites")
    /\ \E l \in Lists : ListIsRewritten(l)
    /\ UNCHANGED <<storeVars, uiVars, disk>>

SessionReads ==
    /\ \/ Uses("opens") /\ \E s \in Sessions : Reads(s, "closed")
       \/ UNCHANGED left /\ \E s \in Sessions : Reads(s, "reread")
    /\ UNCHANGED <<storeVars, packageVars, disk>>

SessionSaves ==
    /\ Uses("saves")
    /\ \E s \in Sessions, p \in Governed : SaveBegins(s, p)
    /\ UNCHANGED <<storeVars, packageVars, disk>>

SessionWrites ==
    /\ \E s \in Sessions : SaveWritten(s)
    /\ UNCHANGED <<storeVars, packageVars, disk, left>>

SessionAsks ==
    /\ \E s \in Sessions : AsksApply(s) \/ SaveFails(s)
    /\ UNCHANGED <<packageVars, disk, left>>

------------------------------------------------------------------------------
\* The daemon.

\* Engine::new: the rules are loaded, and the state file is restored if it is of today.
DaemonStarts ==
    /\ StoreStarts
    /\ \E saved \in {disk, NothingSaved} :
          /\ held' = [usage |-> saved.usage, extension |-> [uid \in Uids |-> {}],
                      granted |-> saved.granted]
          /\ due' = [usage |-> saved.due, extension |-> {}]
          /\ keyed' = saved.keyed
          /\ crossed' = saved.crossed
    /\ UNCHANGED <<uiVars, list, unseenList, uidOf, newUids, todo, disk, left>>

LoadsRules ==
    /\ LoadRules \/ ReloadReads
    /\ UNCHANGED <<uiVars, packageVars, disk, left>>

CopiesRules ==
    /\ \/ RefreshBackup /\ UNCHANGED left
       \/ RefreshFails /\ Uses("failures")
    /\ UNCHANGED <<uiVars, packageVars, disk>>

ReloadResolves ==
    /\ ReloadConfigures("stamp")
    /\ MapIsReplaced
    /\ UNCHANGED <<uiVars, disk, left>>

\* packages.list cannot be read: the reload ends here, and so does a tick it was part of.
ReloadFails ==
    /\ Uses("failures")
    /\ ReloadConfigures("idle")
    /\ Answered(FALSE)
    /\ UNCHANGED <<packageVars, disk>>

Changed == job \notin Sessions \/ source = "file"

\* A request that changed something is followed by a tick.
ReloadEnds ==
    /\ ReloadStamps(IF job = "tick" THEN "sync" ELSE IF Changed THEN "check" ELSE "idle")
    /\ Answered(Changed)
    /\ UNCHANGED <<packageVars, disk, left>>

Checks ==
    /\ TickChecks
    /\ UNCHANGED <<uiVars, packageVars, disk, left>>

ReloadIsAsked ==
    /\ ReloadRequested
    /\ UNCHANGED <<uiVars, packageVars, disk, left>>

SyncStep(from, to) ==
    /\ pc = from
    /\ pc' = to
    /\ UNCHANGED <<job, files, unseen, rules, source, configured, overtaken, behind,
                   kept, found, uiVars, disk>>

\* sync_packages looks at the mtime of packages.list, and remembers it, before it reads;
\* if it cannot, the tick goes on without.
SyncLooks ==
    \/ /\ Uses("failures")
       /\ SyncStep("sync", "decide")
       /\ UNCHANGED packageVars
    \/ /\ ~unseenList
       /\ SyncStep("sync", "decide")
       /\ UNCHANGED <<packageVars, left>>
    \/ /\ unseenList
       /\ SyncStep("sync", "read")
       /\ unseenList' = FALSE
       /\ UNCHANGED <<list, uidOf, newUids, todo, held, due, keyed, crossed, left>>

SyncResolves ==
    /\ SyncStep("read", "migrate")
    /\ SyncReads
    /\ UNCHANGED <<unseenList, left>>

\* Mutant: the mtime is remembered although the list could not be read.
SyncFailsForGood ==
    /\ Uses("failures")
    /\ SyncStep("read", "idle")
    /\ UNCHANGED packageVars

\* The list cannot be read: the tick ends in an error, the mtime stays the old one.
SyncFails ==
    /\ Uses("failures")
    /\ SyncStep("read", "idle")
    /\ unseenList' = TRUE
    /\ UNCHANGED <<list, uidOf, newUids, todo, held, due, keyed, crossed>>

Migrate ==
    /\ SyncStep("migrate", "migrate")
    /\ \E app \in Apps : Migrates(app)
    /\ UNCHANGED left

SyncDone ==
    /\ SyncStep("migrate", "decide")
    /\ SyncEnds
    /\ UNCHANGED left

\* What counts as running, on the device, for uids that some rule asks about.
Targets == {uidOf[app] : app \in {a \in Apps : a[2] \in rules}} \ {NoUid}
Installed == {app \in Apps : ResolveUids[app] # NoUid}
Counted(running) == {app \in running : uidOf[app] \in Targets /\ ResolveUids[app] = uidOf[app]}
Mistaken(running) == {app \in running : uidOf[app] # ResolveUids[app] /\ ResolveUids[app] \in Targets}

\* The rest of the tick, as far as what is kept by uid goes: the reset of a new day, the
\* credit for what runs, and now and then a save.
Decides(running, newDay, saves) ==
    /\ pc = "decide"
    /\ pc' = "idle"
    /\ LET books == IF newDay THEN NothingHeld ELSE held
           owed == IF newDay THEN NobodyDue ELSE due
       IN  /\ held' = [books EXCEPT !["usage"] = Credited(@, running, Targets)]
           /\ due' = [owed EXCEPT !["usage"] = @ \cup Counted(running)]
    /\ crossed' = ((crossed /\ ~newDay) \/ Mistaken(running) # {})
    /\ disk' = IF saves THEN [usage |-> held'["usage"], granted |-> held'["granted"],
                              due |-> due'["usage"], keyed |-> keyed, crossed |-> crossed']
               ELSE IF newDay THEN NothingSaved ELSE disk
    /\ UNCHANGED <<job, files, unseen, rules, source, configured, overtaken, behind, kept,
                   found, uiVars, list, unseenList, uidOf, newUids, todo, keyed, left>>

\* add_extension for an app, and the tick that follows.
ExtensionIsAsked(app) ==
    /\ Uses("grants")
    /\ pc = "idle"
    /\ uidOf[app] # NoUid
    /\ pc' = "check"
    /\ held' = [held EXCEPT !["extension"] = Extended("extension", app),
                            !["granted"] = Extended("granted", app)]
    /\ due' = [due EXCEPT !["extension"] = @ \cup {app}]
    /\ UNCHANGED <<job, files, unseen, rules, source, configured, overtaken, behind, kept,
                   found, uiVars, list, unseenList, uidOf, newUids, todo, keyed, crossed,
                   disk>>

\* The daemon dies at any point; what it had in memory is gone.
Crashes ==
    /\ Uses("crashes")
    /\ StoreCrashes
    /\ Answered(FALSE)
    /\ unseenList' = TRUE
    /\ uidOf' = NoMap /\ newUids' = NoMap /\ todo' = {} /\ keyed' = NoMap
    /\ held' = NothingHeld /\ due' = NobodyDue /\ crossed' = FALSE
    /\ UNCHANGED <<list, disk>>

------------------------------------------------------------------------------

Decision == \E running \in SUBSET Installed, newDay, saves \in BOOLEAN :
                Decides(running, newDay, saves)

\* What the daemon does by itself: it is started again (service.sh), ends what it is
\* doing, and ticks.
Daemon ==
    \/ DaemonStarts \/ LoadsRules \/ CopiesRules \/ ReloadResolves \/ ReloadFails
    \/ ReloadEnds \/ Checks \/ SyncLooks \/ SyncResolves \/ SyncFails \/ Migrate
    \/ SyncDone \/ Decision

Outside ==
    \/ HandWrites \/ HandGivesUp \/ PackagesChange \/ SessionReads \/ SessionSaves
    \/ SessionWrites \/ SessionAsks \/ ReloadIsAsked \/ Crashes
    \/ \E app \in Apps : ExtensionIsAsked(app)

Next == Daemon \/ Outside

Spec == Init /\ [][Next]_vars

\* The watchdog restarts the daemon, and the daemon's loop goes on.
FairSpec == Spec /\ WF_vars(Daemon)

------------------------------------------------------------------------------
\* The two watched files.

ListWatch == INSTANCE WatchedFile WITH
    Contents <- Maps, Copies <- Maps, Readable <- LAMBDA content : TRUE,
    file <- ResolveUids, copy <- uidOf,
    fresh <- ~unseenList /\ pc \notin {"read", "migrate"}

RulesWatch == INSTANCE WatchedFile WITH
    Contents <- Files, Copies <- RuleSets, Readable <- Usable,
    file <- live, copy <- rules, fresh <- ~unseen /\ ~overtaken

\* Whatever is installed, reloaded, interrupted or fails: once the daemon believes its
\* package map to be that of packages.list, it is (sync_packages takes the mtime before
\* it reads).
ListIsWatched == ListWatch!Spec

\* The same for the rules and rules.json, but for one case: a write between the read and
\* the look at the mtime (reload takes the mtime last) is believed to be known.
RulesAreWatched == RulesWatch!Spec

\* What is kept by uid follows its app through reinstalls, restarts and failures, and no
\* app pays for another, unless the day's books were crossed: a reload or a restart
\* changed the map before sync_packages could compare, one rewrite of the list gave an
\* app's uid to another, or an app ran under another's uid before the map was made anew.
Synced == pc = "idle" /\ ~unseenList

StateFollowsItsApp ==
    Synced /\ ~crossed =>
        \A app \in Installed :
            /\ \A l \in Ledgers : held[l][uidOf[app]] \subseteq {app}
            /\ \A l \in Moved : app \in due[l] => app \in held[l][uidOf[app]]

\* Nothing is kept for a uid that no app has: the next app to get it starts afresh, if
\* the daemon has seen the list in between (engine.rs 699).
NothingHeldForNobody ==
    Synced => \A l \in Ledgers, uid \in Uids : held[l][uid] # {} => uid \in Live(uidOf)

\* A rule that was in force stays in force until somebody takes it out, whatever becomes
\* of rules.json: unless a save came from a session that did not know it, or the daemon
\* had to fall back on a copy that was spoiled while it was made (config.rs 35).
RulesAreKept ==
    pc = "idle" /\ ~overwrote /\ (source = "file" \/ ~behind) => kept \subseteq rules

\* A session that nobody interfered with shows the rules in force, after saves that
\* succeed, are refused, or fail half way (app.js 190).
ViewIsCurrent ==
    \A s \in Sessions :
        ui[s].pc = "open" /\ ui[s].current /\ pc = "idle" /\ ~unseen /\ ~overtaken
            => ui[s].model = rules

\* No tick decides before timezone and protected packages are known, if it or an earlier
\* one of this daemon found rules.json there.
DecidesConfigured == pc = "decide" /\ found => configured

\* When nothing happens any more, the daemon runs, its map is that of the list, and its
\* rules are those of the file, if they can be read and no write overtook the reading.
Converges ==
    <>[](/\ pc # "down"
         /\ pc = "idle" => uidOf = ResolveUids
         /\ pc = "idle" /\ Usable(live) /\ ~overtaken => rules = live)
==============================================================================
