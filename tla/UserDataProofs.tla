----------------------------- MODULE UserDataProofs -----------------------------
(***************************************************************************)
(* Theorems about UserData, for any packages, users, app ids and sessions, *)
(* any scenarios and any contents written by hand: type correctness, that  *)
(* both watched files implement WatchedFile, and the safety invariants.    *)
(***************************************************************************)
EXTENDS UserData, TLAPS

------------------------------------------------------------------------------
\* Type correctness.

LEMMA ResolveType ==
    ASSUME list \in Lists
    PROVE  ResolveUids \in Maps
BY DEF ResolveUids, UidIn, Lists, Maps, Apps, Uids, NoUid

LEMMA NoMapType == NoMap \in Maps
BY DEF NoMap, Maps

LEMMA NothingType ==
    /\ NothingHeld \in Books
    /\ NobodyDue \in [Moved -> SUBSET Apps]
    /\ [uid \in Uids |-> {}] \in [Uids -> SUBSET Apps]
BY DEF NothingHeld, NobodyDue, Books

LEMMA InitType == Init => TypeOK
<1>. SUFFICES ASSUME Init PROVE TypeOK
  OBVIOUS
<1>1. PICK scenario \in Scenarios :
          StoreInit(scenario.live) /\ PackagesInit(scenario.list) /\ left = scenario.left
  BY DEF Init
<1>2. /\ scenario.live \in RuleSets /\ scenario.list \in Lists
      /\ scenario.left \in [Kinds -> Nat]
  BY <1>1, UserDataAssumption DEF UserDataAssumption
<1>3. StoreTypeOK
  BY <1>1, <1>2, RulesStoreAssumption
     DEF RulesStoreAssumption, StoreInit, StoreTypeOK, RuleSets, Files, Usable, Sources
<1>4. UiTypeOK
  BY DEF Init, UiInit, UiTypeOK, Steps, NoRule, RuleSets, Files
<1>5. PackagesTypeOK
  BY <1>1, <1>2, NoMapType, NothingType DEF PackagesInit, PackagesTypeOK
<1>6. disk \in [usage : [Uids -> SUBSET Apps], granted : [Uids -> SUBSET Apps],
                due : SUBSET Apps, keyed : Maps, crossed : BOOLEAN]
  BY NoMapType, NothingType DEF Init, NothingSaved
<1>7. pc \in Phases /\ job \in Jobs
  BY <1>1 DEF StoreInit, Phases, Jobs
<1>. QED BY <1>1, <1>2, <1>3, <1>4, <1>5, <1>6, <1>7 DEF TypeOK

\* The daemon's loading steps, and the steps on the files, keep the store's types.
LEMMA StoreTypes ==
    ASSUME StoreTypeOK,
           \/ \E content \in RuleSets : EditBegins(content)
           \/ EditEnds \/ EditBreaksOff \/ FileIsRemoved
           \/ LoadRules \/ ReloadReads \/ RefreshBackup \/ RefreshFails
           \/ \E next : ReloadConfigures(next) \/ ReloadStamps(next)
           \/ StoreStarts \/ TickChecks \/ ReloadRequested \/ StoreCrashes
           \/ \E candidate \in Files : \E s, removed : Applies(s, candidate, removed)
    PROVE  StoreTypeOK'
<1>. USE RulesStoreAssumption DEF RulesStoreAssumption, StoreTypeOK, Files, RuleSets, Usable,
         Sources, files
<1>1. CASE \/ \E content \in RuleSets : EditBegins(content)
           \/ EditEnds \/ EditBreaksOff \/ FileIsRemoved
  BY <1>1 DEF EditBegins, EditEnds, EditBreaksOff, FileIsRemoved, Written
<1>2. CASE LoadRules
  <2>1. UNCHANGED <<files, unseen, configured, behind, found>> /\ overtaken' \in BOOLEAN
    BY <1>2 DEF LoadRules
  <2>2. CASE Usable(live) /\ Load(live, "file") /\ kept' = kept \cup live
    BY <2>1, <2>2 DEF Load
  <2>3. CASE kept' = kept /\ (IF Usable(backup) THEN Load(backup, "backup") ELSE Load({}, "default"))
    <3>1. {} \in Files /\ Usable({})
      OBVIOUS
    <3>2. rules' \in Files /\ Usable(rules') /\ source' \in Sources
      BY <2>3, <3>1 DEF Load
    <3>. QED BY <2>1, <2>3, <3>2
  <2>. QED BY <1>2, <2>2, <2>3 DEF LoadRules
<1>3. CASE ReloadReads
  BY <1>3 DEF ReloadReads, Load
<1>4. CASE RefreshBackup \/ RefreshFails
  BY <1>4 DEF RefreshBackup, RefreshFails, BackupBecomes
<1>5. CASE \E next : ReloadConfigures(next) \/ ReloadStamps(next)
  BY <1>5 DEF ReloadConfigures, ReloadStamps
<1>6. CASE StoreStarts \/ TickChecks \/ ReloadRequested
  BY <1>6 DEF StoreStarts, TickChecks, ReloadRequested
<1>7. CASE StoreCrashes
  BY <1>7 DEF StoreCrashes
<1>8. CASE \E candidate \in Files : \E s, removed : Applies(s, candidate, removed)
  BY <1>8 DEF Applies, Acceptable
<1>. QED BY <1>1, <1>2, <1>3, <1>4, <1>5, <1>6, <1>7, <1>8

\* The sessions' steps keep theirs.
LEMMA UiTypes ==
    ASSUME UiTypeOK, live \in Files,
           \/ \E s \in Sessions : \E from : Reads(s, from)
           \/ \E s \in Sessions, p \in Governed : SaveBegins(s, p)
           \/ \E s \in Sessions : SaveWritten(s) \/ AsksApply(s) \/ SaveFails(s)
           \/ \E ok : Answered(ok)
           \/ ui' = Interferes(ui, Sessions) /\ UNCHANGED <<cand, overwrote>>
    PROVE  UiTypeOK'
<1>. USE RulesStoreAssumption DEF RulesStoreAssumption, UiTypeOK, Files, RuleSets, Usable
<1>1. CASE \E s \in Sessions : \E from : Reads(s, from)
  BY <1>1 DEF Reads, Shown, Steps, NoRule
<1>2. \A others : Interferes(ui, others) \in
          [Sessions -> [pc : Steps, model : RuleSets, rule : Governed \cup {NoRule},
                        current : BOOLEAN]]
  BY DEF Interferes
<1>3. CASE \E s \in Sessions, p \in Governed : SaveBegins(s, p)
  <2>1. PICK s \in Sessions, p \in Governed : SaveBegins(s, p)
    BY <1>3
  <2>. DEFINE views == Interferes(ui, Saving)
  <2>2. views \in [Sessions -> [pc : Steps, model : RuleSets, rule : Governed \cup {NoRule},
                                current : BOOLEAN]]
    BY <1>2
  <2>3. ui' = [views EXCEPT ![s] =
                [pc |-> "writing", rule |-> p, current |-> views[s].current,
                 model |-> IF p \in views[s].model THEN views[s].model \ {p}
                           ELSE views[s].model \cup {p}]]
    BY <2>1 DEF SaveBegins
  <2>4. cand' = Torn /\ overwrote' = overwrote
    BY <2>1 DEF SaveBegins
  <2>. HIDE DEF views
  <2>5. "writing" \in Steps
    BY DEF Steps
  <2>6. ui'[s] \in [pc : Steps, model : RuleSets, rule : Governed \cup {NoRule},
                    current : BOOLEAN]
    BY <2>2, <2>3, <2>5
  <2>. QED BY <2>2, <2>3, <2>4, <2>6
<1>4. CASE \E s \in Sessions : SaveWritten(s)
  <2>1. PICK s \in Sessions : SaveWritten(s)
    BY <1>4
  <2>2. ui' = [Interferes(ui, Saving \ {s}) EXCEPT ![s].pc = "written"]
    BY <2>1 DEF SaveWritten
  <2>3. cand' \in Files /\ overwrote' = overwrote
    BY <2>1 DEF SaveWritten
  <2>. DEFINE views == Interferes(ui, Saving \ {s})
  <2>4. views \in [Sessions -> [pc : Steps, model : RuleSets, rule : Governed \cup {NoRule},
                                current : BOOLEAN]]
    BY <1>2
  <2>5. ui' = [views EXCEPT ![s].pc = "written"]
    BY <2>2
  <2>. HIDE DEF views
  <2>6. ui' \in [Sessions -> [pc : Steps, model : RuleSets, rule : Governed \cup {NoRule},
                              current : BOOLEAN]]
    BY <2>4, <2>5 DEF Steps
  <2>. QED BY <2>3, <2>6
<1>5. CASE \E s \in Sessions : AsksApply(s)
  <2>1. PICK s \in Sessions : AsksApply(s)
    BY <1>5
  <2>2. ui' = [Interferes(ui, Sessions \ {s}) EXCEPT ![s].pc = "waiting"]
    BY <2>1 DEF AsksApply
  <2>3. cand' = cand /\ overwrote' \in BOOLEAN
    BY <2>1 DEF AsksApply
  <2>. DEFINE views == Interferes(ui, Sessions \ {s})
  <2>4. views \in [Sessions -> [pc : Steps, model : RuleSets, rule : Governed \cup {NoRule},
                                current : BOOLEAN]]
    BY <1>2
  <2>5. ui' = [views EXCEPT ![s].pc = "waiting"]
    BY <2>2
  <2>. HIDE DEF views
  <2>6. ui' \in [Sessions -> [pc : Steps, model : RuleSets, rule : Governed \cup {NoRule},
                              current : BOOLEAN]]
    BY <2>4, <2>5 DEF Steps
  <2>. QED BY <2>3, <2>6
<1>6. CASE \E s \in Sessions : SaveFails(s)
  BY <1>6 DEF SaveFails, Steps
<1>7. CASE \E ok : Answered(ok)
  BY <1>7 DEF Answered, Steps
<1>8. CASE ui' = Interferes(ui, Sessions) /\ UNCHANGED <<cand, overwrote>>
  BY <1>2, <1>8
<1>. QED BY <1>1, <1>3, <1>4, <1>5, <1>6, <1>7, <1>8

Entries == [Uids -> SUBSET Apps]

LEMMA MoveType ==
    ASSUME NEW entries \in Entries, NEW from \in Uids, NEW to
    PROVE  Move(entries, from, to) \in Entries
<1>1. entries[from] \in SUBSET Apps
  BY DEF Entries
<1>2. [entries EXCEPT ![to] = entries[from]] \in Entries
  BY <1>1 DEF Entries
<1>3. \A f \in Entries : [f EXCEPT ![from] = {}] \in Entries
  BY DEF Entries
<1>. QED BY <1>2, <1>3 DEF Move

LEMMA RetainedType ==
    ASSUME NEW entries \in Entries
    PROVE  Retained(entries) \in Entries
BY DEF Retained, Entries

LEMMA CreditedType ==
    ASSUME NEW entries \in Entries, NEW running \in SUBSET Apps, NEW targets
    PROVE  Credited(entries, running, targets) \in Entries
BY DEF Credited, Entries

LEMMA BookTypes ==
    ASSUME NEW book \in Books, NEW l \in Ledgers
    PROVE  book[l] \in Entries
BY DEF Books, Entries

DiskType == [usage : Entries, granted : Entries, due : SUBSET Apps, keyed : Maps,
             crossed : BOOLEAN]

\* The rest of TypeOK.
RestTypeOK ==
    /\ pc \in Phases
    /\ job \in Jobs
    /\ disk \in DiskType
    /\ left \in [Kinds -> Nat]

LEMMA TypeOKParts ==
    /\ TypeOK <=> (StoreTypeOK /\ UiTypeOK /\ PackagesTypeOK /\ RestTypeOK)
    /\ TypeOK' <=> (StoreTypeOK' /\ UiTypeOK' /\ PackagesTypeOK' /\ RestTypeOK')
BY DEF TypeOK, RestTypeOK, DiskType, Entries

LEMMA UsesType ==
    ASSUME left \in [Kinds -> Nat], NEW kind \in Kinds, Uses(kind)
    PROVE  left' \in [Kinds -> Nat]
BY DEF Uses

LEMMA KindsAre ==
    \A kind \in {"edits", "opens", "saves", "rewrites", "crashes", "failures", "grants"} :
        kind \in Kinds
BY DEF Kinds

\* The steps of the package map keep its types.
LEMMA PackageTypes ==
    ASSUME PackagesTypeOK,
           \/ \E l \in Lists : ListIsRewritten(l)
           \/ MapIsReplaced \/ SyncEnds \/ (SyncReads /\ UNCHANGED unseenList)
           \/ \E app \in Apps : Migrates(app) /\ uidOf[app] # NoUid
           \/ UNCHANGED packageVars
    PROVE  PackagesTypeOK'
<1>1. ResolveUids \in Maps /\ NoMap \in Maps
  BY ResolveType, NoMapType DEF PackagesTypeOK
<1>2. CASE \E l \in Lists : ListIsRewritten(l)
  BY <1>2 DEF ListIsRewritten, PackagesTypeOK
<1>3. CASE MapIsReplaced
  BY <1>1, <1>3 DEF MapIsReplaced, PackagesTypeOK
<1>4. CASE SyncReads /\ UNCHANGED unseenList
  <2>1. newUids' \in Maps /\ todo' \in SUBSET Apps
    BY <1>1, <1>4 DEF SyncReads
  <2>2. crossed' \in BOOLEAN
    BY <1>4, Zenon DEF SyncReads
  <2>3. UNCHANGED <<list, unseenList, uidOf, held, due, keyed>>
    BY <1>4 DEF SyncReads
  <2>. QED BY <2>1, <2>2, <2>3 DEF PackagesTypeOK
<1>5. CASE SyncEnds
  <2>1. [l \in Ledgers |-> Retained(held[l])] \in Books
    <3>1. \A l \in Ledgers : Retained(held[l]) \in Entries
      BY RetainedType, BookTypes DEF PackagesTypeOK
    <3>. QED BY <3>1 DEF Books, Entries
  <2>2. [l \in Moved |-> {app \in due[l] : newUids[app] # NoUid}] \in [Moved -> SUBSET Apps]
    BY DEF PackagesTypeOK
  <2>. QED BY <1>1, <1>5, <2>1, <2>2 DEF SyncEnds, PackagesTypeOK
<1>6. CASE \E app \in Apps : Migrates(app) /\ uidOf[app] # NoUid
  <2>1. PICK app \in Apps : Migrates(app) /\ uidOf[app] \in Uids
    BY <1>6 DEF PackagesTypeOK, Maps
  <2>2. [l \in Ledgers |-> IF l \in Moved THEN Move(held[l], uidOf[app], newUids[app])
                           ELSE held[l]] \in Books
    <3>1. \A l \in Ledgers : /\ held[l] \in Entries
                             /\ Move(held[l], uidOf[app], newUids[app]) \in Entries
      BY <2>1, MoveType, BookTypes DEF PackagesTypeOK
    <3>. QED BY <3>1 DEF Books, Entries
  <2>. QED BY <2>1, <2>2 DEF Migrates, PackagesTypeOK
<1>7. CASE UNCHANGED packageVars
  BY <1>7 DEF packageVars, PackagesTypeOK
<1>. QED BY <1>2, <1>3, <1>4, <1>5, <1>6, <1>7

\* What the types need besides: apps are to be migrated only while sync_packages runs, and
\* from the uid they have.
TodoInv ==
    /\ pc # "migrate" => todo = {}
    /\ \A app \in todo : uidOf[app] # NoUid

TypeInv == TypeOK /\ TodoInv

\* Where the daemon is when it neither is down nor synchronises nor decides.
Front == {"load", "parse", "copy", "resolve", "stamp", "idle", "check", "sync"}

\* Steps that leave the package map and all that is kept by uid alone.
Quiet ==
    /\ UNCHANGED <<packageVars, disk>>
    /\ pc' = pc \/ (pc \in Front /\ pc' \in Front)

\* Every step is quiet, or one of those that are not.
LEMMA StepsOfPackages ==
    ASSUME [Next]_vars
    PROVE  \/ Quiet
           \/ PackagesChange \/ DaemonStarts \/ ReloadResolves \/ SyncLooks \/ SyncResolves
           \/ SyncFails \/ Migrate \/ SyncDone \/ Decision \/ Crashes
           \/ \E app \in Apps : ExtensionIsAsked(app)
<1>. USE DEF Quiet, Front
<1>1. CASE HandWrites \/ HandGivesUp
  BY <1>1 DEF HandWrites, HandGivesUp, EditBegins, EditEnds, EditBreaksOff, FileIsRemoved,
              Written, packageVars
<1>2. CASE SessionReads \/ SessionSaves \/ SessionWrites
  BY <1>2 DEF SessionReads, SessionSaves, SessionWrites, storeVars
<1>3. CASE SessionAsks
  BY <1>3 DEF SessionAsks, AsksApply, SaveFails, Applies, storeVars
<1>4. CASE LoadsRules
  BY <1>4 DEF LoadsRules, LoadRules, ReloadReads, AfterLoading
<1>5. CASE CopiesRules
  BY <1>5 DEF CopiesRules, RefreshBackup, RefreshFails, BackupBecomes, AfterLoading
<1>6. CASE ReloadFails \/ ReloadEnds
  BY <1>6 DEF ReloadFails, ReloadEnds, ReloadConfigures, ReloadStamps
<1>7. CASE Checks \/ ReloadIsAsked
  BY <1>7 DEF Checks, ReloadIsAsked, TickChecks, ReloadRequested
<1>8. CASE UNCHANGED vars
  BY <1>8 DEF vars, storeVars
<1>. QED BY <1>1, <1>2, <1>3, <1>4, <1>5, <1>6, <1>7, <1>8 DEF Next, Daemon, Outside

\* For whom the daemon works, and what may still happen.
LEMMA JobTypes ==
    ASSUME RestTypeOK, [Next]_vars
    PROVE  job' \in Jobs /\ left' \in [Kinds -> Nat]
<1>. USE UsesType, KindsAre DEF RestTypeOK, Jobs
<1>1. CASE HandWrites \/ HandGivesUp
  BY <1>1 DEF HandWrites, HandGivesUp, EditBegins, EditEnds, EditBreaksOff, FileIsRemoved,
              Written
<1>2. CASE SessionReads \/ SessionSaves \/ SessionWrites
  BY <1>2 DEF SessionReads, SessionSaves, SessionWrites, storeVars
<1>3. CASE SessionAsks
  BY <1>3 DEF SessionAsks, AsksApply, SaveFails, Applies, storeVars
<1>4. CASE LoadsRules
  BY <1>4 DEF LoadsRules, LoadRules, ReloadReads
<1>5. CASE CopiesRules
  BY <1>5 DEF CopiesRules, RefreshBackup, RefreshFails, BackupBecomes
<1>6. CASE ReloadFails \/ ReloadEnds
  BY <1>6 DEF ReloadFails, ReloadEnds, ReloadConfigures, ReloadStamps
<1>7. CASE Checks \/ ReloadIsAsked
  BY <1>7 DEF Checks, ReloadIsAsked, TickChecks, ReloadRequested
<1>8. CASE UNCHANGED vars
  BY <1>8 DEF vars, storeVars
<1>9. CASE ReloadResolves
  BY <1>9 DEF ReloadResolves, ReloadConfigures
<1>10. CASE PackagesChange \/ SyncLooks \/ SyncResolves \/ SyncFails \/ Migrate \/ SyncDone
  BY <1>10 DEF PackagesChange, SyncLooks, SyncResolves, SyncFails, Migrate, SyncDone,
               SyncStep, storeVars
<1>11. CASE DaemonStarts \/ Decision
  BY <1>11 DEF DaemonStarts, StoreStarts, Decision, Decides
<1>12. CASE Crashes \/ \E app \in Apps : ExtensionIsAsked(app)
  BY <1>12 DEF Crashes, StoreCrashes, ExtensionIsAsked
<1>. QED BY <1>1, <1>2, <1>3, <1>4, <1>5, <1>6, <1>7, <1>8, <1>9, <1>10, <1>11, <1>12
         DEF Next, Daemon, Outside

LEMMA StoreTypeStep ==
    ASSUME TypeOK, [Next]_vars
    PROVE  StoreTypeOK'
<1>. USE TypeOKParts
<1>1. CASE HandWrites \/ HandGivesUp
  BY <1>1, StoreTypes, UserDataAssumption DEF UserDataAssumption, HandWrites, HandGivesUp
<1>2. CASE UNCHANGED storeVars
  BY <1>2 DEF StoreTypeOK, storeVars, files, Usable
<1>3. CASE SessionReads \/ SessionSaves \/ SessionWrites \/ PackagesChange
  BY <1>2, <1>3 DEF SessionReads, SessionSaves, SessionWrites, PackagesChange
<1>4. CASE SessionAsks
  <2>1. PICK s \in Sessions : AsksApply(s) \/ SaveFails(s)
    BY <1>4 DEF SessionAsks
  <2>2. CASE AsksApply(s)
    BY <2>2, StoreTypes DEF AsksApply, UiTypeOK
  <2>. QED BY <1>2, <2>1, <2>2 DEF SaveFails
<1>5. CASE LoadsRules \/ CopiesRules
  BY <1>5, StoreTypes DEF LoadsRules, CopiesRules
<1>6. CASE ReloadFails \/ ReloadEnds \/ ReloadResolves
  BY <1>6, StoreTypes DEF ReloadFails, ReloadEnds, ReloadResolves
<1>7. CASE Checks \/ ReloadIsAsked \/ DaemonStarts \/ Crashes
  BY <1>7, StoreTypes DEF Checks, ReloadIsAsked, DaemonStarts, Crashes
<1>8. CASE SyncLooks \/ SyncResolves \/ SyncFails \/ Migrate \/ SyncDone
  BY <1>8 DEF SyncLooks, SyncResolves, SyncFails, Migrate, SyncDone, SyncStep,
              StoreTypeOK, files, Usable
<1>9. CASE Decision \/ \E app \in Apps : ExtensionIsAsked(app)
  BY <1>9 DEF Decision, Decides, ExtensionIsAsked, StoreTypeOK, files, Usable
<1>. QED BY <1>1, <1>2, <1>3, <1>4, <1>5, <1>6, <1>7, <1>8, <1>9
         DEF Next, Daemon, Outside, vars

LEMMA UiTypeStep ==
    ASSUME TypeOK, [Next]_vars
    PROVE  UiTypeOK'
<1>. USE TypeOKParts
<1>0. live \in Files
  BY DEF StoreTypeOK
<1>1. CASE HandWrites
  BY <1>0, <1>1, UiTypes DEF HandWrites
<1>2. CASE UNCHANGED uiVars
  BY <1>2 DEF UiTypeOK, uiVars
<1>3. CASE SessionReads \/ SessionSaves \/ SessionWrites
  BY <1>0, <1>3, UiTypes DEF SessionReads, SessionSaves, SessionWrites
<1>4. CASE SessionAsks
  BY <1>0, <1>4, UiTypes DEF SessionAsks
<1>5. CASE ReloadFails \/ ReloadEnds \/ Crashes
  BY <1>0, <1>5, UiTypes DEF ReloadFails, ReloadEnds, Crashes
<1>6. CASE HandGivesUp \/ PackagesChange
  BY <1>2, <1>6 DEF HandGivesUp, PackagesChange
<1>7. CASE LoadsRules \/ CopiesRules \/ ReloadResolves \/ Checks \/ ReloadIsAsked \/ DaemonStarts
  BY <1>2, <1>7 DEF LoadsRules, CopiesRules, ReloadResolves, Checks, ReloadIsAsked, DaemonStarts
<1>8. CASE SyncLooks \/ SyncResolves \/ SyncFails \/ Migrate \/ SyncDone
  BY <1>2, <1>8 DEF SyncLooks, SyncResolves, SyncFails, Migrate, SyncDone, SyncStep
<1>9. CASE Decision \/ \E app \in Apps : ExtensionIsAsked(app)
  BY <1>2, <1>9 DEF Decision, Decides, ExtensionIsAsked
<1>. QED BY <1>1, <1>2, <1>3, <1>4, <1>5, <1>6, <1>7, <1>8, <1>9
         DEF Next, Daemon, Outside, vars

\* What a tick credits, and what it saves, keeps the types.
LEMMA DecisionTypes ==
    ASSUME PackagesTypeOK, disk \in DiskType, Decision
    PROVE  PackagesTypeOK' /\ disk' \in DiskType
<1>1. PICK running \in SUBSET Installed, newDay \in BOOLEAN, saves \in BOOLEAN :
          Decides(running, newDay, saves)
  BY DEF Decision
<1>. DEFINE books == IF newDay THEN NothingHeld ELSE held
            owed == IF newDay THEN NobodyDue ELSE due
<1>2. running \in SUBSET Apps /\ Counted(running) \in SUBSET Apps
  BY DEF Installed, Counted
<1>3. books \in Books /\ owed \in [Moved -> SUBSET Apps]
  BY NothingType DEF PackagesTypeOK
<1>4. /\ held' = [books EXCEPT !["usage"] = Credited(books["usage"], running, Targets)]
      /\ due' = [owed EXCEPT !["usage"] = owed["usage"] \cup Counted(running)]
  BY <1>1 DEF Decides
<1>5. crossed' \in BOOLEAN
  BY <1>1, Zenon DEF Decides
<1>6. /\ UNCHANGED <<list, unseenList, uidOf, newUids, todo, keyed>>
      /\ disk' = IF saves THEN [usage |-> held'["usage"], granted |-> held'["granted"],
                                due |-> due'["usage"], keyed |-> keyed, crossed |-> crossed']
                 ELSE IF newDay THEN NothingSaved ELSE disk
  BY <1>1 DEF Decides
<1>. HIDE DEF books, owed
<1>7. held' \in Books
  <2>1. books["usage"] \in Entries
    BY <1>3, BookTypes DEF Ledgers
  <2>2. Credited(books["usage"], running, Targets) \in Entries
    BY <1>2, <2>1, CreditedType
  <2>. QED BY <1>3, <1>4, <2>2 DEF Books, Entries
<1>8. due' \in [Moved -> SUBSET Apps]
  BY <1>2, <1>3, <1>4 DEF Moved
<1>9. PackagesTypeOK'
  BY <1>5, <1>6, <1>7, <1>8 DEF PackagesTypeOK
<1>10. disk' \in DiskType
  <2>1. held'["usage"] \in Entries /\ held'["granted"] \in Entries /\ due'["usage"] \in SUBSET Apps
    BY <1>7, <1>8 DEF Books, Entries, Ledgers, Moved
  <2>2. NothingSaved \in DiskType
    BY NoMapType, NothingType DEF NothingSaved, DiskType, Entries
  <2>. QED BY <1>5, <1>6, <2>1, <2>2 DEF DiskType, PackagesTypeOK
<1>. QED BY <1>9, <1>10

LEMMA ExtensionTypes ==
    ASSUME PackagesTypeOK, NEW app \in Apps, ExtensionIsAsked(app)
    PROVE  PackagesTypeOK'
<1>1. held["extension"] \in Entries /\ held["granted"] \in Entries
  BY DEF PackagesTypeOK, Books, Entries, Ledgers
<1>2. Extended("extension", app) \in Entries /\ Extended("granted", app) \in Entries
  BY <1>1 DEF Extended, Entries
<1>3. held' = [held EXCEPT !["extension"] = Extended("extension", app),
                           !["granted"] = Extended("granted", app)]
  BY DEF ExtensionIsAsked
<1>4. held' \in Books
  BY <1>2, <1>3 DEF Books, Entries, PackagesTypeOK
<1>5. due' \in [Moved -> SUBSET Apps]
  BY DEF ExtensionIsAsked, PackagesTypeOK, Moved
<1>. QED BY <1>4, <1>5 DEF ExtensionIsAsked, PackagesTypeOK

\* What a daemon that starts, or dies, has.
LEMMA RestartTypes ==
    ASSUME PackagesTypeOK, disk \in DiskType, DaemonStarts \/ Crashes
    PROVE  PackagesTypeOK' /\ disk' \in DiskType
<1>1. NothingSaved \in DiskType
  BY NoMapType, NothingType DEF NothingSaved, DiskType, Entries
<1>2. CASE DaemonStarts
  <2>1. PICK saved \in {disk, NothingSaved} :
            /\ held' = [usage |-> saved.usage, extension |-> [uid \in Uids |-> {}],
                        granted |-> saved.granted]
            /\ due' = [usage |-> saved.due, extension |-> {}]
            /\ keyed' = saved.keyed
            /\ crossed' = saved.crossed
    BY <1>2 DEF DaemonStarts
  <2>2. /\ saved.usage \in Entries /\ saved.granted \in Entries /\ saved.due \in SUBSET Apps
        /\ saved.keyed \in Maps /\ saved.crossed \in BOOLEAN
    BY <1>1 DEF DiskType
  <2>3. [uid \in Uids |-> {}] \in Entries
    BY DEF Entries
  <2>4. held' \in Books
    BY <2>1, <2>2, <2>3 DEF Books, Entries, Ledgers
  <2>5. due' \in [Moved -> SUBSET Apps]
    BY <2>1, <2>2 DEF Moved
  <2>. QED BY <1>2, <2>1, <2>2, <2>4, <2>5 DEF DaemonStarts, PackagesTypeOK
<1>3. CASE Crashes
  BY <1>3, NoMapType, NothingType DEF Crashes, PackagesTypeOK
<1>. QED BY <1>2, <1>3

\* The types of the package map, of the file and of the migration.
LEMMA PackagesTypeStep ==
    ASSUME TypeInv, [Next]_vars
    PROVE  PackagesTypeOK' /\ disk' \in DiskType /\ TodoInv'
<1>0. PackagesTypeOK /\ disk \in DiskType /\ TodoInv
  BY TypeOKParts DEF TypeInv, RestTypeOK
<1>1. CASE Quiet
  BY <1>0, <1>1, PackageTypes DEF Quiet, Front, packageVars, TodoInv
<1>2. CASE PackagesChange
  BY <1>0, <1>2, PackageTypes DEF PackagesChange, ListIsRewritten, TodoInv, storeVars
<1>3. CASE DaemonStarts \/ Crashes
  BY <1>0, <1>3, RestartTypes DEF DaemonStarts, Crashes, StoreStarts, TodoInv
<1>4. CASE ReloadResolves
  BY <1>0, <1>4, PackageTypes DEF ReloadResolves, ReloadConfigures, MapIsReplaced, TodoInv
<1>5. CASE SyncLooks \/ SyncFails
  BY <1>0, <1>5 DEF SyncLooks, SyncFails, SyncStep, packageVars, PackagesTypeOK, TodoInv
<1>6. CASE SyncResolves
  BY <1>0, <1>6, PackageTypes DEF SyncResolves, SyncStep, SyncReads, TodoInv
<1>7. CASE Migrate
  BY <1>0, <1>7, PackageTypes DEF Migrate, SyncStep, Migrates, TodoInv
<1>8. CASE SyncDone
  BY <1>0, <1>8, PackageTypes DEF SyncDone, SyncStep, SyncEnds, TodoInv
<1>9. CASE Decision
  BY <1>0, <1>9, DecisionTypes DEF Decision, Decides, TodoInv
<1>10. CASE \E app \in Apps : ExtensionIsAsked(app)
  BY <1>0, <1>10, ExtensionTypes DEF ExtensionIsAsked, TodoInv
<1>. QED BY <1>1, <1>2, <1>3, <1>4, <1>5, <1>6, <1>7, <1>8, <1>9, <1>10, StepsOfPackages

LEMMA PhaseStep ==
    ASSUME TypeOK, [Next]_vars
    PROVE  pc' \in Phases
<1>. USE TypeOKParts DEF RestTypeOK, Phases
<1>1. CASE Quiet
  BY <1>1 DEF Quiet, Front
<1>2. CASE PackagesChange \/ DaemonStarts \/ ReloadResolves \/ Crashes
  BY <1>2 DEF PackagesChange, DaemonStarts, ReloadResolves, Crashes, StoreStarts,
              ReloadConfigures, StoreCrashes, storeVars
<1>3. CASE SyncLooks \/ SyncResolves \/ SyncFails \/ Migrate \/ SyncDone
  BY <1>3 DEF SyncLooks, SyncResolves, SyncFails, Migrate, SyncDone, SyncStep
<1>4. CASE Decision \/ \E app \in Apps : ExtensionIsAsked(app)
  BY <1>4 DEF Decision, Decides, ExtensionIsAsked
<1>. QED BY <1>1, <1>2, <1>3, <1>4, StepsOfPackages

LEMMA TypeStep == TypeInv /\ [Next]_vars => TypeInv'
<1>. SUFFICES ASSUME TypeInv, [Next]_vars PROVE TypeInv'
  OBVIOUS
<1>1. StoreTypeOK' /\ UiTypeOK'
  BY StoreTypeStep, UiTypeStep DEF TypeInv
<1>2. PackagesTypeOK' /\ disk' \in DiskType /\ TodoInv'
  BY PackagesTypeStep
<1>3. RestTypeOK'
  BY <1>2, JobTypes, PhaseStep, TypeOKParts DEF RestTypeOK, TypeInv
<1>. QED BY <1>1, <1>2, <1>3, TypeOKParts DEF TypeInv

LEMMA TypeInvariant == Spec => []TypeInv
<1>1. Init => TypeInv
  BY InitType DEF Init, PackagesInit, TodoInv, TypeInv
<1>. QED BY <1>1, TypeStep, PTL DEF Spec

\* The state keeps its types, whatever is installed, edited, saved, lost or refused.
THEOREM TypeCorrect == Spec => []TypeOK
<1>1. TypeInv => TypeOK
  BY DEF TypeInv
<1>. QED BY <1>1, TypeInvariant, PTL

------------------------------------------------------------------------------
\* packages.list is watched.

\* A map believed to be that of the list is; so is one still being put in force.
ListInv ==
    /\ ~unseenList /\ pc \notin {"read", "migrate"} => uidOf = ResolveUids
    /\ ~unseenList /\ pc = "migrate" => newUids = ResolveUids
    /\ pc = "down" => unseenList

LEMMA ListInvInit == Init => ListInv
BY DEF Init, PackagesInit, ListInv

LEMMA ResolveUnchanged ==
    ASSUME list' = list
    PROVE  ResolveUids' = ResolveUids
BY DEF ResolveUids, UidIn

LEMMA ListInvStep ==
    ASSUME ListInv, [Next]_vars
    PROVE  ListInv'
<1>. USE DEF ListInv
<1>1. CASE Quiet
  BY <1>1, ResolveUnchanged DEF Quiet, Front, packageVars
<1>2. CASE PackagesChange
  BY <1>2 DEF PackagesChange, ListIsRewritten
<1>3. CASE DaemonStarts
  BY <1>3, ResolveUnchanged DEF DaemonStarts, StoreStarts
<1>4. CASE Crashes
  BY <1>4 DEF Crashes
<1>5. CASE ReloadResolves
  BY <1>5, ResolveUnchanged DEF ReloadResolves, ReloadConfigures, MapIsReplaced
<1>6. CASE SyncLooks \/ SyncResolves \/ SyncFails
  BY <1>6, ResolveUnchanged
     DEF SyncLooks, SyncResolves, SyncFails, SyncStep, SyncReads, packageVars
<1>7. CASE Migrate
  BY <1>7, ResolveUnchanged DEF Migrate, SyncStep, Migrates
<1>8. CASE SyncDone
  BY <1>8, ResolveUnchanged DEF SyncDone, SyncStep, SyncEnds
<1>9. CASE Decision
  BY <1>9, ResolveUnchanged DEF Decision, Decides
<1>10. CASE \E app \in Apps : ExtensionIsAsked(app)
  BY <1>10, ResolveUnchanged DEF ExtensionIsAsked
<1>. QED BY <1>1, <1>2, <1>3, <1>4, <1>5, <1>6, <1>7, <1>8, <1>9, <1>10, StepsOfPackages

LEMMA ListInvariant == Spec => []ListInv
BY ListInvInit, ListInvStep, PTL DEF Spec

LEMMA ListWatchInit == Init => ListWatch!Init
<1>. SUFFICES ASSUME Init PROVE ListWatch!Init
  OBVIOUS
<1>1. TypeOK
  BY InitType
<1>2. ResolveUids \in Maps /\ uidOf \in Maps
  BY <1>1, ResolveType DEF TypeOK, PackagesTypeOK
<1>3. unseenList = TRUE
  BY DEF Init, PackagesInit
<1>. QED BY <1>2, <1>3 DEF ListWatch!Init

LEMMA ListWatchStep ==
    ASSUME TypeOK, TypeOK', ListInv, ListInv', [Next]_vars
    PROVE  [ListWatch!Next]_(ListWatch!vars)
<1>. USE DEF ListWatch!vars
<1>0. ResolveUids' \in Maps /\ uidOf' \in Maps
  BY ResolveType DEF TypeOK, PackagesTypeOK, ResolveUids, UidIn, Lists, Maps, Apps, Uids, NoUid
<1>1. CASE Quiet
  BY <1>1, ResolveUnchanged DEF Quiet, Front, packageVars
<1>2. CASE PackagesChange
  BY <1>0, <1>2 DEF PackagesChange, ListIsRewritten, ListWatch!Next, ListWatch!Write, storeVars
<1>3. CASE DaemonStarts
  BY <1>3, ResolveUnchanged DEF DaemonStarts, StoreStarts, ListInv
<1>4. CASE Crashes
  BY <1>0, <1>4, ResolveUnchanged DEF Crashes, ListWatch!Next, ListWatch!ReadOld
<1>5. CASE ReloadResolves
  BY <1>5, ResolveUnchanged
     DEF ReloadResolves, ReloadConfigures, MapIsReplaced, ListWatch!Next, ListWatch!Read
<1>6. CASE SyncLooks \/ SyncResolves \/ SyncFails
  <2>1. CASE SyncLooks
    <3>1. pc = "sync" /\ pc' \in {"decide", "read"} /\ uidOf' = uidOf /\ list' = list
      BY <2>1 DEF SyncLooks, SyncStep, packageVars
    <3>2. pc' = "read" \/ unseenList' = unseenList
      BY <2>1 DEF SyncLooks, SyncStep, packageVars
    <3>3. pc' = "read" => unseenList
      BY <2>1 DEF SyncLooks, SyncStep
    <3>. QED BY <3>1, <3>2, <3>3, ResolveUnchanged
  <2>2. CASE SyncResolves \/ SyncFails
    BY <2>2, ResolveUnchanged DEF SyncResolves, SyncFails, SyncStep, SyncReads
  <2>. QED BY <1>6, <2>1, <2>2
<1>7. CASE Migrate
  BY <1>7, ResolveUnchanged DEF Migrate, SyncStep, Migrates
<1>8. CASE SyncDone
  <2>1. CASE unseenList
    BY <1>0, <1>8, <2>1, ResolveUnchanged
       DEF SyncDone, SyncStep, SyncEnds, ListWatch!Next, ListWatch!ReadOld
  <2>2. CASE ~unseenList
    BY <1>8, <2>2, ResolveUnchanged
       DEF SyncDone, SyncStep, SyncEnds, ListInv, ListWatch!Next, ListWatch!Read
  <2>. QED BY <2>1, <2>2
<1>9. CASE Decision
  BY <1>9, ResolveUnchanged DEF Decision, Decides
<1>10. CASE \E app \in Apps : ExtensionIsAsked(app)
  BY <1>10, ResolveUnchanged DEF ExtensionIsAsked
<1>. QED BY <1>1, <1>2, <1>3, <1>4, <1>5, <1>6, <1>7, <1>8, <1>9, <1>10, StepsOfPackages

\* sync_packages and reload together implement the watched file: a map the daemon does not
\* look at again is the one packages.list holds.
THEOREM ListWatched == Spec => ListIsWatched
<1>. QED BY ListWatchInit, ListWatchStep, ListInvariant, TypeCorrect, PTL
         DEF Spec, ListIsWatched, ListWatch!Spec

------------------------------------------------------------------------------
\* Nothing is held for nobody.

\* Between synchronisations the daemon holds nothing for a uid its map gives to no app.
HeldInv ==
    ~unseenList /\ pc \notin {"read", "migrate"} =>
        \A l \in Ledgers, uid \in Uids : held[l][uid] # {} => uid \in Live(uidOf)

\* The apps some rule is about, and an app that is extended, have uids of the map.
LEMMA TargetsLive == Targets \subseteq Live(uidOf)
BY DEF Targets, Live

LEMMA HeldInvStep ==
    ASSUME TypeOK, ListInv, HeldInv, [Next]_vars
    PROVE  HeldInv'
<1>. USE DEF HeldInv
<1>1. CASE Quiet
  BY <1>1 DEF Quiet, Front, packageVars, Live
<1>2. CASE PackagesChange \/ Crashes
  BY <1>2 DEF PackagesChange, ListIsRewritten, Crashes
<1>3. CASE DaemonStarts
  BY <1>3 DEF DaemonStarts, StoreStarts, ListInv
<1>4. CASE ReloadResolves
  BY <1>4 DEF ReloadResolves, ReloadConfigures, MapIsReplaced, ListInv, Live
<1>5. CASE SyncLooks
  BY <1>5 DEF SyncLooks, SyncStep, packageVars, Live
<1>6. CASE SyncResolves \/ SyncFails
  BY <1>6 DEF SyncResolves, SyncFails, SyncStep
<1>7. CASE Migrate
  BY <1>7 DEF Migrate, SyncStep
<1>8. CASE SyncDone
  BY <1>8 DEF SyncDone, SyncStep, SyncEnds, Retained, Live
<1>9. CASE Decision
  <2>1. PICK running \in SUBSET Installed, newDay \in BOOLEAN, saves \in BOOLEAN :
            Decides(running, newDay, saves)
    BY <1>9 DEF Decision
  <2>. DEFINE books == IF newDay THEN NothingHeld ELSE held
  <2>2. /\ held' = [books EXCEPT !["usage"] = Credited(books["usage"], running, Targets)]
        /\ pc = "decide" /\ UNCHANGED <<unseenList, uidOf>>
    BY <2>1 DEF Decides
  <2>3. books \in Books
    BY NothingType DEF TypeOK, PackagesTypeOK
  <2>4. SUFFICES ASSUME ~unseenList, NEW l \in Ledgers, NEW uid \in Uids, held'[l][uid] # {}
                 PROVE  uid \in Live(uidOf)
    BY <2>2 DEF Live
  <2>5. books[l][uid] # {} => uid \in Live(uidOf)
    BY <2>2, <2>4 DEF NothingHeld
  <2>. HIDE DEF books
  <2>6. CASE l = "usage"
    <3>1. held'[l] = Credited(books["usage"], running, Targets)
      BY <2>2, <2>3, <2>6 DEF Books
    <3>2. uid \in Targets \/ books[l][uid] # {}
      BY <2>4, <2>6, <3>1 DEF Credited
    <3>. QED BY <2>5, <3>2, TargetsLive
  <2>7. CASE l # "usage"
    BY <2>2, <2>3, <2>4, <2>5, <2>7 DEF Books
  <2>. QED BY <2>6, <2>7
<1>10. CASE \E app \in Apps : ExtensionIsAsked(app)
  <2>1. PICK app \in Apps : ExtensionIsAsked(app)
    BY <1>10
  <2>2. /\ held' = [held EXCEPT !["extension"] = Extended("extension", app),
                                !["granted"] = Extended("granted", app)]
        /\ pc = "idle" /\ uidOf[app] \in Live(uidOf) /\ UNCHANGED <<unseenList, uidOf>>
    BY <2>1 DEF ExtensionIsAsked, Live
  <2>3. held \in Books
    BY DEF TypeOK, PackagesTypeOK
  <2>4. SUFFICES ASSUME ~unseenList, NEW l \in Ledgers, NEW uid \in Uids, held'[l][uid] # {}
                 PROVE  uid \in Live(uidOf)
    BY <2>2 DEF Live
  <2>5. held'[l] = held[l] \/ held'[l] = Extended(l, app)
    BY <2>2, <2>3 DEF Books, Ledgers
  <2>6. uid = uidOf[app] \/ held[l][uid] # {}
    BY <2>3, <2>4, <2>5 DEF Extended, Books
  <2>. QED BY <2>2, <2>4, <2>6
<1>. QED BY <1>1, <1>2, <1>3, <1>4, <1>5, <1>6, <1>7, <1>8, <1>9, <1>10, StepsOfPackages

\* Whatever is installed and removed, however often a sync fails or the daemon dies: once
\* it has seen the list it keeps nothing under a uid that no app has.
THEOREM NobodyCorrect == Spec => []NothingHeldForNobody
<1>1. Init => HeldInv
  BY DEF Init, PackagesInit, HeldInv
<1>2. HeldInv => NothingHeldForNobody
  BY DEF HeldInv, NothingHeldForNobody, Synced
<1>. QED BY <1>1, <1>2, HeldInvStep, ListInvariant, TypeCorrect, PTL DEF Spec

------------------------------------------------------------------------------
\* The steps of the rules store.

\* Steps that leave the rules and their files alone, while the daemon does not load them.
StoreQuiet ==
    /\ UNCHANGED <<job, files, unseen, rules, source, configured, overtaken, behind, kept,
                   found>>
    /\ \/ pc' = pc
       \/ {pc, pc'} \subseteq {"idle", "check", "sync", "read", "migrate", "decide"}

LEMMA StepsOfStore ==
    ASSUME [Next]_vars
    PROVE  \/ StoreQuiet
           \/ \E content \in RuleSets : EditBegins(content)
           \/ EditEnds \/ EditBreaksOff \/ FileIsRemoved
           \/ LoadRules \/ ReloadReads \/ RefreshBackup \/ RefreshFails
           \/ ReloadConfigures("stamp") \/ ReloadConfigures("idle")
           \/ \E next \in {"sync", "check", "idle"} : ReloadStamps(next)
           \/ StoreStarts \/ TickChecks \/ ReloadRequested \/ StoreCrashes
           \/ \E s \in Sessions : AsksApply(s)
<1>1. CASE HandWrites \/ HandGivesUp
  BY <1>1, UserDataAssumption DEF UserDataAssumption, HandWrites, HandGivesUp
<1>2. CASE UNCHANGED storeVars
  BY <1>2 DEF StoreQuiet, storeVars
<1>3. CASE SessionReads \/ SessionSaves \/ SessionWrites \/ PackagesChange \/ SessionAsks
  BY <1>2, <1>3 DEF SessionReads, SessionSaves, SessionWrites, PackagesChange, SessionAsks,
                    SaveFails
<1>4. CASE LoadsRules \/ CopiesRules \/ ReloadFails \/ ReloadEnds \/ ReloadResolves
  BY <1>4 DEF LoadsRules, CopiesRules, ReloadFails, ReloadEnds, ReloadResolves
<1>5. CASE Checks \/ ReloadIsAsked \/ DaemonStarts \/ Crashes
  BY <1>5 DEF Checks, ReloadIsAsked, DaemonStarts, Crashes
<1>6. CASE SyncLooks \/ SyncResolves \/ SyncFails \/ Migrate \/ SyncDone
  BY <1>6 DEF SyncLooks, SyncResolves, SyncFails, Migrate, SyncDone, SyncStep, StoreQuiet
<1>7. CASE Decision \/ \E app \in Apps : ExtensionIsAsked(app)
  BY <1>7 DEF Decision, Decides, ExtensionIsAsked, StoreQuiet
<1>. QED BY <1>1, <1>2, <1>3, <1>4, <1>5, <1>6, <1>7 DEF Next, Daemon, Outside, vars

------------------------------------------------------------------------------
\* rules.json is watched.

\* The rules are those of the file when the daemon thinks so, and from their reading on,
\* unless the file was written meanwhile.
RulesInv ==
    (~unseen \/ Loading) /\ ~overtaken /\ Usable(live) => rules = live

LEMMA RulesInvStep ==
    ASSUME RulesInv, [Next]_vars
    PROVE  RulesInv'
<1>. USE DEF RulesInv, Loading, Usable, files
<1>1. CASE StoreQuiet
  BY <1>1 DEF StoreQuiet
<1>2. CASE \/ \E content \in RuleSets : EditBegins(content)
           \/ EditEnds \/ EditBreaksOff \/ FileIsRemoved
  BY <1>2 DEF EditBegins, EditEnds, EditBreaksOff, FileIsRemoved, Written
<1>3. CASE LoadRules
  BY <1>3 DEF LoadRules, Load
<1>4. CASE ReloadReads
  BY <1>4 DEF ReloadReads, Load
<1>5. CASE RefreshBackup \/ RefreshFails
  BY <1>5 DEF RefreshBackup, RefreshFails, BackupBecomes, AfterLoading
<1>6. CASE ReloadConfigures("stamp") \/ ReloadConfigures("idle")
  BY <1>6 DEF ReloadConfigures
<1>7. CASE \E next \in {"sync", "check", "idle"} : ReloadStamps(next)
  BY <1>7 DEF ReloadStamps
<1>8. CASE StoreStarts \/ TickChecks \/ ReloadRequested
  BY <1>8 DEF StoreStarts, TickChecks, ReloadRequested
<1>9. CASE StoreCrashes
  BY <1>9 DEF StoreCrashes
<1>10. CASE \E s \in Sessions : AsksApply(s)
  BY <1>10 DEF AsksApply, Applies
<1>. QED BY <1>1, <1>2, <1>3, <1>4, <1>5, <1>6, <1>7, <1>8, <1>9, <1>10, StepsOfStore

LEMMA RulesInvariant == Spec => []RulesInv
<1>1. Init => RulesInv
  BY DEF Init, StoreInit, RulesInv, Loading
<1>. QED BY <1>1, RulesInvStep, PTL DEF Spec

LEMMA RulesWatchInit == Init => RulesWatch!Init
<1>. SUFFICES ASSUME Init PROVE RulesWatch!Init
  OBVIOUS
<1>1. StoreTypeOK /\ unseen = TRUE
  BY InitType DEF Init, StoreInit, TypeOK
<1>. QED BY <1>1 DEF RulesWatch!Init, StoreTypeOK, Files, Usable

LEMMA RulesWatchStep ==
    ASSUME TypeOK, TypeOK', RulesInv, RulesInv', [Next]_vars
    PROVE  [RulesWatch!Next]_(RulesWatch!vars)
<1>. USE DEF RulesWatch!vars, files
<1>0. live' \in Files /\ rules' \in RuleSets
  BY DEF TypeOK, StoreTypeOK, Files, Usable
<1>1. CASE StoreQuiet
  BY <1>1 DEF StoreQuiet
<1>2. CASE \/ \E content \in RuleSets : EditBegins(content)
           \/ EditEnds \/ FileIsRemoved
  BY <1>0, <1>2 DEF EditBegins, EditEnds, FileIsRemoved, Written,
                    RulesWatch!Next, RulesWatch!Write
<1>3. CASE LoadRules
  BY <1>0, <1>3 DEF LoadRules, Load, RulesWatch!Next, RulesWatch!Read, RulesWatch!MakeDo
<1>4. CASE ReloadReads
  BY <1>0, <1>4 DEF ReloadReads, Load, RulesWatch!Next, RulesWatch!Read, RulesWatch!MakeDo
<1>5. CASE RefreshBackup \/ RefreshFails \/ EditBreaksOff
  BY <1>5 DEF RefreshBackup, RefreshFails, BackupBecomes, EditBreaksOff
<1>6. CASE ReloadConfigures("stamp") \/ ReloadConfigures("idle")
  BY <1>6 DEF ReloadConfigures
<1>7. CASE \E next \in {"sync", "check", "idle"} : ReloadStamps(next)
  <2>1. /\ UNCHANGED <<live, rules, overtaken>> /\ unseen' \in BOOLEAN
        /\ Usable(live) /\ ~overtaken => rules = live
    BY <1>7 DEF ReloadStamps, RulesInv, Loading, TypeOK, StoreTypeOK
  <2>2. CASE Usable(live) /\ ~overtaken
    BY <2>1, <2>2 DEF RulesWatch!Next, RulesWatch!Read
  <2>3. CASE ~Usable(live) /\ ~overtaken
    BY <1>0, <2>1, <2>3 DEF RulesWatch!Next, RulesWatch!MakeDo
  <2>4. CASE overtaken
    BY <2>1, <2>4
  <2>. QED BY <2>2, <2>3, <2>4
<1>8. CASE StoreStarts \/ TickChecks \/ ReloadRequested
  BY <1>8 DEF StoreStarts, TickChecks, ReloadRequested
<1>9. CASE StoreCrashes
  BY <1>0, <1>9 DEF StoreCrashes, RulesWatch!Next, RulesWatch!ReadOld
<1>10. CASE \E s \in Sessions : AsksApply(s)
  BY <1>0, <1>10 DEF AsksApply, Applies, RulesWatch!Next, RulesWatch!Write
<1>. QED BY <1>1, <1>2, <1>3, <1>4, <1>5, <1>6, <1>7, <1>8, <1>9, <1>10, StepsOfStore

\* Loading in steps, falling back, applying and restarting together implement the watched
\* file: rules the daemon does not load again are those rules.json holds.
THEOREM RulesWatched == Spec => RulesAreWatched
<1>. QED BY RulesWatchInit, RulesWatchStep, RulesInvariant, TypeCorrect, PTL
         DEF Spec, RulesAreWatched, RulesWatch!Spec

------------------------------------------------------------------------------
\* No decision before timezone and protected packages are known.

ConfiguredInv ==
    /\ ~unseen \/ pc = "stamp" => configured
    /\ pc = "down" => job = "start"
    /\ job = "start" => ~found
    /\ found /\ ~configured => pc \in {"parse", "load", "copy", "resolve"}

LEMMA ConfiguredInvStep ==
    ASSUME TypeOK, ConfiguredInv, [Next]_vars
    PROVE  ConfiguredInv'
<1>. USE DEF ConfiguredInv, files
<1>1. CASE StoreQuiet
  BY <1>1 DEF StoreQuiet
<1>2. CASE \/ \E content \in RuleSets : EditBegins(content)
           \/ EditEnds \/ EditBreaksOff \/ FileIsRemoved
  BY <1>2 DEF EditBegins, EditEnds, EditBreaksOff, FileIsRemoved, Written
<1>3. CASE LoadRules \/ ReloadReads
  BY <1>3 DEF LoadRules, ReloadReads, AfterLoading
<1>4. CASE RefreshBackup \/ RefreshFails
  BY <1>4 DEF RefreshBackup, RefreshFails, BackupBecomes, AfterLoading
<1>5. CASE ReloadConfigures("stamp") \/ ReloadConfigures("idle")
  BY <1>5 DEF ReloadConfigures
<1>6. CASE \E next \in {"sync", "check", "idle"} : ReloadStamps(next)
  BY <1>6 DEF ReloadStamps
<1>7. CASE StoreStarts \/ TickChecks \/ ReloadRequested
  <2>1. CASE StoreStarts
    BY <2>1 DEF StoreStarts
  <2>2. CASE TickChecks
    <3>1. pc \in {"idle", "check"} /\ job' = "tick" /\ UNCHANGED <<unseen, configured, live>>
      BY <2>2 DEF TickChecks
    <3>2. CASE live # NoFile /\ unseen
      BY <2>2, <3>1, <3>2 DEF TickChecks
    <3>3. CASE live # NoFile /\ ~unseen
      BY <2>2, <3>1, <3>3 DEF TickChecks
    <3>4. CASE live = NoFile
      <4>1. found \in BOOLEAN
        BY DEF TypeOK, StoreTypeOK
      <4>2. found' = found /\ pc' = "sync"
        BY <2>2, <3>4, <4>1 DEF TickChecks
      <4>. QED BY <3>1, <4>2
    <3>. QED BY <3>2, <3>3, <3>4
  <2>3. CASE ReloadRequested
    BY <2>3 DEF ReloadRequested
  <2>. QED BY <1>7, <2>1, <2>2, <2>3
<1>8. CASE StoreCrashes
  BY <1>8 DEF StoreCrashes
<1>9. CASE \E s \in Sessions : AsksApply(s)
  BY <1>9, UserDataAssumption DEF UserDataAssumption, AsksApply, Applies
<1>. QED BY <1>1, <1>2, <1>3, <1>4, <1>5, <1>6, <1>7, <1>8, <1>9, StepsOfStore

\* However loading fails and is tried again, a daemon that has seen rules.json decides
\* nothing before its timezone and protected packages are set.
THEOREM ConfiguredCorrect == Spec => []DecidesConfigured
<1>1. Init => ConfiguredInv
  BY DEF Init, StoreInit, ConfiguredInv
<1>2. ConfiguredInv => DecidesConfigured
  BY DEF ConfiguredInv, DecidesConfigured
<1>. QED BY <1>1, <1>2, ConfiguredInvStep, TypeCorrect, PTL DEF Spec

------------------------------------------------------------------------------
\* Rules are kept.

\* What was in force and not taken out is in the file, in the rules loaded from it, and in
\* a copy that is theirs.
KeptInv ==
    /\ ~overwrote =>
          /\ Usable(live) => kept \subseteq live
          /\ source = "file" => kept \subseteq rules
          /\ ~behind /\ pc # "copy" =>
                IF Usable(backup) THEN kept \subseteq backup ELSE kept = {}
    /\ pc = "copy" => source = "file"
    /\ source = "backup" => rules = backup
    /\ source = "default" /\ pc \notin {"down", "load"} => ~Usable(backup)

LEMMA KeptInvStep ==
    ASSUME TypeOK, KeptInv, [Next]_vars
    PROVE  KeptInv'
<1>. USE DEF KeptInv, files, Usable
<1>0. source \in {"file", "backup", "default"} /\ overwrote \in BOOLEAN /\ Usable(rules)
  BY DEF TypeOK, StoreTypeOK, UiTypeOK, Sources
<1>. DEFINE Asks == \E s \in Sessions : AsksApply(s)
<1>00. Asks \/ overwrote' = overwrote
  BY DEF Next, Daemon, Outside, HandWrites, HandGivesUp, PackagesChange, SessionReads,
         SessionSaves, SessionWrites, SessionAsks, ReloadIsAsked, Crashes, DaemonStarts,
         LoadsRules, CopiesRules, ReloadResolves, ReloadFails, ReloadEnds, Checks, SyncLooks,
         SyncResolves, SyncFails, Migrate, SyncDone, SyncStep, Decision, Decides,
         ExtensionIsAsked, Reads, SaveBegins, SaveWritten, SaveFails, Answered, uiVars, vars
<1>1. CASE StoreQuiet /\ overwrote' = overwrote
  BY <1>1 DEF StoreQuiet
<1>2. CASE /\ overwrote' = overwrote
           /\ \/ \E content \in RuleSets : EditBegins(content)
              \/ EditEnds \/ EditBreaksOff \/ FileIsRemoved
  BY <1>2 DEF EditBegins, EditEnds, EditBreaksOff, FileIsRemoved, Written
<1>3. CASE overwrote' = overwrote /\ LoadRules
  BY <1>0, <1>3 DEF LoadRules, Load, AfterLoading
<1>4. CASE overwrote' = overwrote /\ ReloadReads
  BY <1>0, <1>4 DEF ReloadReads, Load
<1>5. CASE overwrote' = overwrote /\ (RefreshBackup \/ RefreshFails)
  BY <1>0, <1>5 DEF RefreshBackup, RefreshFails, BackupBecomes, AfterLoading
<1>6. CASE overwrote' = overwrote /\ (ReloadConfigures("stamp") \/ ReloadConfigures("idle"))
  BY <1>6 DEF ReloadConfigures
<1>7. CASE overwrote' = overwrote /\ \E next \in {"sync", "check", "idle"} : ReloadStamps(next)
  BY <1>7 DEF ReloadStamps
<1>8. CASE overwrote' = overwrote /\ (StoreStarts \/ TickChecks \/ ReloadRequested)
  BY <1>8 DEF StoreStarts, TickChecks, ReloadRequested
<1>9. CASE overwrote' = overwrote /\ StoreCrashes
  BY <1>0, <1>9 DEF StoreCrashes
<1>10. CASE Asks
  <2>1. PICK s \in Sessions : AsksApply(s)
    BY <1>10
  <2>2. /\ pc = "idle" /\ pc' = "parse" /\ live' = cand /\ kept' = kept \ Removed(s)
        /\ UNCHANGED <<backup, rules, source, behind>>
        /\ overwrote' = (overwrote \/ ~(kept \ Removed(s) \subseteq cand))
    BY <2>1 DEF AsksApply, Applies
  <2>. QED BY <2>2
<1>. QED BY <1>00, <1>1, <1>2, <1>3, <1>4, <1>5, <1>6, <1>7, <1>8, <1>9, <1>10, StepsOfStore

\* No sequence of edits, broken writes, saves, failed copies and restarts takes out of force
\* a rule nobody took out, but for the two ways the property names.
THEOREM KeptCorrect == Spec => []RulesAreKept
<1>1. Init => KeptInv
  BY DEF Init, StoreInit, UiInit, KeptInv, Usable
<1>2. TypeOK /\ KeptInv => RulesAreKept
  BY DEF KeptInv, RulesAreKept, TypeOK, StoreTypeOK, Sources, Usable
<1>. QED BY <1>1, <1>2, KeptInvStep, TypeCorrect, PTL DEF Spec

------------------------------------------------------------------------------
\* What a session shows is in force.

\* A session nobody interfered with shows, or has had applied, what is in the file, and the
\* candidate it has written is its own, or spoiled.
ShownInv ==
    \A s \in Sessions : ui[s].current =>
        /\ ui[s].pc \in {"open", "waiting"} => live = ui[s].model
        /\ ui[s].pc = "written" => cand \in {ui[s].model, Torn}

\* The daemon works for a session that waits for it.
WaitingInv == job \in Sessions => ui[job].pc = "waiting"

ViewInv == ShownInv /\ WaitingInv

\* Steps after which the file, the candidate, and what the sessions show are what they were.
LEMMA ViewUnchanged ==
    ASSUME ViewInv, UNCHANGED <<live, uiVars>>, job' \in {job, "start", "tick", "reload"}
    PROVE  ViewInv'
BY UserDataAssumption DEF UserDataAssumption, ViewInv, ShownInv, WaitingInv, uiVars

\* Those a step interferes with are no longer current; nothing else of a session changes.
LEMMA InterferesIs ==
    ASSUME UiTypeOK, NEW others, NEW s \in Sessions
    PROVE  /\ Interferes(ui, others)[s].pc = ui[s].pc
           /\ Interferes(ui, others)[s].model = ui[s].model
           /\ Interferes(ui, others)[s].current = (ui[s].current /\ s \notin others)
           /\ Interferes(ui, others) \in
                [Sessions -> [pc : Steps, model : RuleSets, rule : Governed \cup {NoRule},
                              current : BOOLEAN]]
<1>1. ui \in [Sessions -> [pc : Steps, model : RuleSets, rule : Governed \cup {NoRule},
                           current : BOOLEAN]]
  BY DEF UiTypeOK
<1>2. Interferes(ui, others)[s] =
        IF s \in others THEN [ui[s] EXCEPT !.current = FALSE] ELSE ui[s]
  BY DEF Interferes
<1>. QED BY <1>1, <1>2 DEF Interferes

LEMMA ReadsView ==
    ASSUME TypeOK, ViewInv, NEW s \in Sessions, Reads(s, "closed") \/ Reads(s, "reread"),
           UNCHANGED storeVars
    PROVE  ViewInv'
<1>1. /\ ui' = [ui EXCEPT ![s] = [pc |-> "open", model |-> Shown, rule |-> NoRule,
                                  current |-> Usable(live)]]
      /\ cand' = cand /\ live' = live /\ job' = job /\ ui[s].pc \in {"closed", "reread"}
  BY DEF Reads, storeVars, files
<1>2. ui \in [Sessions -> [pc : Steps, model : RuleSets, rule : Governed \cup {NoRule},
                           current : BOOLEAN]]
  BY DEF TypeOK, UiTypeOK
<1>3. \A t \in Sessions \ {s} : ui'[t] = ui[t]
  BY <1>1, <1>2
<1>4. ui'[s].pc = "open" /\ ui'[s].model = Shown /\ ui'[s].current = Usable(live)
  BY <1>1, <1>2
<1>5. ShownInv'
  BY <1>1, <1>3, <1>4 DEF ViewInv, ShownInv, Shown
<1>6. WaitingInv'
  BY <1>1, <1>3 DEF ViewInv, WaitingInv
<1>. QED BY <1>5, <1>6 DEF ViewInv

LEMMA SaveBeginsView ==
    ASSUME TypeOK, ViewInv, NEW s \in Sessions, NEW p \in Governed, SaveBegins(s, p),
           UNCHANGED storeVars
    PROVE  ViewInv'
<1>. DEFINE views == Interferes(ui, Saving)
<1>0. UiTypeOK
  BY DEF TypeOK
<1>1. /\ ui' = [views EXCEPT ![s] =
                [pc |-> "writing", rule |-> p, current |-> views[s].current,
                 model |-> IF p \in views[s].model THEN views[s].model \ {p}
                           ELSE views[s].model \cup {p}]]
      /\ live' = live /\ job' = job /\ ui[s].pc = "open"
  BY DEF SaveBegins, storeVars, files
<1>2. \A t \in Sessions : /\ views[t].pc = ui[t].pc /\ views[t].model = ui[t].model
                          /\ views[t].current = (ui[t].current /\ t \notin Saving)
  BY <1>0, InterferesIs
<1>3. DOMAIN views = Sessions
  BY DEF Interferes
<1>. HIDE DEF views
<1>4. \A t \in Sessions \ {s} : ui'[t] = views[t]
  BY <1>1, <1>3
<1>5. ui'[s].pc = "writing"
  BY <1>1, <1>3
<1>6. ShownInv'
  <2>1. SUFFICES ASSUME NEW t \in Sessions, ui'[t].current
                 PROVE  /\ ui'[t].pc \in {"open", "waiting"} => live' = ui'[t].model
                        /\ ui'[t].pc = "written" => cand' \in {ui'[t].model, Torn}
    BY DEF ShownInv
  <2>2. CASE t = s
    BY <1>1, <1>5, <2>2
  <2>3. CASE t # s
    <3>1. ui'[t].pc = ui[t].pc /\ ui'[t].model = ui[t].model /\ ui[t].current /\ t \notin Saving
      BY <1>2, <1>4, <2>1, <2>3
    <3>2. ui[t].pc # "written"
      BY <3>1 DEF Saving
    <3>. QED BY <1>1, <3>1, <3>2 DEF ViewInv, ShownInv
  <2>. QED BY <2>2, <2>3
<1>7. WaitingInv'
  BY <1>1, <1>2, <1>4 DEF ViewInv, WaitingInv
<1>. QED BY <1>6, <1>7 DEF ViewInv

LEMMA SaveWrittenView ==
    ASSUME TypeOK, ViewInv, NEW s \in Sessions, SaveWritten(s), UNCHANGED storeVars
    PROVE  ViewInv'
<1>. DEFINE views == Interferes(ui, Saving \ {s})
<1>0. UiTypeOK
  BY DEF TypeOK
<1>1. /\ ui' = [views EXCEPT ![s].pc = "written"]
      /\ cand' \in {ui[s].model, Torn}
      /\ live' = live /\ job' = job /\ ui[s].pc = "writing"
  BY DEF SaveWritten, storeVars, files
<1>2. \A t \in Sessions : /\ views[t].pc = ui[t].pc /\ views[t].model = ui[t].model
                          /\ views[t].current = (ui[t].current /\ t \notin Saving \ {s})
  BY <1>0, InterferesIs
<1>3. views \in [Sessions -> [pc : Steps, model : RuleSets, rule : Governed \cup {NoRule},
                              current : BOOLEAN]]
  BY <1>0, InterferesIs
<1>. HIDE DEF views
<1>4. \A t \in Sessions \ {s} : ui'[t] = views[t]
  BY <1>1, <1>3
<1>5. ui'[s].pc = "written" /\ ui'[s].model = ui[s].model
  BY <1>1, <1>2, <1>3
<1>6. ShownInv'
  <2>1. SUFFICES ASSUME NEW t \in Sessions, ui'[t].current
                 PROVE  /\ ui'[t].pc \in {"open", "waiting"} => live' = ui'[t].model
                        /\ ui'[t].pc = "written" => cand' \in {ui'[t].model, Torn}
    BY DEF ShownInv
  <2>2. CASE t = s
    BY <1>1, <1>5, <2>2
  <2>3. CASE t # s
    <3>1. ui'[t].pc = ui[t].pc /\ ui'[t].model = ui[t].model /\ ui[t].current /\ t \notin Saving
      BY <1>2, <1>4, <2>1, <2>3
    <3>2. ui[t].pc # "written"
      BY <3>1 DEF Saving
    <3>. QED BY <1>1, <3>1, <3>2 DEF ViewInv, ShownInv
  <2>. QED BY <2>2, <2>3
<1>7. WaitingInv'
  BY <1>1, <1>2, <1>4 DEF ViewInv, WaitingInv
<1>. QED BY <1>6, <1>7 DEF ViewInv

LEMMA AsksApplyView ==
    ASSUME TypeOK, ViewInv, NEW s \in Sessions, AsksApply(s)
    PROVE  ViewInv'
<1>. DEFINE views == Interferes(ui, Sessions \ {s})
<1>0. UiTypeOK
  BY DEF TypeOK
<1>1. /\ ui' = [views EXCEPT ![s].pc = "waiting"]
      /\ cand' = cand /\ live' = cand /\ job' = s /\ ui[s].pc = "written" /\ cand # Torn
  BY DEF AsksApply, Applies, Acceptable, Usable
<1>2. \A t \in Sessions : /\ views[t].pc = ui[t].pc /\ views[t].model = ui[t].model
                          /\ views[t].current = (ui[t].current /\ t \notin Sessions \ {s})
  BY <1>0, InterferesIs
<1>3. views \in [Sessions -> [pc : Steps, model : RuleSets, rule : Governed \cup {NoRule},
                              current : BOOLEAN]]
  BY <1>0, InterferesIs
<1>. HIDE DEF views
<1>4. \A t \in Sessions \ {s} : ui'[t] = views[t]
  BY <1>1, <1>3
<1>5. /\ ui'[s].pc = "waiting" /\ ui'[s].model = ui[s].model
      /\ ui'[s].current = ui[s].current
  BY <1>0, <1>1, <1>2, <1>3 DEF UiTypeOK
<1>6. ShownInv'
  BY <1>1, <1>2, <1>4, <1>5 DEF ViewInv, ShownInv
<1>7. WaitingInv'
  BY <1>1, <1>5 DEF WaitingInv
<1>. QED BY <1>6, <1>7 DEF ViewInv

LEMMA SaveFailsView ==
    ASSUME TypeOK, ViewInv, NEW s \in Sessions, SaveFails(s)
    PROVE  ViewInv'
<1>1. /\ ui' = [ui EXCEPT ![s].pc = "reread"]
      /\ cand' = cand /\ live' = live /\ job' = job /\ ui[s].pc \in {"writing", "written"}
  BY DEF SaveFails, storeVars, files
<1>2. ui \in [Sessions -> [pc : Steps, model : RuleSets, rule : Governed \cup {NoRule},
                           current : BOOLEAN]]
  BY DEF TypeOK, UiTypeOK
<1>3. (\A t \in Sessions \ {s} : ui'[t] = ui[t]) /\ ui'[s].pc = "reread"
  BY <1>1, <1>2
<1>. QED BY <1>1, <1>3 DEF ViewInv, ShownInv, WaitingInv

LEMMA AnsweredView ==
    ASSUME TypeOK, ViewInv, NEW ok, Answered(ok), live' = live,
           job' \in {"start", "tick"}
    PROVE  ViewInv'
<1>1. job' \notin Sessions
  BY UserDataAssumption DEF UserDataAssumption
<1>2. ui \in [Sessions -> [pc : Steps, model : RuleSets, rule : Governed \cup {NoRule},
                           current : BOOLEAN]]
  BY DEF TypeOK, UiTypeOK
<1>3. SUFFICES ASSUME NEW s \in Sessions, ui'[s].current
               PROVE  /\ ui'[s].pc \in {"open", "waiting"} => live' = ui'[s].model
                      /\ ui'[s].pc = "written" => cand' \in {ui'[s].model, Torn}
  BY <1>1 DEF ViewInv, ShownInv, WaitingInv
<1>4. CASE s # job
  BY <1>2, <1>3, <1>4 DEF Answered, ViewInv, ShownInv
<1>5. CASE s = job
  <2>1. /\ ui'[s] = [ui[s] EXCEPT !.pc = IF ok THEN "open" ELSE "reread"]
        /\ ui[s].pc = "waiting"
    BY <1>5 DEF Answered, ViewInv, WaitingInv
  <2>2. /\ ui'[s].pc \in {"open", "reread"}
        /\ ui'[s].model = ui[s].model /\ ui'[s].current = ui[s].current
    BY <1>2, <2>1
  <2>. QED BY <1>3, <2>1, <2>2 DEF ViewInv, ShownInv
<1>. QED BY <1>4, <1>5

LEMMA HandWritesView ==
    ASSUME TypeOK, ViewInv, HandWrites
    PROVE  ViewInv'
<1>0. UiTypeOK
  BY DEF TypeOK
<1>1. ui' = Interferes(ui, Sessions) /\ job' = job
  BY DEF HandWrites, EditBegins, EditEnds, FileIsRemoved, Written
<1>2. \A t \in Sessions : ui'[t].pc = ui[t].pc /\ ~ui'[t].current
  BY <1>0, <1>1, InterferesIs
<1>. QED BY <1>1, <1>2 DEF ViewInv, ShownInv, WaitingInv

LEMMA ViewInvStep ==
    ASSUME TypeOK, ViewInv, [Next]_vars
    PROVE  ViewInv'
<1>1. CASE HandWrites
  BY <1>1, HandWritesView
<1>2. CASE HandGivesUp \/ PackagesChange
  BY <1>2, ViewUnchanged DEF HandGivesUp, PackagesChange, EditBreaksOff, storeVars, files
<1>3. CASE SessionReads
  BY <1>3, ReadsView DEF SessionReads
<1>4. CASE SessionSaves \/ SessionWrites
  BY <1>4, SaveBeginsView, SaveWrittenView DEF SessionSaves, SessionWrites
<1>5. CASE SessionAsks
  BY <1>5, AsksApplyView, SaveFailsView DEF SessionAsks
<1>6. CASE LoadsRules \/ CopiesRules
  BY <1>6, ViewUnchanged DEF LoadsRules, CopiesRules, LoadRules, ReloadReads, RefreshBackup,
                             RefreshFails, BackupBecomes, files
<1>7. CASE ReloadResolves
  BY <1>7, ViewUnchanged DEF ReloadResolves, ReloadConfigures, files
<1>8. CASE ReloadFails \/ ReloadEnds
  BY <1>8, AnsweredView DEF ReloadFails, ReloadEnds, ReloadConfigures, ReloadStamps, files
<1>9. CASE Crashes
  BY <1>9, AnsweredView DEF Crashes, StoreCrashes
<1>10. CASE Checks \/ ReloadIsAsked \/ DaemonStarts
  BY <1>10, ViewUnchanged DEF Checks, ReloadIsAsked, DaemonStarts, TickChecks,
                              ReloadRequested, StoreStarts, files
<1>11. CASE SyncLooks \/ SyncResolves \/ SyncFails \/ Migrate \/ SyncDone
  BY <1>11, ViewUnchanged DEF SyncLooks, SyncResolves, SyncFails, Migrate, SyncDone,
                              SyncStep, files
<1>12. CASE Decision \/ \E app \in Apps : ExtensionIsAsked(app)
  BY <1>12, ViewUnchanged DEF Decision, Decides, ExtensionIsAsked, files
<1>13. CASE UNCHANGED vars
  BY <1>13, ViewUnchanged DEF vars, storeVars, files
<1>. QED BY <1>1, <1>2, <1>3, <1>4, <1>5, <1>6, <1>7, <1>8, <1>9, <1>10, <1>11, <1>12, <1>13
         DEF Next, Daemon, Outside

\* Whoever else writes or saves, and whatever is refused or fails half way: a session that
\* believes it shows the rules in force does.
THEOREM ViewCorrect == Spec => []ViewIsCurrent
<1>1. Init => ViewInv
  BY UserDataAssumption DEF UserDataAssumption, Init, StoreInit, UiInit, ViewInv, ShownInv,
                            WaitingInv
<1>2. TypeOK /\ ViewInv /\ RulesInv => ViewIsCurrent
  BY RulesStoreAssumption DEF RulesStoreAssumption, ViewInv, ShownInv, RulesInv,
     ViewIsCurrent, TypeOK, UiTypeOK, RuleSets, Usable
<1>. QED BY <1>1, <1>2, ViewInvStep, RulesInvariant, TypeCorrect, PTL DEF Spec

------------------------------------------------------------------------------
\* What is kept by uid follows its app.

\* A map gives no uid to two apps.
OneAppEach(map) == \A a, b \in Apps : map[a] # NoUid /\ map[a] = map[b] => a = b

\* Entries hold nobody's time but that of the app a map gives their uid to.
OwnedIn(entries, map) == \A uid \in Uids : \A app \in entries[uid] : map[app] = uid

\* The time of some apps is where a map says.
ThereFor(apps, entries, map) == \A app \in apps : map[app] # NoUid /\ app \in entries[map[app]]

Owned ==
    /\ \A l \in Ledgers : OwnedIn(held[l], keyed)
    /\ \A l \in Moved : ThereFor(due[l], held[l], keyed)

DiskOwned ==
    /\ OwnedIn(disk.usage, disk.keyed)
    /\ OwnedIn(disk.granted, disk.keyed)
    /\ ThereFor(disk.due, disk.usage, disk.keyed)

\* While uids are migrated: an app that lost its uid loses it to nobody, and what it is owed
\* is at the old uid until its turn comes, and at the new one after.
Migrating ==
    /\ \A app \in Apps : keyed[app] \notin {NoUid, newUids[app]} =>
          /\ uidOf[app] = keyed[app]
          /\ \A other \in Apps \ {app} : newUids[other] # keyed[app]
    /\ \A l \in Ledgers, uid \in Uids : \A app \in held[l][uid] :
          uid = keyed[app] \/ (l \in Moved /\ uid = newUids[app] /\ app \notin todo)
    /\ \A l \in Moved : \A app \in due[l] :
          newUids[app] # NoUid =>
              app \in held[l][IF app \in todo THEN keyed[app] ELSE newUids[app]]

\* The maps, whether or not the books are crossed.
MapsInv ==
    /\ Distinct(list)
    /\ OneAppEach(keyed) /\ OneAppEach(newUids) /\ OneAppEach(disk.keyed)
    /\ uidOf \in {NoMap, keyed}
    /\ pc = "down" => uidOf = NoMap
    /\ \A app \in todo : newUids[app] \notin {NoUid, uidOf[app]}

OwnInv ==
    /\ ~disk.crossed => DiskOwned
    /\ ~crossed => IF pc = "migrate" THEN Migrating ELSE Owned

StateInv == MapsInv /\ OwnInv

LEMMA NoUidIsNone == NoUid \notin Uids
BY PackagesAssumption DEF PackagesAssumption, NoUid, Uids

LEMMA ResolvesOneEach ==
    ASSUME list \in Lists, Distinct(list)
    PROVE  OneAppEach(ResolveUids)
<1>. SUFFICES ASSUME NEW a \in Apps, NEW b \in Apps,
                     ResolveUids[a] # NoUid, ResolveUids[a] = ResolveUids[b]
              PROVE  a = b
  BY DEF OneAppEach
<1>1. /\ a = <<a[1], a[2]>> /\ a[1] \in Users /\ a[2] \in Pkgs
      /\ b = <<b[1], b[2]>> /\ b[1] \in Users /\ b[2] \in Pkgs
  BY DEF Apps
<1>2. ResolveUids[a] = <<a[1], list[a[2]]>> /\ list[a[2]] # NoId
  BY DEF ResolveUids, UidIn
<1>3. ResolveUids[b] = <<b[1], list[b[2]]>>
  BY DEF ResolveUids, UidIn
<1>4. a[1] = b[1] /\ list[a[2]] = list[b[2]]
  <2>1. <<a[1], list[a[2]]>> = <<b[1], list[b[2]]>>
    BY <1>2, <1>3, Zenon
  <2>2. ASSUME NEW v, NEW w, NEW x, NEW y, <<v, w>> = <<x, y>>
        PROVE  v = x /\ w = y
    BY <2>2, SMT
  <2>. QED BY <2>1, <2>2
<1>5. a[2] = b[2]
  BY <1>1, <1>2, <1>4 DEF Distinct
<1>. QED BY <1>1, <1>4, <1>5

LEMMA NoMapOneEach == OneAppEach(NoMap)
BY DEF OneAppEach, NoMap

\* The map the entries were made by is the one in force, where that gives anybody a uid.
LEMMA UidOfIsKeyed ==
    ASSUME MapsInv, NEW app \in Apps, uidOf[app] # NoUid
    PROVE  uidOf = keyed
BY DEF MapsInv, NoMap

LEMMA StateInit == Init => StateInv
<1>. SUFFICES ASSUME Init PROVE StateInv
  OBVIOUS
<1>1. Distinct(list)
  BY UserDataAssumption DEF UserDataAssumption, Init, PackagesInit
<1>2. /\ keyed = NoMap /\ newUids = NoMap /\ uidOf = NoMap /\ todo = {}
      /\ held = NothingHeld /\ due = NobodyDue /\ disk = NothingSaved /\ pc = "down"
  BY DEF Init, PackagesInit, StoreInit
<1>3. MapsInv
  BY <1>1, <1>2, NoMapOneEach DEF MapsInv, NothingSaved
<1>4. Owned
  BY <1>2 DEF Owned, OwnedIn, ThereFor, NothingHeld, NobodyDue
<1>5. DiskOwned
  BY <1>2 DEF DiskOwned, OwnedIn, ThereFor, NothingSaved
<1>. QED BY <1>2, <1>3, <1>4, <1>5 DEF StateInv, OwnInv

\* reload's map changes nothing for anybody, or the books are crossed.
LEMMA ReplaceOwned ==
    ASSUME TypeOK, MapsInv, OwnInv, pc # "migrate", MapIsReplaced, ~crossed'
    PROVE  Owned'
<1>1. Owned /\ Displaced(ResolveUids) = {}
  BY DEF OwnInv, MapIsReplaced
<1>2. keyed' = ResolveUids /\ UNCHANGED <<held, due>>
  BY DEF MapIsReplaced
<1>3. \A app \in Apps : keyed[app] # NoUid => ResolveUids[app] = keyed[app]
  BY <1>1 DEF Displaced
<1>4. \A l \in Ledgers : held[l] \in Entries
  BY BookTypes DEF TypeOK, PackagesTypeOK
<1>5. \A l \in Ledgers : OwnedIn(held[l], keyed')
  BY <1>1, <1>2, <1>3, <1>4, NoUidIsNone DEF Owned, OwnedIn, Entries
<1>6. \A l \in Moved : due[l] \in SUBSET Apps
  BY DEF TypeOK, PackagesTypeOK
<1>7. \A l \in Moved : ThereFor(due[l], held[l], keyed')
  BY <1>1, <1>2, <1>3, <1>6 DEF Owned, ThereFor
<1>. QED BY <1>2, <1>5, <1>7 DEF Owned

\* sync_packages reads the list, and finds what it has to move.
LEMMA ReadsMigrating ==
    ASSUME TypeOK, MapsInv, OwnInv, pc # "migrate", SyncReads, ~crossed'
    PROVE  Migrating'
<1>1. Owned /\ ~crossed
  BY DEF OwnInv, SyncReads
<1>2. /\ newUids' = ResolveUids /\ UNCHANGED <<uidOf, held, due, keyed>>
      /\ todo' = {app \in Apps : /\ uidOf[app] # NoUid
                                 /\ ResolveUids[app] \notin {NoUid, uidOf[app]}}
  BY DEF SyncReads
<1>3. \A app \in Displaced(ResolveUids) : uidOf[app] = keyed[app] /\ ~PassedOn(app)
  BY DEF SyncReads
<1>4. \A app \in Apps : keyed[app] \notin {NoUid, ResolveUids[app]} =>
          /\ uidOf[app] = keyed[app]
          /\ \A other \in Apps \ {app} : ResolveUids[other] # keyed[app]
  BY <1>2, <1>3 DEF Displaced, PassedOn
<1>5. \A l \in Ledgers, uid \in Uids : \A app \in held[l][uid] : uid = keyed[app]
  BY <1>1 DEF Owned, OwnedIn
<1>6. ASSUME NEW l \in Moved, NEW app \in due[l], ResolveUids[app] # NoUid
      PROVE  app \in held[l][IF app \in todo' THEN keyed[app] ELSE ResolveUids[app]]
  <2>1. app \in Apps
    BY DEF TypeOK, PackagesTypeOK
  <2>2. keyed[app] # NoUid /\ app \in held[l][keyed[app]]
    BY <1>1, <1>6 DEF Owned, ThereFor
  <2>3. app \notin todo' => keyed[app] = ResolveUids[app]
    BY <1>2, <1>4, <1>6, <2>1, <2>2
  <2>. QED BY <2>2, <2>3
<1>. QED BY <1>2, <1>4, <1>5, <1>6 DEF Migrating

\* One app's entries move: nobody else's are there, at the old uid or at the new one.
LEMMA MovesMigrating ==
    ASSUME TypeInv, MapsInv, Migrating, NEW app \in Apps, Migrates(app)
    PROVE  Migrating'
<1>. DEFINE from == keyed[app]
            to == newUids[app]
<1>1. uidOf[app] # NoUid /\ uidOf = keyed /\ from # NoUid /\ to # NoUid /\ from # to
  <2>1. app \in todo /\ uidOf[app] # NoUid
    BY DEF Migrates, TypeInv, TodoInv
  <2>2. uidOf = keyed
    BY <2>1, UidOfIsKeyed
  <2>. QED BY <2>1, <2>2 DEF MapsInv
<1>2. /\ app \in todo /\ todo' = todo \ {app}
      /\ UNCHANGED <<newUids, uidOf, keyed, due>>
      /\ \A l \in Ledgers : held'[l] = IF l \in Moved THEN Move(held[l], from, to) ELSE held[l]
  BY <1>1 DEF Migrates
<1>3. \A l \in Ledgers : held[l] \in Entries
  BY BookTypes DEF TypeInv, TypeOK, PackagesTypeOK
<1>4. from \in Uids /\ to \in Uids
  BY <1>1 DEF TypeInv, TypeOK, PackagesTypeOK, Maps
<1>5. \A other \in Apps \ {app} : newUids[other] # from
  BY <1>1 DEF Migrating
<1>6. \A other \in Apps : keyed[other] = from => other = app
  BY <1>1 DEF MapsInv, OneAppEach
<1>7. \A other \in Apps : newUids[other] = to => other = app
  BY <1>1 DEF MapsInv, OneAppEach
<1>8. \A other \in todo : keyed[other] # to
  <2>1. SUFFICES ASSUME NEW other \in todo, keyed[other] = to PROVE FALSE
    OBVIOUS
  <2>2. other \in Apps /\ newUids[other] \notin {NoUid, keyed[other]} /\ keyed[other] # NoUid
    BY <1>1 DEF TypeInv, TypeOK, PackagesTypeOK, TodoInv, MapsInv
  <2>3. other # app
    BY <1>1, <2>1
  <2>4. \A b \in Apps \ {other} : newUids[b] # keyed[other]
    BY <2>2 DEF Migrating
  <2>. QED BY <2>1, <2>3, <2>4
<1>9. Moved \subseteq Ledgers
  BY DEF Moved, Ledgers
<1>. HIDE DEF from, to
<1>10. ASSUME NEW l \in Ledgers, NEW uid \in Uids, NEW b \in held'[l][uid]
       PROVE  uid = keyed[b] \/ (l \in Moved /\ uid = newUids[b] /\ b \notin todo')
  <2>1. CASE l \notin Moved \/ held[l][from] = {}
    <3>1. held'[l] = held[l]
      BY <1>2, <2>1 DEF Move
    <3>. QED BY <1>2, <1>10, <3>1 DEF Migrating
  <2>2. CASE l \in Moved /\ held[l][from] # {}
    <3>1. held'[l] = [held[l] EXCEPT ![to] = held[l][from], ![from] = {}]
      BY <1>2, <2>2 DEF Move
    <3>2. uid # from
      BY <1>3, <1>4, <1>10, <3>1 DEF Entries
    <3>3. CASE uid = to
      <4>1. b \in held[l][from]
        BY <1>3, <1>4, <1>10, <3>1, <3>2, <3>3 DEF Entries
      <4>2. b \in Apps
        BY <1>3, <1>4, <4>1 DEF Entries
      <4>3. from = keyed[b] \/ (from = newUids[b] /\ b \notin todo)
        BY <1>4, <4>1 DEF Migrating
      <4>4. b = app
        BY <1>2, <1>5, <1>6, <4>2, <4>3
      <4>. QED BY <1>2, <2>2, <3>3, <4>4 DEF to
    <3>4. CASE uid # to
      <4>1. b \in held[l][uid]
        BY <1>3, <1>4, <1>10, <3>1, <3>2, <3>4 DEF Entries
      <4>. QED BY <1>2, <4>1 DEF Migrating
    <3>. QED BY <3>3, <3>4
  <2>. QED BY <2>1, <2>2
<1>11. ASSUME NEW l \in Moved, NEW b \in due[l], newUids[b] # NoUid
       PROVE  b \in held'[l][IF b \in todo' THEN keyed[b] ELSE newUids[b]]
  <2>. DEFINE at == IF b \in todo THEN keyed[b] ELSE newUids[b]
  <2>1. b \in Apps /\ b \in held[l][at]
    BY <1>11 DEF Migrating, TypeInv, TypeOK, PackagesTypeOK
  <2>2. CASE b = app
    <3>1. b \in held[l][from]
      BY <1>2, <2>1, <2>2 DEF from
    <3>2. held'[l] = [held[l] EXCEPT ![to] = held[l][from], ![from] = {}]
      BY <1>2, <1>9, <3>1 DEF Move
    <3>3. held'[l][to] = held[l][from]
      BY <1>1, <1>3, <1>4, <1>9, <3>2 DEF Entries, from, to
    <3>. QED BY <1>2, <2>2, <3>1, <3>3 DEF to
  <2>3. CASE b # app
    <3>1. at = IF b \in todo' THEN keyed[b] ELSE newUids[b]
      BY <1>2, <2>3
    <3>2. at # from /\ at # to
      BY <1>5, <1>6, <1>7, <1>8, <2>1, <2>3
    <3>3. at \in Uids
      BY <1>1, <1>11, <2>1 DEF TypeInv, TypeOK, PackagesTypeOK, TodoInv, Maps
    <3>. HIDE DEF at
    <3>4. held[l] \in Entries /\ (held'[l] = held[l] \/ held'[l] = Move(held[l], from, to))
      BY <1>2, <1>3, <1>9
    <3>5. held'[l][at] = held[l][at]
      BY <3>2, <3>3, <3>4 DEF Move, Entries
    <3>. QED BY <2>1, <3>1, <3>5
  <2>. QED BY <2>2, <2>3
<1>12. \A b \in Apps : keyed[b] \notin {NoUid, newUids[b]} =>
          /\ uidOf[b] = keyed[b]
          /\ \A other \in Apps \ {b} : newUids[other] # keyed[b]
  BY DEF Migrating
<1>. QED BY <1>2, <1>10, <1>11, <1>12 DEF Migrating

\* When all have moved, what stays is under the new map.
LEMMA EndsOwned ==
    ASSUME TypeOK, MapsInv, Migrating, SyncEnds
    PROVE  Owned'
<1>1. /\ todo = {} /\ keyed' = newUids
      /\ held' = [l \in Ledgers |-> Retained(held[l])]
      /\ due' = [l \in Moved |-> {app \in due[l] : newUids[app] # NoUid}]
  BY DEF SyncEnds
<1>2. \A l \in Ledgers : held[l] \in Entries
  BY BookTypes DEF TypeOK, PackagesTypeOK
<1>3. newUids \in Maps /\ keyed \in Maps
  BY DEF TypeOK, PackagesTypeOK
<1>4. ASSUME NEW l \in Ledgers, NEW uid \in Uids, NEW app \in held'[l][uid]
      PROVE  newUids[app] = uid
  <2>1. uid \in Live(newUids) /\ app \in held[l][uid]
    BY <1>1, <1>4 DEF Retained
  <2>2. app \in Apps
    BY <1>2, <2>1 DEF Entries
  <2>3. uid = keyed[app] \/ uid = newUids[app]
    BY <2>1 DEF Migrating
  <2>4. CASE uid = keyed[app] /\ newUids[app] # uid
    <3>1. keyed[app] \notin {NoUid, newUids[app]}
      BY <2>4, NoUidIsNone
    <3>2. PICK other \in Apps : newUids[other] = uid
      BY <2>1 DEF Live
    <3>. QED BY <2>2, <2>4, <3>1, <3>2 DEF Migrating
  <2>. QED BY <2>3, <2>4
<1>5. ASSUME NEW l \in Moved, NEW app \in due'[l]
      PROVE  newUids[app] # NoUid /\ app \in held'[l][newUids[app]]
  <2>1. app \in due[l] /\ newUids[app] # NoUid /\ app \in Apps
    BY <1>1, <1>5 DEF TypeOK, PackagesTypeOK
  <2>2. app \in held[l][newUids[app]]
    BY <1>1, <2>1 DEF Migrating
  <2>3. newUids[app] \in Live(newUids) /\ newUids[app] \in Uids /\ l \in Ledgers
    BY <1>3, <2>1 DEF Live, Maps, Moved, Ledgers
  <2>4. held'[l] = Retained(held[l])
    BY <1>1, <2>3
  <2>. QED BY <2>1, <2>2, <2>3, <2>4 DEF Retained
<1>. QED BY <1>1, <1>4, <1>5 DEF Owned, OwnedIn, ThereFor

\* What a tick credits is credited to whom the map gives the uid, or the books are crossed.
LEMMA DecidesOwned ==
    ASSUME TypeOK, MapsInv, OwnInv, NEW running \in SUBSET Installed, NEW newDay \in BOOLEAN,
           NEW saves \in BOOLEAN, Decides(running, newDay, saves)
    PROVE  OwnInv' /\ OneAppEach(disk'.keyed)
<1>. DEFINE books == IF newDay THEN NothingHeld ELSE held
            owed == IF newDay THEN NobodyDue ELSE due
<1>1. /\ held' = [books EXCEPT !["usage"] = Credited(books["usage"], running, Targets)]
      /\ due' = [owed EXCEPT !["usage"] = owed["usage"] \cup Counted(running)]
      /\ pc = "decide" /\ pc' = "idle" /\ keyed' = keyed
  BY DEF Decides
<1>2. disk' = IF saves THEN [usage |-> held'["usage"], granted |-> held'["granted"],
                             due |-> due'["usage"], keyed |-> keyed, crossed |-> crossed']
              ELSE IF newDay THEN NothingSaved ELSE disk
  BY DEF Decides
<1>3. crossed' = ((crossed /\ ~newDay) \/ Mistaken(running) # {})
  BY DEF Decides
<1>4. /\ books \in Books /\ owed \in [Moved -> SUBSET Apps] /\ keyed \in Maps
      /\ crossed \in BOOLEAN
  BY NothingType DEF TypeOK, PackagesTypeOK
<1>5. ~crossed' => \A l \in Ledgers : OwnedIn(books[l], keyed)
  BY <1>1, <1>3, <1>4 DEF OwnInv, Owned, OwnedIn, NothingHeld
<1>6. ~crossed' => \A l \in Moved : ThereFor(owed[l], books[l], keyed)
  BY <1>1, <1>3, <1>4 DEF OwnInv, Owned, ThereFor, NobodyDue
<1>7. Targets \subseteq Uids /\ NoUid \notin Targets
  BY DEF Targets, TypeOK, PackagesTypeOK, Maps
<1>8. \A app \in Apps : uidOf[app] \in Targets => uidOf[app] = keyed[app]
  BY <1>7, UidOfIsKeyed
<1>9. ~crossed' => \A app \in running : ResolveUids[app] \in Targets =>
                                            ResolveUids[app] = keyed[app]
  BY <1>3, <1>8 DEF Mistaken, Installed
<1>. DEFINE usage == Credited(books["usage"], running, Targets)
            counted == Counted(running)
<1>10. "usage" \in Ledgers /\ "usage" \in Moved /\ Moved \subseteq Ledgers
       /\ "granted" \in Ledgers
  BY DEF Ledgers, Moved
<1>11. ~crossed' => OwnedIn(usage, keyed)
  <2>1. SUFFICES ASSUME ~crossed', NEW uid \in Uids, NEW app \in usage[uid]
                 PROVE  keyed[app] = uid
    BY DEF OwnedIn
  <2>2. app \in books["usage"][uid] \/ (uid \in Targets /\ app \in running /\ ResolveUids[app] = uid)
    BY <2>1 DEF Credited
  <2>. QED BY <1>5, <1>9, <1>10, <2>1, <2>2 DEF OwnedIn
<1>12. ~crossed' => ThereFor(owed["usage"] \cup counted, usage, keyed)
  <2>1. SUFFICES ASSUME ~crossed', NEW app \in owed["usage"] \cup counted
                 PROVE  keyed[app] # NoUid /\ app \in usage[keyed[app]]
    BY DEF ThereFor
  <2>2. CASE app \in owed["usage"]
    <3>1. keyed[app] # NoUid /\ app \in books["usage"][keyed[app]]
      BY <1>6, <1>10, <2>1, <2>2 DEF ThereFor
    <3>2. keyed[app] \in Uids
      BY <1>4, <1>10, <2>2, <3>1 DEF Maps
    <3>. QED BY <3>1, <3>2 DEF Credited
  <2>3. CASE app \in counted
    <3>1. app \in running /\ app \in Apps /\ uidOf[app] \in Targets /\ ResolveUids[app] = uidOf[app]
      BY <2>3 DEF Counted, Installed
    <3>2. keyed[app] \in Targets /\ ResolveUids[app] = keyed[app]
      BY <1>8, <3>1
    <3>. QED BY <1>7, <3>1, <3>2 DEF Credited
  <2>. QED BY <2>1, <2>2, <2>3
<1>. HIDE DEF books, owed, usage, counted
<1>13. \A l \in Ledgers : held'[l] = IF l = "usage" THEN usage ELSE books[l]
  BY <1>1, <1>4 DEF Books, usage
<1>14. \A l \in Moved : due'[l] = IF l = "usage" THEN owed["usage"] \cup counted ELSE owed[l]
  BY <1>1, <1>4 DEF counted
<1>15. ~crossed' => Owned'
  BY <1>1, <1>5, <1>6, <1>10, <1>11, <1>12, <1>13, <1>14 DEF Owned
<1>16. ~disk'.crossed => DiskOwned'
  <2>1. CASE saves
    <3>1. /\ disk'.usage = held'["usage"] /\ disk'.granted = held'["granted"]
          /\ disk'.due = due'["usage"] /\ disk'.keyed = keyed /\ disk'.crossed = crossed'
      BY <1>2, <2>1
    <3>. QED BY <1>1, <1>10, <1>15, <3>1 DEF Owned, DiskOwned
  <2>2. CASE ~saves /\ newDay
    BY <1>2, <2>2 DEF NothingSaved, DiskOwned, OwnedIn, ThereFor
  <2>3. CASE ~saves /\ ~newDay
    BY <1>2, <2>3 DEF OwnInv, DiskOwned
  <2>. QED BY <2>1, <2>2, <2>3
<1>17. OneAppEach(disk'.keyed)
  BY <1>2, NoMapOneEach DEF MapsInv, NothingSaved
<1>. QED BY <1>1, <1>15, <1>16, <1>17 DEF OwnInv

\* An extension is kept where the app's usage is.
LEMMA ExtensionOwned ==
    ASSUME TypeOK, MapsInv, OwnInv, NEW app \in Apps, ExtensionIsAsked(app)
    PROVE  OwnInv'
<1>1. /\ held' = [held EXCEPT !["extension"] = Extended("extension", app),
                              !["granted"] = Extended("granted", app)]
      /\ due' = [due EXCEPT !["extension"] = due["extension"] \cup {app}]
      /\ pc = "idle" /\ pc' = "check" /\ UNCHANGED <<keyed, crossed, disk>>
      /\ uidOf[app] # NoUid
  BY DEF ExtensionIsAsked
<1>2. uidOf = keyed
  BY <1>1, UidOfIsKeyed
<1>3. held \in Books /\ due \in [Moved -> SUBSET Apps] /\ keyed[app] \in Uids
  BY <1>1, <1>2 DEF TypeOK, PackagesTypeOK, Maps
<1>4. \A l \in Ledgers : held'[l] = held[l] \/ held'[l] = [held[l] EXCEPT ![keyed[app]] = held[l][keyed[app]] \cup {app}]
  BY <1>1, <1>2, <1>3 DEF Books, Extended, Ledgers
<1>5. \A l \in Ledgers, uid \in Uids : /\ held[l][uid] \subseteq held'[l][uid]
                                       /\ held'[l][uid] \subseteq held[l][uid] \cup {app}
                                       /\ uid # keyed[app] => held'[l][uid] = held[l][uid]
  <2>1. SUFFICES ASSUME NEW l \in Ledgers, NEW uid \in Uids
                 PROVE  /\ held[l][uid] \subseteq held'[l][uid]
                        /\ held'[l][uid] \subseteq held[l][uid] \cup {app}
                        /\ uid # keyed[app] => held'[l][uid] = held[l][uid]
    OBVIOUS
  <2>2. held[l] \in Entries
    BY <1>3, BookTypes
  <2>3. CASE held'[l] = held[l]
    BY <2>3
  <2>4. CASE held'[l] = [held[l] EXCEPT ![keyed[app]] = held[l][keyed[app]] \cup {app}]
    <3>1. held'[l][uid] = IF uid = keyed[app] THEN held[l][uid] \cup {app} ELSE held[l][uid]
      BY <2>2, <2>4 DEF Entries
    <3>. QED BY <3>1
  <2>. QED BY <1>4, <2>3, <2>4
<1>6. app \in held'["extension"][keyed[app]]
  <2>1. held'["extension"] = [held["extension"] EXCEPT ![keyed[app]] = held["extension"][keyed[app]] \cup {app}]
    BY <1>1, <1>2, <1>3 DEF Books, Extended, Ledgers
  <2>2. held["extension"] \in Entries
    BY <1>3, BookTypes DEF Ledgers
  <2>. QED BY <1>3, <2>1, <2>2 DEF Entries
<1>7. ASSUME ~crossed PROVE Owned'
  <2>1. Owned
    BY <1>1, <1>7 DEF OwnInv
  <2>2. \A l \in Ledgers : OwnedIn(held'[l], keyed)
    BY <1>5, <2>1 DEF Owned, OwnedIn
  <2>3. ASSUME NEW l \in Moved, NEW b \in due'[l]
        PROVE  keyed[b] # NoUid /\ b \in held'[l][keyed[b]]
    <3>1. l \in Ledgers
      BY DEF Moved, Ledgers
    <3>2. b \in due[l] \/ (l = "extension" /\ b = app)
      BY <1>1, <1>3, <2>3 DEF Moved
    <3>3. CASE b \in due[l]
      <4>1. keyed[b] # NoUid /\ b \in held[l][keyed[b]] /\ b \in Apps
        BY <1>3, <2>1, <3>3 DEF Owned, ThereFor
      <4>2. keyed[b] \in Uids
        BY <4>1 DEF TypeOK, PackagesTypeOK, Maps
      <4>. QED BY <1>5, <3>1, <4>1, <4>2
    <3>4. CASE l = "extension" /\ b = app
      BY <1>1, <1>2, <1>6, <3>4
    <3>. QED BY <3>2, <3>3, <3>4
  <2>. QED BY <1>1, <2>2, <2>3 DEF Owned, ThereFor
<1>8. DiskOwned' <=> DiskOwned
  BY <1>1 DEF DiskOwned
<1>. QED BY <1>1, <1>7, <1>8 DEF OwnInv

\* What is restored is as it was saved.
LEMMA StartsOwned ==
    ASSUME TypeOK, MapsInv, OwnInv, DaemonStarts
    PROVE  OwnInv' /\ OneAppEach(keyed')
<1>1. PICK saved \in {disk, NothingSaved} :
          /\ held' = [usage |-> saved.usage, extension |-> [uid \in Uids |-> {}],
                      granted |-> saved.granted]
          /\ due' = [usage |-> saved.due, extension |-> {}]
          /\ keyed' = saved.keyed
          /\ crossed' = saved.crossed
  BY DEF DaemonStarts
<1>2. pc' = "load" /\ disk' = disk
  BY DEF DaemonStarts, StoreStarts
<1>3. OneAppEach(saved.keyed)
  BY NoMapOneEach DEF MapsInv, NothingSaved
<1>4. ~saved.crossed => /\ OwnedIn(saved.usage, saved.keyed)
                        /\ OwnedIn(saved.granted, saved.keyed)
                        /\ ThereFor(saved.due, saved.usage, saved.keyed)
  BY DEF OwnInv, DiskOwned, NothingSaved, OwnedIn, ThereFor
<1>5. OwnedIn([uid \in Uids |-> {}], saved.keyed)
  BY DEF OwnedIn
<1>6. /\ held'["usage"] = saved.usage /\ held'["granted"] = saved.granted
      /\ held'["extension"] = [uid \in Uids |-> {}]
      /\ due'["usage"] = saved.due /\ due'["extension"] = {}
  BY <1>1
<1>7. ~crossed' => Owned'
  BY <1>1, <1>4, <1>5, <1>6 DEF Owned, ThereFor, Ledgers, Moved
<1>8. DiskOwned' <=> DiskOwned
  BY <1>2 DEF DiskOwned
<1>. QED BY <1>1, <1>2, <1>3, <1>7, <1>8 DEF OwnInv

LEMMA MapsStep ==
    ASSUME TypeInv, StateInv, [Next]_vars
    PROVE  MapsInv'
<1>. USE DEF StateInv, MapsInv
<1>0. list \in Lists
  BY DEF TypeInv, TypeOK, PackagesTypeOK
<1>1. CASE Quiet
  BY <1>1 DEF Quiet, Front, packageVars
<1>2. CASE PackagesChange
  BY <1>2 DEF PackagesChange, ListIsRewritten, storeVars
<1>3. CASE DaemonStarts
  <2>1. OneAppEach(keyed')
    BY <1>3, StartsOwned DEF TypeInv
  <2>2. /\ UNCHANGED <<list, uidOf, newUids, todo, disk>> /\ pc = "down" /\ pc' = "load"
    BY <1>3 DEF DaemonStarts, StoreStarts
  <2>. QED BY <2>1, <2>2
<1>4. CASE Crashes
  BY <1>4, NoMapOneEach DEF Crashes, StoreCrashes
<1>5. CASE ReloadResolves
  <2>1. OneAppEach(ResolveUids)
    BY <1>0, ResolvesOneEach
  <2>2. /\ uidOf' = ResolveUids /\ keyed' = ResolveUids /\ pc = "resolve" /\ pc' = "stamp"
        /\ UNCHANGED <<list, newUids, todo, disk>>
    BY <1>5 DEF ReloadResolves, ReloadConfigures, MapIsReplaced
  <2>3. todo = {}
    BY <2>2 DEF TypeInv, TodoInv
  <2>. QED BY <2>1, <2>2, <2>3
<1>6. CASE SyncLooks \/ SyncFails
  BY <1>6 DEF SyncLooks, SyncFails, SyncStep, packageVars
<1>7. CASE SyncResolves
  BY <1>0, <1>7, ResolvesOneEach DEF SyncResolves, SyncStep, SyncReads
<1>8. CASE Migrate
  BY <1>8 DEF Migrate, SyncStep, Migrates
<1>9. CASE SyncDone
  BY <1>9, NoMapOneEach DEF SyncDone, SyncStep, SyncEnds
<1>10. CASE Decision
  <2>1. PICK running \in SUBSET Installed, newDay \in BOOLEAN, saves \in BOOLEAN :
            Decides(running, newDay, saves)
    BY <1>10 DEF Decision
  <2>2. OneAppEach(disk'.keyed)
    BY <2>1, DecidesOwned DEF TypeInv
  <2>3. UNCHANGED <<list, uidOf, newUids, todo, keyed>> /\ pc' = "idle"
    BY <2>1 DEF Decides
  <2>. QED BY <2>2, <2>3
<1>11. CASE \E app \in Apps : ExtensionIsAsked(app)
  BY <1>11 DEF ExtensionIsAsked
<1>. QED BY <1>1, <1>2, <1>3, <1>4, <1>5, <1>6, <1>7, <1>8, <1>9, <1>10, <1>11,
            StepsOfPackages

LEMMA OwnStep ==
    ASSUME TypeInv, StateInv, [Next]_vars
    PROVE  OwnInv'
<1>0. TypeOK /\ MapsInv /\ OwnInv
  BY DEF TypeInv, StateInv
<1>1. CASE UNCHANGED <<held, due, keyed, crossed, disk, newUids, uidOf, todo>> /\
           (pc' = pc \/ (pc # "migrate" /\ pc' # "migrate"))
  BY <1>0, <1>1 DEF OwnInv, Owned, DiskOwned, Migrating
<1>2. CASE Quiet
  BY <1>1, <1>2 DEF Quiet, Front, packageVars
<1>3. CASE PackagesChange
  BY <1>1, <1>3 DEF PackagesChange, ListIsRewritten, storeVars
<1>4. CASE DaemonStarts
  BY <1>0, <1>4, StartsOwned
<1>5. CASE Crashes
  <2>1. /\ held' = NothingHeld /\ due' = NobodyDue /\ disk' = disk /\ pc' = "down"
        /\ keyed' = NoMap
    BY <1>5 DEF Crashes, StoreCrashes
  <2>2. Owned'
    BY <2>1 DEF Owned, OwnedIn, ThereFor, NothingHeld, NobodyDue
  <2>. QED BY <1>0, <2>1, <2>2 DEF OwnInv, DiskOwned
<1>6. CASE ReloadResolves
  <2>1. pc = "resolve" /\ pc' = "stamp" /\ disk' = disk /\ MapIsReplaced
    BY <1>6 DEF ReloadResolves, ReloadConfigures
  <2>2. ~crossed' => Owned'
    BY <1>0, <2>1, ReplaceOwned
  <2>. QED BY <1>0, <2>1, <2>2 DEF OwnInv, DiskOwned
<1>7. CASE SyncLooks \/ SyncFails
  BY <1>1, <1>7 DEF SyncLooks, SyncFails, SyncStep, packageVars
<1>8. CASE SyncResolves
  <2>1. pc = "read" /\ pc' = "migrate" /\ disk' = disk /\ SyncReads
    BY <1>8 DEF SyncResolves, SyncStep
  <2>2. ~crossed' => Migrating'
    BY <1>0, <2>1, ReadsMigrating
  <2>. QED BY <1>0, <2>1, <2>2 DEF OwnInv, DiskOwned
<1>9. CASE Migrate
  <2>1. PICK app \in Apps : Migrates(app)
    BY <1>9 DEF Migrate
  <2>2. pc = "migrate" /\ pc' = "migrate" /\ disk' = disk /\ crossed' = crossed
    BY <1>9, <2>1 DEF Migrate, SyncStep, Migrates
  <2>3. ~crossed => Migrating'
    BY <1>0, <2>1, <2>2, MovesMigrating DEF OwnInv
  <2>. QED BY <1>0, <2>2, <2>3 DEF OwnInv, DiskOwned
<1>10. CASE SyncDone
  <2>1. pc = "migrate" /\ pc' = "decide" /\ disk' = disk /\ crossed' = crossed /\ SyncEnds
    BY <1>10 DEF SyncDone, SyncStep, SyncEnds
  <2>2. ~crossed => Owned'
    BY <1>0, <2>1, EndsOwned DEF OwnInv
  <2>. QED BY <1>0, <2>1, <2>2 DEF OwnInv, DiskOwned
<1>11. CASE Decision
  BY <1>0, <1>11, DecidesOwned DEF Decision
<1>12. CASE \E app \in Apps : ExtensionIsAsked(app)
  BY <1>0, <1>12, ExtensionOwned
<1>. QED BY <1>2, <1>3, <1>4, <1>5, <1>6, <1>7, <1>8, <1>9, <1>10, <1>11, <1>12,
            StepsOfPackages

LEMMA StateFollows ==
    ASSUME TypeOK, ListInv, StateInv
    PROVE  StateFollowsItsApp
<1>1. SUFFICES ASSUME Synced, ~crossed, NEW app \in Installed
               PROVE  /\ \A l \in Ledgers : held[l][uidOf[app]] \subseteq {app}
                      /\ \A l \in Moved : app \in due[l] => app \in held[l][uidOf[app]]
  BY DEF StateFollowsItsApp
<1>2. pc = "idle" /\ ~unseenList
  BY <1>1 DEF Synced
<1>3. app \in Apps /\ uidOf[app] # NoUid
  BY <1>2 DEF Installed, ListInv
<1>4. uidOf = keyed /\ MapsInv
  BY <1>3, UidOfIsKeyed DEF StateInv
<1>5. uidOf[app] \in Uids
  BY <1>3 DEF TypeOK, PackagesTypeOK, Maps
<1>6. Owned
  BY <1>1, <1>2 DEF StateInv, OwnInv
<1>7. ASSUME NEW l \in Ledgers, NEW b \in held[l][uidOf[app]]
      PROVE  b = app
  <2>1. held[l] \in Entries
    BY BookTypes DEF TypeOK, PackagesTypeOK
  <2>2. b \in Apps /\ keyed[b] = uidOf[app]
    BY <1>5, <1>6, <1>7, <2>1 DEF Owned, OwnedIn, Entries
  <2>. QED BY <1>3, <1>4, <2>2 DEF MapsInv, OneAppEach
<1>8. \A l \in Moved : app \in due[l] => app \in held[l][uidOf[app]]
  BY <1>4, <1>6 DEF Owned, ThereFor
<1>. QED BY <1>7, <1>8

\* In whatever order apps are installed, synchronised, credited, extended, saved, restored
\* and migrated: unless the day's books are crossed, an entry is its app's, and is there.
THEOREM StateCorrect == Spec => []StateFollowsItsApp
<1>1. TypeInv /\ StateInv /\ [Next]_vars => StateInv'
  BY MapsStep, OwnStep DEF StateInv
<1>. QED BY <1>1, StateInit, StateFollows, TypeInvariant, TypeCorrect, ListInvariant,
            PTL DEF Spec
==============================================================================
