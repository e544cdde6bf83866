------------------------------- MODULE Packages -------------------------------
(***************************************************************************)
(* The package map and the state kept by uid (daemon/src/pm.rs;            *)
(* daemon/src/engine.rs sync_packages).                                    *)
(*                                                                         *)
(* The device writes packages.list; the daemon resolves it into a map from *)
(* apps (a user and a package) to uids, and moves what it keeps by uid     *)
(* when an app's uid has changed.  How much time an entry holds is left    *)
(* out: an entry is the set of apps whose time is in it, and there is no   *)
(* entry where the set is empty.                                           *)
(*                                                                         *)
(* "usage" stands for usage_seconds and usage_fg; "granted" for what is    *)
(* kept by uid but does not move with it: ext_granted_today,               *)
(* cooldown_until and kill_count.                                          *)
(***************************************************************************)
EXTENDS FiniteSets

CONSTANTS Pkgs,    \* packages
          Users,   \* Android users
          AppIds,  \* the app ids packages get, below 100000
          NoId     \* the package is not installed

ASSUME PackagesAssumption == NoId \notin AppIds /\ \A uid \in Users \X AppIds : uid # NoId

VARIABLES list,        \* packages.list: each package's app id
          unseenList,  \* the mtime of packages.list is not Engine.last_pkg_mtime
          uidOf,       \* Engine.uid_of
          newUids,     \* inside sync_packages: the new map
          todo,        \* inside sync_packages: the apps whose uid is still to be compared
          held,        \* what is kept by uid
          due,         \* history: the apps whose time since the day began is to be there
          keyed,       \* history: the map by which the entries were made
          crossed      \* history: a uid was given to another app unnoticed

packageVars == <<list, unseenList, uidOf, newUids, todo, held, due, keyed, crossed>>

------------------------------------------------------------------------------

Apps == Users \X Pkgs
Uids == Users \X AppIds
NoUid == NoId

Ledgers == {"usage", "extension", "granted"}
Moved == {"usage", "extension"}

\* keys_for and resolve_uids: a package has one uid for each user of the device.
UidIn(l, app) == IF l[app[2]] = NoId THEN NoUid ELSE <<app[1], l[app[2]]>>
ResolveUids == [app \in Apps |-> UidIn(list, app)]

NoMap == [app \in Apps |-> NoUid]
Live(map) == {map[app] : app \in Apps} \ {NoUid}
NothingHeld == [l \in Ledgers |-> [uid \in Uids |-> {}]]
NobodyDue == [l \in Moved |-> {}]

Maps == [Apps -> Uids \cup {NoUid}]
Books == [Ledgers -> [Uids -> SUBSET Apps]]
Lists == [Pkgs -> AppIds \cup {NoId}]

\* No two packages share an app id.
Distinct(l) == \A p, q \in Pkgs : p # q /\ l[p] # NoId => l[p] # l[q]

PackagesTypeOK ==
    /\ list \in Lists
    /\ {uidOf, newUids, keyed} \subseteq Maps
    /\ todo \subseteq Apps
    /\ held \in Books
    /\ due \in [Moved -> SUBSET Apps]
    /\ {unseenList, crossed} \subseteq BOOLEAN

PackagesInit(initial) ==
    /\ list = initial
    /\ unseenList = TRUE
    /\ uidOf = NoMap /\ newUids = NoMap /\ todo = {} /\ keyed = NoMap
    /\ held = NothingHeld /\ due = NobodyDue /\ crossed = FALSE

------------------------------------------------------------------------------

\* The package manager replaces packages.list: installs, removals and reinstalls, one or
\* several at once, with any free app ids.
ListIsRewritten(l) ==
    /\ l # list
    /\ Distinct(l)
    /\ list' = l
    /\ unseenList' = TRUE
    /\ UNCHANGED <<uidOf, newUids, todo, held, due, keyed, crossed>>

\* The apps whose entries are under a uid that a map no longer gives them.
Displaced(map) == {app \in Apps : keyed[app] \notin {NoUid, map[app]}}

\* reload takes the new map as it is: nothing is compared, nothing moved or dropped.
MapIsReplaced ==
    /\ uidOf' = ResolveUids
    /\ keyed' = ResolveUids
    /\ crossed' = (crossed \/ Displaced(ResolveUids) # {})
    /\ UNCHANGED <<list, unseenList, newUids, todo, held, due>>

\* The app whose uid the new map gives to another at the same time.
PassedOn(app) == \E other \in Apps \ {app} : newUids'[other] = keyed[app]

SyncReads ==
    /\ newUids' = ResolveUids
    /\ todo' = {app \in Apps : uidOf[app] # NoUid /\ ResolveUids[app] \notin {NoUid, uidOf[app]}}
    /\ crossed' = \/ crossed
                  \/ \E app \in Displaced(ResolveUids) : uidOf[app] # keyed[app] \/ PassedOn(app)
    /\ UNCHANGED <<list, uidOf, held, due, keyed>>

\* remove at the old uid, and insert at the new one if there was an entry.
Move(entries, from, to) ==
    IF entries[from] = {} THEN entries
    ELSE [entries EXCEPT ![to] = entries[from], ![from] = {}]

\* One round of the loop over the new map, in the order of its hashes.
Migrates(app) ==
    /\ app \in todo
    /\ todo' = todo \ {app}
    /\ held' = [l \in Ledgers |-> IF l \in Moved THEN Move(held[l], uidOf[app], newUids[app])
                                  ELSE held[l]]
    /\ UNCHANGED <<list, unseenList, uidOf, newUids, due, keyed, crossed>>

\* Mutant: entries of uninstalled apps are kept.
RetainedAll(entries) == entries

\* Mutant: what is dropped is decided by the map that has just been replaced.
RetainedByOldMap(entries) ==
    [uid \in Uids |-> IF uid \in Live(uidOf) THEN entries[uid] ELSE {}]

Retained(entries) == [uid \in Uids |-> IF uid \in Live(newUids) THEN entries[uid] ELSE {}]

\* Mutant: the mtime is remembered when the map is in force, not before it is read.
SyncEndsWithMtime ==
    /\ todo = {}
    /\ uidOf' = newUids
    /\ keyed' = newUids
    /\ newUids' = NoMap
    /\ held' = [l \in Ledgers |-> Retained(held[l])]
    /\ due' = [l \in Moved |-> {app \in due[l] : newUids[app] # NoUid}]
    /\ unseenList' = FALSE
    /\ UNCHANGED <<list, todo, crossed>>

\* The new map is in force, and what is kept for a uid nobody has is dropped.
SyncEnds ==
    /\ todo = {}
    /\ uidOf' = newUids
    /\ keyed' = newUids
    /\ newUids' = NoMap
    /\ held' = [l \in Ledgers |-> Retained(held[l])]
    /\ due' = [l \in Moved |-> {app \in due[l] : newUids[app] # NoUid}]
    /\ UNCHANGED <<list, unseenList, todo, crossed>>

\* Time spent by running apps is credited to the uid the kernel knows them by, of those
\* some rule asks about (duration_targets, uids_snapshot).
Credited(entries, running, targets) ==
    [uid \in Uids |-> IF uid \in targets
                      THEN entries[uid] \cup {app \in running : ResolveUids[app] = uid}
                      ELSE entries[uid]]

\* add_extension, for an app.
Extended(l, app) == [held[l] EXCEPT ![uidOf[app]] = @ \cup {app}]
==============================================================================
