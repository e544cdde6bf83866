------------------------------ MODULE RulesStore ------------------------------
(***************************************************************************)
(* The rules file, its copies, and how the daemon loads them               *)
(* (daemon/src/engine.rs load_rules, refresh_backup, apply_rules_file and  *)
(* reload; daemon/src/rules.rs; daemon/src/config.rs).                     *)
(*                                                                         *)
(* rules.json may be written at any moment by hand, and is replaced by the *)
(* daemon when it applies a candidate.  Loading it is several steps: read, *)
(* copy to rules.json.ok, resolve what the rules name, remember the mtime. *)
(* A rule set is the set of packages it has a rule for, after sanitize,    *)
(* with a mark when the file claims a newer schema version.                *)
(***************************************************************************)
CONSTANTS Governed, \* the packages a rule may be about
          Newer,    \* the mark of a file that claims a newer version
          NoFile,   \* there is no such file
          Torn      \* the file does not parse: a write has begun, or broke off

ASSUME RulesStoreAssumption ==
    /\ Newer \notin Governed
    /\ NoFile # Torn
    /\ \A set \in SUBSET (Governed \cup {Newer}) : set # NoFile /\ set # Torn

VARIABLES pc,         \* where the daemon's only thread is
          job,        \* for whom it loads: "start", "tick", "reload", or a session
          live,       \* rules.json
          backup,     \* rules.json.ok
          editing,    \* what a write in progress will leave in rules.json, or NoFile
          unseen,     \* the mtime of rules.json is not Engine.last_mtime
          rules,      \* Engine.rules
          source,     \* Engine.rules_source
          configured, \* Engine.protected and tz_secs have been set
          overtaken,  \* history: rules.json was written since it was last read, and before
                      \* its mtime was remembered
          behind,     \* history: rules.json.ok is not the rule set that was loaded last
          kept,       \* history: rules that were in force and that nobody took out
          found       \* history: a tick since the start saw rules.json

files == <<live, backup, editing>>
storeVars == <<pc, job, files, unseen, rules, source, configured, overtaken, behind,
               kept, found>>

------------------------------------------------------------------------------

RuleSets == SUBSET (Governed \cup {Newer})
Files == RuleSets \cup {NoFile, Torn}
Sources == {"file", "backup", "default"}

\* Rules::load succeeds; it does not look at the version.
Usable(f) == f \notin {NoFile, Torn}

\* Between reading rules.json and remembering its mtime.
Loading == pc \in {"copy", "resolve", "stamp"}

StoreTypeOK ==
    /\ {live, backup, editing, rules} \subseteq Files
    /\ Usable(rules)
    /\ source \in Sources
    /\ {unseen, configured, overtaken, behind, found} \subseteq BOOLEAN
    /\ kept \subseteq Governed \cup {Newer}

StoreInit(initial) ==
    /\ pc = "down" /\ job = "start"
    /\ live = initial /\ backup = NoFile /\ editing = NoFile
    /\ unseen = TRUE
    /\ rules = {} /\ source = "default" /\ configured = FALSE
    /\ overtaken = FALSE /\ behind = FALSE /\ kept = {} /\ found = FALSE

------------------------------------------------------------------------------
\* Writes by hand, at any moment.

Written(content) ==
    /\ live' = content
    /\ unseen' = TRUE
    /\ overtaken' = (overtaken \/ Loading)
    /\ UNCHANGED <<pc, job, backup, rules, source, configured, behind, found>>

\* An editor truncates the file and writes it; it may never get to the second step.
EditBegins(content) ==
    /\ editing = NoFile
    /\ Written(Torn)
    /\ editing' = content
    /\ UNCHANGED kept

EditEnds ==
    /\ editing # NoFile
    /\ Written(editing)
    /\ editing' = NoFile
    /\ kept' = kept \cap editing

EditBreaksOff ==
    /\ editing # NoFile
    /\ editing' = NoFile
    /\ UNCHANGED <<pc, job, live, backup, unseen, rules, source, configured,
                   overtaken, behind, kept, found>>

FileIsRemoved ==
    /\ live # NoFile
    /\ Written(NoFile)
    /\ editing' = NoFile
    /\ UNCHANGED kept

------------------------------------------------------------------------------
\* Loading.

Load(content, from) ==
    /\ rules' = content
    /\ source' = from

AfterLoading == IF job = "start" THEN "check" ELSE "resolve"

\* Mutant: the copy is taken as it is, whether or not it parses.
LoadRulesUnread ==
    /\ pc = "load"
    /\ \/ Usable(live) /\ Load(live, "file") /\ pc' = "copy" /\ kept' = kept \cup live
       \/ /\ ~Usable(live)
          /\ IF backup # NoFile THEN Load(backup, "backup") ELSE Load({}, "default")
          /\ pc' = AfterLoading
          /\ kept' = kept
    /\ overtaken' = FALSE
    /\ UNCHANGED <<job, files, unseen, configured, behind, found>>

\* Mutant: there is no copy to fall back on.
LoadRulesOrNone ==
    /\ pc = "load"
    /\ \/ Usable(live) /\ Load(live, "file") /\ pc' = "copy" /\ kept' = kept \cup live
       \/ ~Usable(live) /\ Load({}, "default") /\ pc' = AfterLoading /\ kept' = kept
    /\ overtaken' = FALSE
    /\ UNCHANGED <<job, files, unseen, configured, behind, found>>

\* load_rules: the live file, else the last known good copy, else nothing.
LoadRules ==
    /\ pc = "load"
    /\ \/ Usable(live) /\ Load(live, "file") /\ pc' = "copy" /\ kept' = kept \cup live
       \/ /\ ~Usable(live)
          /\ IF Usable(backup) THEN Load(backup, "backup") ELSE Load({}, "default")
          /\ pc' = AfterLoading
          /\ kept' = kept
    /\ overtaken' = FALSE
    /\ UNCHANGED <<job, files, unseen, configured, behind, found>>

\* The first lines of reload: a file that does not parse leaves the rules alone, unless
\* they are a fallback anyway.
ReloadReads ==
    /\ pc = "parse"
    /\ \/ /\ Usable(live)
          /\ Load(live, "file")
          /\ pc' = "copy"
          /\ kept' = kept \cup live
          /\ overtaken' = FALSE
       \/ /\ ~Usable(live)
          /\ pc' = IF source = "file" THEN "resolve" ELSE "load"
          /\ overtaken' = FALSE
          /\ UNCHANGED <<rules, source, kept>>
    /\ UNCHANGED <<job, files, unseen, configured, behind, found>>

BackupBecomes(content) ==
    /\ pc = "copy"
    /\ pc' = AfterLoading
    /\ backup' = content
    /\ behind' = (content # rules)
    /\ UNCHANGED <<job, live, editing, unseen, rules, source, configured, overtaken,
                   kept, found>>

\* refresh_backup copies the file as it now is, which need not be what was parsed.
RefreshBackup == BackupBecomes(IF live = NoFile THEN backup ELSE live)

\* The copy fails, before or after the target has been truncated; nobody is told.
RefreshFails == \E content \in {backup, Torn} : BackupBecomes(content)

\* Timezone and protected packages are set; then the uids are resolved, or cannot be.
ReloadConfigures(next) ==
    /\ pc = "resolve"
    /\ pc' = next
    /\ job' = IF next = "stamp" THEN job ELSE "tick"
    /\ configured' = TRUE
    /\ UNCHANGED <<files, unseen, rules, source, overtaken, behind, kept, found>>

\* The mtime remembered is that of the file as it is now.
ReloadStamps(next) ==
    /\ pc = "stamp"
    /\ pc' = next
    /\ job' = "tick"
    /\ unseen' = (unseen /\ live = NoFile)
    /\ UNCHANGED <<files, rules, source, configured, overtaken, behind, kept, found>>

------------------------------------------------------------------------------
\* Who loads.

\* Mutant: Engine::new also remembers the mtime.
StoreStartsAndStamps ==
    /\ pc = "down"
    /\ pc' = "load" /\ job' = "start"
    /\ unseen' = (live = NoFile)
    /\ UNCHANGED <<files, rules, source, configured, overtaken, behind, kept, found>>

\* Engine::new
StoreStarts ==
    /\ pc = "down"
    /\ pc' = "load" /\ job' = "start"
    /\ UNCHANGED <<files, unseen, rules, source, configured, overtaken, behind, kept,
                   found>>

\* reload_if_changed, first in a tick.
TickChecks ==
    /\ pc \in {"idle", "check"}
    /\ job' = "tick"
    /\ pc' = IF live # NoFile /\ unseen THEN "parse" ELSE "sync"
    /\ found' = (found \/ live # NoFile)
    /\ UNCHANGED <<files, unseen, rules, source, configured, overtaken, behind, kept>>

\* The reload command.
ReloadRequested ==
    /\ pc = "idle"
    /\ pc' = "parse" /\ job' = "reload"
    /\ UNCHANGED <<files, unseen, rules, source, configured, overtaken, behind, kept,
                   found>>

\* apply_rules_file takes no candidate that does not parse or claims a newer version.
Acceptable(candidate) == Usable(candidate) /\ Newer \notin candidate

\* Mutant: the mtime of what was applied is remembered before it is loaded.
AppliesAndStamps(s, candidate, removed) ==
    /\ pc = "idle"
    /\ Acceptable(candidate)
    /\ pc' = "parse" /\ job' = s
    /\ live' = candidate
    /\ editing' = NoFile
    /\ unseen' = FALSE
    /\ kept' = kept \ removed
    /\ UNCHANGED <<backup, rules, source, configured, overtaken, behind, found>>

\* apply_rules_file up to the rename; the reload follows.  An editor still writing has
\* the file that is replaced.
Applies(s, candidate, removed) ==
    /\ pc = "idle"
    /\ Acceptable(candidate)
    /\ pc' = "parse" /\ job' = s
    /\ live' = candidate
    /\ editing' = NoFile
    /\ unseen' = TRUE
    /\ kept' = kept \ removed
    /\ UNCHANGED <<backup, rules, source, configured, overtaken, behind, found>>

\* The daemon dies; a copy it was making may be whole, cut short or not begun.
StoreCrashes ==
    /\ pc # "down"
    /\ pc' = "down" /\ job' = "start"
    /\ rules' = {} /\ source' = "default" /\ configured' = FALSE
    /\ unseen' = TRUE /\ overtaken' = FALSE /\ found' = FALSE
    /\ IF pc = "copy"
       THEN backup' \in {backup, Torn, IF live = NoFile THEN backup ELSE live}
       ELSE UNCHANGED backup
    /\ behind' = IF pc = "copy" THEN backup' # rules ELSE behind
    /\ UNCHANGED <<live, editing, kept>>
==============================================================================
