--------------------------------- MODULE WebUI ---------------------------------
(***************************************************************************)
(* What the WebUI does with the rules file (module/webroot/app.js          *)
(* loadRules, saveRules, writeFile; the apply command in                   *)
(* daemon/src/main.rs and daemon/src/socket.rs).                           *)
(*                                                                         *)
(* A session reads rules.json into its model once, changes the model, and  *)
(* saves the whole of it: it writes a candidate file, the same one for     *)
(* every session, and asks the daemon to apply it.  When that fails, for   *)
(* whatever reason, it reads rules.json again.                             *)
(***************************************************************************)
EXTENDS RulesStore

CONSTANT Sessions

VARIABLES ui,        \* each session: pc, model, the rule last changed, and (history)
                     \* current: nobody has interfered since it read or saved
          cand,      \* rules.json.tmp
          overwrote  \* history: a save took out a rule its session had not taken out

uiVars == <<ui, cand, overwrote>>

------------------------------------------------------------------------------

Steps == {"closed", "open", "writing", "written", "waiting", "reread"}
NoRule == Newer

UiTypeOK ==
    /\ ui \in [Sessions -> [pc : Steps, model : RuleSets, rule : Governed \cup {NoRule},
                            current : BOOLEAN]]
    /\ cand \in Files
    /\ overwrote \in BOOLEAN

UiInit ==
    /\ ui = [s \in Sessions |->
                [pc |-> "closed", model |-> {}, rule |-> NoRule, current |-> FALSE]]
    /\ cand = NoFile
    /\ overwrote = FALSE

\* What interferes with other sessions: their view is no longer the daemon's.
Interferes(views, others) ==
    [s \in Sessions |-> IF s \in others THEN [views[s] EXCEPT !.current = FALSE] ELSE views[s]]

------------------------------------------------------------------------------

\* loadRules: a file that is missing or does not parse is shown as no rules at all.
Shown == IF Usable(live) THEN live ELSE {}

\* Mutant: after a failed save the session keeps what it shows.
ReadsAgainNot(s, from) ==
    /\ ui[s].pc = from
    /\ ui' = [ui EXCEPT ![s] = [pc |-> "open", model |-> IF from = "reread" THEN @.model ELSE Shown,
                                rule |-> NoRule, current |-> Usable(live)]]
    /\ UNCHANGED <<cand, overwrote>>

Reads(s, from) ==
    /\ ui[s].pc = from
    /\ ui' = [ui EXCEPT ![s] = [pc |-> "open", model |-> Shown, rule |-> NoRule,
                                current |-> Usable(live)]]
    /\ UNCHANGED <<cand, overwrote>>

\* Those whose candidate another session's write destroys or replaces.
Saving == {s \in Sessions : ui[s].pc \in {"writing", "written"}}

\* The user adds or removes a rule; the shell truncates the candidate file.
SaveBegins(s, rule) ==
    /\ ui[s].pc = "open"
    /\ ui' = [Interferes(ui, Saving) EXCEPT ![s] =
                [pc |-> "writing", rule |-> rule, current |-> @.current,
                 model |-> IF rule \in @.model THEN @.model \ {rule} ELSE @.model \cup {rule}]]
    /\ cand' = Torn
    /\ UNCHANGED overwrote

\* Two that write at once may leave a mixture.
SaveWritten(s) ==
    /\ ui[s].pc = "writing"
    /\ ui' = [Interferes(ui, Saving \ {s}) EXCEPT ![s].pc = "written"]
    /\ \/ cand' = ui[s].model
       \/ (\E t \in Sessions \ {s} : ui[t].pc = "writing") /\ cand' = Torn
    /\ UNCHANGED overwrote

Removed(s) == {ui[s].rule} \ ui[s].model

\* The daemon takes the request and the candidate.
AsksApply(s) ==
    /\ ui[s].pc = "written"
    /\ Applies(s, cand, Removed(s))
    /\ ui' = [Interferes(ui, Sessions \ {s}) EXCEPT ![s].pc = "waiting"]
    /\ overwrote' = (overwrote \/ ~(kept \ Removed(s) \subseteq cand))
    /\ UNCHANGED cand

\* The candidate cannot be written, is refused, cannot be put beside rules.json by the
\* daemon, or there is no daemon to ask.
SaveFails(s) ==
    /\ \/ ui[s].pc = "writing"
       \/ ui[s].pc = "written" /\ pc \in {"down", "idle"}
    /\ ui' = [ui EXCEPT ![s].pc = "reread"]
    /\ UNCHANGED <<cand, overwrote, storeVars>>

\* The request of the job the daemon is doing is answered.
Answered(ok) ==
    /\ ui' = [s \in Sessions |->
                IF s = job THEN [ui[s] EXCEPT !.pc = IF ok THEN "open" ELSE "reread"]
                ELSE ui[s]]
    /\ UNCHANGED <<cand, overwrote>>
==============================================================================
