------------------------------ MODULE Enforcement ------------------------------
(***************************************************************************)
(* The gate's threads, the engine thread and the device together.          *)
(*                                                                         *)
(* The engine thread runs the second half of Engine::tick: given what the  *)
(* rules decided, it replaces the identity index, applies the transitions  *)
(* uid by uid (kill what runs, insert into the block map, then into the    *)
(* mirror; or remove from both) and now and then sweeps.  Which apps the   *)
(* rules block is chosen freely at every tick: Wake and Ledger model   *)
(* how the choice is made.                                                 *)
(***************************************************************************)
EXTENDS Killer, Clear

CONSTANTS InsertMayFail,   \* whether the block map may refuse a uid (it is full)
          MayStop,         \* whether the control socket may fail to open
          NoUid            \* the engine is not changing any uid

ASSUME EnforcementAssumption ==
    /\ InsertMayFail \in BOOLEAN
    /\ MayStop \in BOOLEAN

VARIABLES tickPc,    \* "boot", "idle", "apply", "clear", "insert", "mirror", "unmirror",
                     \* "sweep", "bind" (the first tick is over), "gone"
          booting,   \* the control socket is not listening yet
          want,      \* uid -> "block", "allow" or "absent" (no rule names it)
          curUid,    \* the uid whose transition is being applied
          blocked,   \* Engine.blocked
          free       \* history: the pids whose process started under a uid that was
                     \* on no block list and has been on none since

engineVars == <<tickPc, booting, want, curUid, blocked>>

vars == <<gateEventVars, recent, chan, killerVars, sharedVars, gatePhase,
          clearVars, engineVars, free>>

Verdicts == {"block", "allow", "absent"}
NothingWanted == [u \in Uids |-> "absent"]

TypeOK ==
    /\ GateEventsTypeOK
    /\ KillerTypeOK
    /\ ClearTypeOK
    /\ tickPc \in {"boot", "idle", "apply", "clear", "insert", "mirror", "unmirror",
                   "sweep", "bind", "gone"}
    /\ booting \in BOOLEAN
    /\ want \in [Uids -> Verdicts]
    /\ curUid \in Uids \cup {NoUid}
    /\ tickPc \in {"clear", "insert", "mirror", "unmirror"} => curUid \in Uids
    /\ blocked \subseteq Uids
    /\ free \subseteq Pids

Init ==
    /\ GateEventsInit
    /\ KillerInit
    /\ ClearInit
    /\ tickPc = "boot"
    /\ booting = TRUE
    /\ want = NothingWanted
    /\ curUid = NoUid
    /\ blocked = {}
    /\ free = {}

------------------------------------------------------------------------------
\* The device.

KeepDaemon == UNCHANGED <<recent, chan, killerVars, sharedVars, gatePhase,
                          clearVars, engineVars>>

\* free after a step that changed which processes run.
ForgetDead == free' = {p \in free : proc'[p] # NoProc}

Launch(p, a) ==
    /\ Start(p, a)
    /\ free' = IF a.uid \in blockedUids \cup blockedSet THEN free \ {p} ELSE free \cup {p}
    /\ KeepDaemon

Transact(p) == Report(p) /\ UNCHANGED free /\ KeepDaemon

Quit(p) == Die(p) /\ ForgetDead /\ KeepDaemon

------------------------------------------------------------------------------
\* The engine thread.

KeepGate == UNCHANGED <<recent, chan, killerVars, gatePhase>>

\* A tick has computed what it wants: W per uid, and D, the apps judged blocked.
\* The last rule evaluated for a uid decides, so a uid may be allowed although one
\* of its apps is in D; it is blocked only if one is.
BeginTick(D, W) ==
    /\ tickPc \in {"boot", "idle"}
    /\ \A u \in Uids :
          /\ W[u] = "block" => \E a \in D : a.uid = u
          /\ W[u] = "absent" => \A a \in D : a.uid # u
    /\ identity' = [u \in Uids |-> {a.pkg : a \in {b \in D : b.uid = u}}]
    /\ want' = W
    /\ tickPc' = "apply"
    /\ UNCHANGED <<gateEventVars, blockedSet, clearVars, booting, curUid, blocked, free>>
    /\ KeepGate

\* The main loop gets control back; after the very first tick it opens the socket.
TickReturns ==
    /\ tickPc' = IF booting THEN "bind" ELSE "idle"
    /\ want' = NothingWanted

ToBlock == {u \in Uids : want[u] = "block" /\ u \notin blocked}
\* Mutant: uids that no rule names any more are forgotten.
ToUnblockNamed == {u \in blocked : want[u] = "allow"}

ToUnblock == {u \in blocked : want[u] # "block"}

\* Transition onto the block list: first kill what runs, with the uid not yet
\* blocked in the kernel.
KillBeforeBlock(u) ==
    /\ tickPc = "apply"
    /\ u \in ToBlock
    /\ ListProcesses({u})
    /\ curUid' = u
    /\ tickPc' = "clear"
    /\ UNCHANGED <<gateEventVars, sharedVars, booting, want, blocked, free>>
    /\ KeepGate

\* One step of kill_uid or kill_uids.
ClearStepInTick ==
    /\ tickPc \in {"clear", "sweep"}
    /\ ClearStep
    /\ ForgetDead
    /\ UNCHANGED <<blockedUids, ring, sharedVars, engineVars>>
    /\ KeepGate

ClearReturns ==
    /\ ClearDone
    /\ clearPc' = "off"
    /\ \/ tickPc = "clear" /\ tickPc' = "insert" /\ UNCHANGED want
       \/ tickPc = "sweep" /\ TickReturns
    /\ UNCHANGED <<gateEventVars, targets, target, sharedVars, booting, curUid, blocked, free>>
    /\ KeepGate

NoLongerFree(u) == free' = {p \in free : ~RunsUnder(p, u)}

\* Gate::set_blocked(uid, true): the kernel map first.
InsertIntoMap ==
    /\ tickPc = "insert"
    /\ MapInsert(curUid)
    /\ NoLongerFree(curUid)
    /\ tickPc' = "mirror"
    /\ UNCHANGED <<proc, gen, ring, sharedVars, clearVars, booting, want, curUid, blocked>>
    /\ KeepGate

\* The map refuses the uid: the error ends the tick with its work half done.
InsertFails ==
    /\ tickPc = "insert"
    /\ InsertMayFail
    /\ TickReturns
    /\ curUid' = NoUid
    /\ UNCHANGED <<gateEventVars, sharedVars, clearVars, booting, blocked, free>>
    /\ KeepGate

InsertIntoMirror ==
    /\ tickPc = "mirror"
    /\ blockedSet' = blockedSet \cup {curUid}
    /\ blocked' = blocked \cup {curUid}
    /\ tickPc' = "apply"
    /\ curUid' = NoUid
    /\ UNCHANGED <<gateEventVars, identity, clearVars, booting, want, free>>
    /\ KeepGate

\* Gate::set_blocked(uid, false).  Uids that no rule names any more come last.
RemoveFromMap(u) ==
    /\ tickPc = "apply"
    /\ u \in ToUnblock
    /\ want[u] = "absent" =>
          ToBlock = {} /\ \A v \in ToUnblock : want[v] = "absent"
    /\ MapRemove(u)
    /\ curUid' = u
    /\ tickPc' = "unmirror"
    /\ UNCHANGED <<proc, gen, ring, sharedVars, clearVars, booting, want, blocked, free>>
    /\ KeepGate

RemoveFromMirror ==
    /\ tickPc = "unmirror"
    /\ blockedSet' = blockedSet \ {curUid}
    /\ blocked' = blocked \ {curUid}
    /\ tickPc' = "apply"
    /\ curUid' = NoUid
    /\ UNCHANGED <<gateEventVars, identity, clearVars, booting, want, free>>
    /\ KeepGate

Applied == tickPc = "apply" /\ ToBlock = {} /\ ToUnblock = {}

\* Mutant: only uids that are about to be blocked are swept.
SweptTransitions == ToBlock

Swept == blocked

\* SWEEP_SECS passed since the last sweep: kill whatever runs under a blocked uid.
StartSweep ==
    /\ Applied
    /\ blocked # {}
    /\ ListProcesses(Swept)
    /\ tickPc' = "sweep"
    /\ UNCHANGED <<gateEventVars, sharedVars, booting, want, curUid, blocked, free>>
    /\ KeepGate

EndTick ==
    /\ Applied
    /\ TickReturns
    /\ UNCHANGED <<gateEventVars, sharedVars, clearVars, booting, curUid, blocked, free>>
    /\ KeepGate

\* socket::listen succeeds: the loop of run_daemon begins.
Listen ==
    /\ tickPc = "bind"
    /\ booting' = FALSE
    /\ tickPc' = "idle"
    /\ UNCHANGED <<gateEventVars, sharedVars, clearVars, want, curUid, blocked, free>>
    /\ KeepGate

\* socket::listen fails, the one way run_daemon returns once the gate runs: the engine
\* is dropped, and the gate's Drop wakes the drain thread.
DropGate ==
    /\ MayStop
    /\ tickPc = "bind"
    /\ tickPc' = "gone"
    /\ gatePhase' = "waking"
    /\ UNCHANGED <<gateEventVars, recent, chan, killerVars, sharedVars, clearVars,
                   booting, want, curUid, blocked, free>>

EngineTick ==
    \/ \E u \in Uids : KillBeforeBlock(u) \/ RemoveFromMap(u)
    \/ ClearStepInTick
    \/ ClearReturns
    \/ InsertIntoMap
    \/ InsertFails
    \/ InsertIntoMirror
    \/ RemoveFromMirror
    \/ EndTick
    \/ Listen

Engine ==
    \/ \E D \in SUBSET Apps, W \in [Uids -> Verdicts] : BeginTick(D, W)
    \/ EngineTick
    \/ StartSweep
    \/ DropGate

Device ==
    \/ \E p \in Pids, a \in Apps : Launch(p, a)
    \/ \E p \in Pids : Transact(p) \/ Quit(p)

\* A step of one of the gate's two threads.
KeepEngine == UNCHANGED <<clearVars, engineVars>>
GateThreads == (DrainThread \/ KillerThread \/ TimePasses) /\ ForgetDead /\ KeepEngine

Next == Device \/ Engine \/ GateThreads

Spec == Init /\ [][Next]_vars

\* What the scheduler and the code's own timers give: every thread keeps running, a
\* pending entry reaches its timeout, ticks keep coming (main.rs wakes at least every
\* IDLE_TICK_SECS) and, 60 s being less than that, sweeps are not put off for ever.
\* The killer's inner try_recv loop ends infinitely often: one pid is queued at most
\* once in 5 s.
Fairness ==
    /\ WF_vars(KillerThread /\ ForgetDead /\ KeepEngine)
    /\ SF_vars(StartPoll /\ ForgetDead /\ KeepEngine)
    /\ WF_vars(DrainStops /\ ForgetDead /\ KeepEngine)
    /\ WF_vars((\E e \in pending : Ages(e)) /\ ForgetDead /\ KeepEngine)
    /\ WF_vars(\E D \in SUBSET Apps, W \in [Uids -> Verdicts] : BeginTick(D, W))
    /\ WF_vars(EngineTick)
    /\ SF_vars(StartSweep)

FairSpec == Spec /\ Fairness

------------------------------------------------------------------------------
\* Safety.

\* A process the killer thread is about to signal, if it still runs, carries a package
\* name that the index held for the event's uid when it was read - also when the
\* verdict came from a cmdline nobody could read, which then pins a dead process
\* (gate.rs, kill_if_blocked: "a gone process cannot be signalled anyway").
KillsOnlyNamed ==
    killerPc = "kill" /\ Alive(cur.pid, cur.gen) => proc[cur.pid].pkg \in names

\* A process started while its uid was on no block list, and on none since, is never
\* about to be signalled for that uid, however stale the event that led to its pid:
\* the pid is pinned before the list is checked (gate.rs:83 "a stale mark can otherwise
\* redirect a kill onto a recycled pid").
FreeIsSpared ==
    killerPc = "kill" /\ Alive(cur.pid, cur.gen) /\ RunsUnder(cur.pid, cur.uid)
        => cur.pid \notin free

\* The kernel map, its mirror and Engine.blocked agree whenever the engine thread is not
\* inside set_blocked, also after a tick that an error cut short: a removal
\* never names a uid the map does not hold (gate.rs, set_blocked; engine.rs:534-565).
ListsAgree ==
    /\ blockedSet = blocked
    /\ CASE tickPc = "mirror"   -> blockedUids = blocked \cup {curUid}
         [] tickPc = "unmirror" -> blockedUids = blocked \ {curUid}
         [] OTHER               -> blockedUids = blocked

\* Between ticks a blocked uid has a name in the identity index: were there none, the
\* killer would refuse every kill for it (engine.rs:478-532 against 535-565).
BlockedHasNames ==
    tickPc \in {"idle", "bind"} => \A u \in blocked : identity[u] # {}

\* Said of every kill: the uid is still blocked when the kill is sent (gate.rs:83-85).
StillBlockedAtKill ==
    killerPc = "kill" /\ Alive(cur.pid, cur.gen) => cur.uid \in blockedSet

\* Said of every kill: the process's own cmdline carries a name blocked for the uid
\* (README, Identity), hence also when the gate shuts down with kills pending.
ShutdownConfirmsIdentity ==
    [][gatePhase' = "down" /\ gatePhase # "down" =>
          \A e \in pending :
              Alive(e.pid, e.gen) => proc[e.pid].pkg \in identity[e.uid]]_vars

\* Said of every sweep: SIGKILL never reaches a process of another uid (clear.rs:7-8,
\* proc.rs:57-59).
SweepKeepsToItsUid ==
    clearPc = "send" /\ Alive(target.pid, target.gen) => RunsUnder(target.pid, target.uid)

------------------------------------------------------------------------------
\* Liveness.

\* A process of a blocked uid does not stay: the gate or a sweep ends it, or the uid is
\* unblocked (README, Fail-open: "A periodic sweep covers any process the gate missed").
BlockedDies ==
    \A p \in Pids, g \in 1..MaxGen :
        (Alive(p, g) /\ proc[p].uid \in blocked)
            ~> (~Alive(p, g) \/ proc[p].uid \notin blocked \/ tickPc = "gone")

\* A process waiting for its kill is not forgotten: the killer thread resolves it even
\* when it never becomes foreground (gate.rs, TIMEOUT_MS).
PendingResolves ==
    \A p \in Pids, g \in 1..MaxGen :
        (\E e \in pending : e.pid = p /\ e.gen = g)
            ~> ~(\E e \in pending : e.pid = p /\ e.gen = g)

\* Dropping the gate returns: both threads end and are joined (gate.rs:344-349, 481-490).
ShutdownEnds == gatePhase = "waking" ~> gatePhase = "down"
==============================================================================
