--------------------------- MODULE EnforcementProofs ---------------------------
(***************************************************************************)
(* Theorems about Enforcement, for every set of pids and apps and every    *)
(* bound: type correctness, and the safety properties of the killer thread *)
(* and of the block lists.                                                 *)
(***************************************************************************)
EXTENDS Enforcement, TLAPS

------------------------------------------------------------------------------
\* Type correctness, first of the parts.

LEMMA AppUid == \A a \in Apps : a.uid \in Uids /\ a.pkg \in Pkgs
BY DEF Uids, Pkgs

LEMMA RunningApp ==
    ASSUME ProcTypeOK, NEW p \in Pids, proc[p] # NoProc
    PROVE  proc[p] \in Apps /\ proc[p].uid \in Uids
BY AppUid DEF ProcTypeOK

LEMMA SpawnType ==
    ASSUME ProcTypeOK, NEW p \in Pids, NEW a \in Apps, Spawn(p, a)
    PROVE  ProcTypeOK'
BY ProcessesAssumption DEF ProcTypeOK, Spawn, ProcessesAssumption

LEMMA KillType ==
    ASSUME ProcTypeOK, NEW p, NEW g, PidfdKill(p, g)
    PROVE  ProcTypeOK'
BY DEF ProcTypeOK, PidfdKill

LEMMA SubmitType ==
    ASSUME ring \in Seq(Event), NEW p \in Pids, NEW u \in Uids, Submit(p, u)
    PROVE  ring' \in Seq(Event)
<1>. [pid |-> p, uid |-> u] \in Event
  BY DEF Event
<1>. QED BY DEF Submit

\* The device keeps the types of what it touches.
LEMMA DeviceType ==
    ASSUME TypeOK, Device
    PROVE  TypeOK'
<1>1. ASSUME NEW p \in Pids, NEW a \in Apps, Launch(p, a) PROVE TypeOK'
  <2>1. ProcTypeOK' /\ ring' \in Seq(Event) /\ blockedUids' = blockedUids
    BY <1>1, SpawnType, SubmitType, AppUid DEF Launch, Start, TypeOK, GateEventsTypeOK
  <2>2. free' \subseteq Pids
    BY <1>1 DEF Launch, TypeOK
  <2>. QED
    BY <1>1, <2>1, <2>2
       DEF Launch, KeepDaemon, killerVars, sharedVars, clearVars, engineVars,
           TypeOK, GateEventsTypeOK, KillerTypeOK, ClearTypeOK
<1>2. ASSUME NEW p \in Pids, Transact(p) PROVE TypeOK'
  <2>1. ring' \in Seq(Event)
    BY <1>2, RunningApp, SubmitType DEF Transact, Report, TypeOK, GateEventsTypeOK
  <2>. QED
    BY <1>2, <2>1
       DEF Transact, Report, KeepDaemon, killerVars, sharedVars, clearVars, engineVars,
           TypeOK, GateEventsTypeOK, ProcTypeOK, KillerTypeOK, ClearTypeOK
<1>3. ASSUME NEW p \in Pids, Quit(p) PROVE TypeOK'
  <2>1. ProcTypeOK' /\ free' \subseteq Pids
    BY <1>3 DEF Quit, Die, Exit, ForgetDead, TypeOK, GateEventsTypeOK, ProcTypeOK
  <2>. QED
    BY <1>3, <2>1
       DEF Quit, Die, KeepDaemon, killerVars, sharedVars, clearVars, engineVars,
           TypeOK, GateEventsTypeOK, KillerTypeOK, ClearTypeOK
<1>. QED BY <1>1, <1>2, <1>3 DEF Device

\* kill_if_blocked returns: the killer's local variables are reset.
LEMMA ResolveType ==
    ASSUME KillerTypeOK, Resolve,
           UNCHANGED <<recent, chan, pending, todo, sharedVars, gatePhase>>
    PROVE  KillerTypeOK'
<1>1. 0 \in 0..IdentityTries
  BY KillerAssumption DEF KillerAssumption
<1>. QED BY <1>1 DEF Resolve, KillerTypeOK, sharedVars

\* The two gate threads and the passing of time.
LEMMA GateThreadsType ==
    ASSUME TypeOK, GateThreads
    PROVE  TypeOK'
<1>. USE DEF gateEventVars, killerVars, sharedVars, clearVars, engineVars, KeepEngine
<1>0. free' \subseteq Pids
  BY DEF GateThreads, ForgetDead, TypeOK
<1>. SUFFICES GateEventsTypeOK' /\ KillerTypeOK'
  BY <1>0 DEF GateThreads, TypeOK, ClearTypeOK
<1>. USE DEF TypeOK
<1>1. CASE Drain
  <2>1. ring # <<>> /\ Head(ring) \in Event
    BY <1>1 DEF Drain, RingTake, GateEventsTypeOK
  <2>2. Head(ring).pid \in Pids
    BY <2>1 DEF Event
  <2>3. ring' \in Seq(Event)
    BY <1>1, <2>1 DEF Drain, RingTake, GateEventsTypeOK
  <2>4. chan' \in Seq(Event) /\ recent' \subseteq Pids
    BY <1>1, <2>1, <2>2 DEF Drain, KillerTypeOK
  <2>. QED
    BY <1>1, <2>3, <2>4 DEF Drain, GateEventsTypeOK, ProcTypeOK, KillerTypeOK
<1>2. CASE DrainStops
  BY <1>2 DEF DrainStops, GateEventsTypeOK, ProcTypeOK, KillerTypeOK
<1>3. CASE Receive
  <2>1. chan # <<>> /\ Head(chan) \in Event /\ chan' \in Seq(Event)
    BY <1>3 DEF Receive, KillerTypeOK
  <2>2. Head(chan).pid \in Pids /\ Head(chan).uid \in Uids
    BY <2>1 DEF Event
  <2>3. [pid |-> Head(chan).pid, gen |-> gen[Head(chan).pid],
         uid |-> Head(chan).uid, aged |-> FALSE] \in Entry
    BY <2>2 DEF Entry, GateEventsTypeOK, ProcTypeOK
  <2>4. pending' \subseteq Entry /\ pending \subseteq pending'
    BY <1>3, <2>3 DEF Receive, KillerTypeOK
  <2>. QED
    BY <1>3, <2>1, <2>4 DEF Receive, GateEventsTypeOK, ProcTypeOK, KillerTypeOK
<1>4. CASE StartPoll
  BY <1>4 DEF StartPoll, GateEventsTypeOK, ProcTypeOK, KillerTypeOK
<1>5. CASE FinishPending
  BY <1>5 DEF FinishPending, GateEventsTypeOK, ProcTypeOK, KillerTypeOK
<1>6. ASSUME NEW e \in todo, PollExited(e) \/ PollWaits(e) \/ CheckBlocked(e)
      PROVE  GateEventsTypeOK' /\ KillerTypeOK'
  BY <1>6 DEF PollExited, PollWaits, CheckBlocked, Discard,
              GateEventsTypeOK, ProcTypeOK, KillerTypeOK
<1>7. CASE EndPoll
  BY <1>7 DEF EndPoll, GateEventsTypeOK, ProcTypeOK, KillerTypeOK
<1>8. CASE ReadNames
  <2>0. GateEventsTypeOK'
    BY <1>8 DEF ReadNames, GateEventsTypeOK, ProcTypeOK
  <2>1. CASE identity[cur.uid] = {}
    BY <1>8, <2>0, <2>1, ResolveType DEF ReadNames
  <2>2. CASE identity[cur.uid] # {}
    <3>1. names' \subseteq Pkgs
      BY <1>8, <2>2 DEF ReadNames, KillerTypeOK, Entry
    <3>. QED BY <1>8, <2>0, <2>2, <3>1 DEF ReadNames, KillerTypeOK
  <2>. QED BY <2>1, <2>2
<1>9. CASE IdentityMatches
  BY <1>9 DEF IdentityMatches, GateEventsTypeOK, ProcTypeOK, KillerTypeOK
<1>10. CASE IdentityMisses
  <2>0. GateEventsTypeOK'
    BY <1>10 DEF IdentityMisses, GateEventsTypeOK, ProcTypeOK
  <2>1. CASE Resolve
    BY <1>10, <2>0, <2>1, ResolveType DEF IdentityMisses
  <2>2. CASE ~Resolve
    <3>1. tries' \in 0..IdentityTries /\ seen' \in BOOLEAN
      <4>1. /\ tries \in 0..IdentityTries /\ IdentityTries \in Nat
            /\ seen \in BOOLEAN
        BY KillerAssumption DEF KillerTypeOK, KillerAssumption
      <4>2. seen' \in BOOLEAN
        BY <1>10, <2>2, <4>1 DEF IdentityMisses
      <4>3. tries' = tries \/ (tries + 1 < IdentityTries /\ tries' = tries + 1)
        BY <1>10, <2>2, <4>1 DEF IdentityMisses
      <4>. QED BY <4>1, <4>2, <4>3
    <3>. QED BY <1>10, <2>0, <2>2, <3>1 DEF IdentityMisses, KillerTypeOK
  <2>. QED BY <2>1, <2>2
<1>11. CASE KillCur
  <2>1. ProcTypeOK'
    BY <1>11, KillType DEF KillCur, GateEventsTypeOK
  <2>. QED
    BY <1>11, <2>1, ResolveType DEF KillCur, GateEventsTypeOK
<1>12. ASSUME NEW p \in recent, RecentElapses(p)
       PROVE  GateEventsTypeOK' /\ KillerTypeOK'
  BY <1>12 DEF RecentElapses, GateEventsTypeOK, ProcTypeOK, KillerTypeOK
<1>13. ASSUME NEW e \in pending, Ages(e)
       PROVE  GateEventsTypeOK' /\ KillerTypeOK'
  <2>1. [e EXCEPT !.aged = TRUE] \in Entry
    BY DEF KillerTypeOK, Entry
  <2>. QED
    BY <1>13, <2>1 DEF Ages, GateEventsTypeOK, ProcTypeOK, KillerTypeOK
<1>. QED
  BY <1>1, <1>2, <1>3, <1>4, <1>5, <1>6, <1>7, <1>8, <1>9, <1>10, <1>11, <1>12, <1>13
     DEF GateThreads, DrainThread, KillerThread, TimePasses

\* The engine thread.
LEMMA EngineType ==
    ASSUME TypeOK, Engine
    PROVE  TypeOK'
<1>. USE DEF gateEventVars, killerVars, sharedVars, clearVars, engineVars, procVars, KeepGate
<1>0. /\ UNCHANGED killerVars
      /\ UNCHANGED <<recent, chan>>
  BY DEF Engine, EngineTick, BeginTick, KillBeforeBlock, RemoveFromMap, ClearStepInTick,
         ClearReturns, InsertIntoMap, InsertFails, InsertIntoMirror, RemoveFromMirror,
         EndTick, Listen, StartSweep, DropGate
<1>1. ASSUME NEW D \in SUBSET Apps, NEW W \in [Uids -> Verdicts], BeginTick(D, W)
      PROVE  TypeOK'
  <2>1. identity' \in [Uids -> SUBSET Pkgs]
    BY <1>1, AppUid DEF BeginTick
  <2>. QED
    BY <1>1, <2>1 DEF BeginTick, TypeOK, GateEventsTypeOK, ProcTypeOK, KillerTypeOK,
                      ClearTypeOK
<1>2. ASSUME NEW us \in SUBSET Uids, ListProcesses(us)
      PROVE  targets' \subseteq [pid : Pids, uid : Uids] /\ clearPc' = "next"
             /\ UNCHANGED target
  BY <1>2 DEF ListProcesses
<1>3. ASSUME NEW u \in Uids, KillBeforeBlock(u) PROVE TypeOK'
  <2>1. ListProcesses({u}) /\ {u} \in SUBSET Uids
    BY <1>3 DEF KillBeforeBlock
  <2>2. ClearTypeOK'
    BY <1>2, <2>1 DEF TypeOK, ClearTypeOK
  <2>. QED
    BY <1>3, <2>2 DEF KillBeforeBlock, TypeOK, GateEventsTypeOK, ProcTypeOK, KillerTypeOK
<1>4. CASE StartSweep
  <2>1. ListProcesses(blocked) /\ blocked \in SUBSET Uids
    BY <1>4 DEF StartSweep, Swept, TypeOK
  <2>2. ClearTypeOK'
    BY <1>2, <2>1 DEF TypeOK, ClearTypeOK
  <2>. QED
    BY <1>4, <2>2 DEF StartSweep, TypeOK, GateEventsTypeOK, ProcTypeOK, KillerTypeOK
<1>5. CASE ClearStepInTick
  <2>. SUFFICES ProcTypeOK' /\ ClearTypeOK'
    BY <1>5 DEF ClearStepInTick, ForgetDead, TypeOK, GateEventsTypeOK, KillerTypeOK
  <2>. USE DEF TypeOK, GateEventsTypeOK
  <2>1. ASSUME NEW t \in targets, CheckOwner(t) PROVE ProcTypeOK' /\ ClearTypeOK'
    <3>1. [pid |-> t.pid, gen |-> gen[t.pid], uid |-> t.uid] \in Target
      BY DEF ClearTypeOK, ProcTypeOK, Target
    <3>. QED BY <2>1, <3>1 DEF CheckOwner, ClearTypeOK, ProcTypeOK
  <2>2. CASE OpenPidfd
    <3>1. CASE target' = NoTarget /\ clearPc' = "next"
      BY <2>2, <3>1 DEF OpenPidfd, ClearTypeOK, ProcTypeOK
    <3>2. CASE target' = [target EXCEPT !.gen = gen[target.pid]] /\ clearPc' = "send"
      <4>1. target \in Target
        BY <2>2 DEF OpenPidfd, ClearTypeOK
      <4>2. target' \in Target
        BY <3>2, <4>1 DEF Target, ProcTypeOK
      <4>. QED BY <2>2, <3>2, <4>2 DEF OpenPidfd, ClearTypeOK, ProcTypeOK
    <3>. QED BY <2>2, <3>1, <3>2 DEF OpenPidfd
  <2>3. CASE SendKill
    BY <2>3, KillType DEF SendKill, ClearTypeOK
  <2>. QED BY <1>5, <2>1, <2>2, <2>3 DEF ClearStepInTick, ClearStep
<1>6. CASE ClearReturns
  BY <1>6 DEF ClearReturns, TickReturns, NothingWanted, Verdicts, TypeOK,
              GateEventsTypeOK, ProcTypeOK, KillerTypeOK, ClearTypeOK
<1>7. CASE InsertIntoMap
  <2>1. curUid \in Uids
    BY <1>7 DEF InsertIntoMap, TypeOK
  <2>. QED
    BY <1>7, <2>1 DEF InsertIntoMap, MapInsert, NoLongerFree, TypeOK,
                      GateEventsTypeOK, ProcTypeOK, KillerTypeOK, ClearTypeOK
<1>8. CASE InsertFails
  BY <1>8 DEF InsertFails, TickReturns, NothingWanted, Verdicts, TypeOK,
              GateEventsTypeOK, ProcTypeOK, KillerTypeOK, ClearTypeOK
<1>9. CASE InsertIntoMirror
  <2>1. curUid \in Uids
    BY <1>9 DEF InsertIntoMirror, TypeOK
  <2>. QED
    BY <1>9, <2>1 DEF InsertIntoMirror, TypeOK, GateEventsTypeOK, ProcTypeOK,
                      KillerTypeOK, ClearTypeOK
<1>10. ASSUME NEW u \in Uids, RemoveFromMap(u) PROVE TypeOK'
  BY <1>10 DEF RemoveFromMap, MapRemove, TypeOK, GateEventsTypeOK, ProcTypeOK,
               KillerTypeOK, ClearTypeOK
<1>11. CASE RemoveFromMirror
  BY <1>11 DEF RemoveFromMirror, TypeOK, GateEventsTypeOK, ProcTypeOK, KillerTypeOK,
               ClearTypeOK
<1>12. CASE EndTick
  BY <1>12 DEF EndTick, TickReturns, NothingWanted, Verdicts, TypeOK, GateEventsTypeOK,
               ProcTypeOK, KillerTypeOK, ClearTypeOK
<1>13. CASE Listen
  <2>1. GateEventsTypeOK' /\ ClearTypeOK'
    BY <1>13 DEF Listen, TypeOK, GateEventsTypeOK, ProcTypeOK, ClearTypeOK
  <2>2. KillerTypeOK'
    BY <1>13 DEF Listen, TypeOK, KillerTypeOK
  <2>. QED BY <1>13, <2>1, <2>2 DEF Listen, TypeOK
<1>14. CASE DropGate
  BY <1>14 DEF DropGate, TypeOK, GateEventsTypeOK, ProcTypeOK, KillerTypeOK, ClearTypeOK
<1>. QED
  BY <1>1, <1>3, <1>4, <1>5, <1>6, <1>7, <1>8, <1>9, <1>10, <1>11, <1>12, <1>13, <1>14
     DEF Engine, EngineTick

\* Every variable of the composed system keeps its type.
THEOREM TypeCorrect == Spec => []TypeOK
<1>1. Init => TypeOK
  <2>. SUFFICES ASSUME Init PROVE TypeOK
    OBVIOUS
  <2>1. GateEventsTypeOK
    BY ProcessesAssumption
       DEF Init, GateEventsInit, ProcInit, GateEventsTypeOK, ProcTypeOK,
           ProcessesAssumption
  <2>2. KillerTypeOK
    <3>1. 0 \in 0..IdentityTries
      BY KillerAssumption DEF KillerAssumption
    <3>2. <<>> \in Seq(Event)
      OBVIOUS
    <3>. QED BY <3>1, <3>2 DEF Init, KillerInit, KillerTypeOK
  <2>3. ClearTypeOK
    BY DEF Init, ClearInit, ClearTypeOK
  <2>. QED BY <2>1, <2>2, <2>3 DEF Init, NothingWanted, Verdicts, TypeOK
<1>2. TypeOK /\ UNCHANGED vars => TypeOK'
  BY DEF vars, gateEventVars, killerVars, sharedVars, clearVars, engineVars,
         TypeOK, GateEventsTypeOK, ProcTypeOK, KillerTypeOK, ClearTypeOK
<1>3. TypeOK /\ [Next]_vars => TypeOK'
  BY <1>2, DeviceType, EngineType, GateThreadsType DEF Next
<1>. QED BY <1>1, <1>3, PTL DEF Spec

------------------------------------------------------------------------------
\* The block lists.

\* ListsAgree is inductive: set_blocked is the only writer, and each of its two halves
\* leaves tickPc telling which of them ran.
THEOREM ListsCorrect == Spec => []ListsAgree
<1>1. Init => ListsAgree
  BY DEF Init, GateEventsInit, KillerInit, ListsAgree
<1>2. ListsAgree /\ [Next]_vars => ListsAgree'
  <2>. SUFFICES ASSUME ListsAgree, [Next]_vars PROVE ListsAgree'
    OBVIOUS
  <2>. USE DEF ListsAgree, gateEventVars, sharedVars, engineVars
  <2>1. CASE UNCHANGED <<blockedUids, blockedSet, blocked, tickPc, curUid>>
    BY <2>1
  <2>2. CASE Device
    BY <2>1, <2>2 DEF Device, Launch, Transact, Quit, Start, Report, Die, KeepDaemon
  <2>3. CASE GateThreads
    <3>1. UNCHANGED <<blockedUids, blockedSet>>
      BY <2>3 DEF GateThreads, DrainThread, Drain, DrainStops, KillerThread, Receive,
                  StartPoll, FinishPending, PollExited, PollWaits, CheckBlocked, EndPoll,
                  ReadNames, IdentityMatches, IdentityMisses, KillCur, TimePasses,
                  RecentElapses, Ages
    <3>. QED BY <2>1, <2>3, <3>1 DEF GateThreads, KeepEngine
  <2>4. CASE Engine
    <3>1. ASSUME NEW D, NEW W, BeginTick(D, W) PROVE ListsAgree'
      BY <3>1 DEF BeginTick
    <3>2. ASSUME NEW u \in Uids, KillBeforeBlock(u) PROVE ListsAgree'
      BY <3>2 DEF KillBeforeBlock
    <3>3. ASSUME NEW u \in Uids, RemoveFromMap(u) PROVE ListsAgree'
      BY <3>3 DEF RemoveFromMap, MapRemove
    <3>4. CASE ClearStepInTick
      BY <3>4 DEF ClearStepInTick
    <3>5. CASE ClearReturns \/ InsertFails \/ EndTick
      BY <3>5 DEF ClearReturns, InsertFails, EndTick, Applied, TickReturns
    <3>6. CASE InsertIntoMap
      BY <3>6 DEF InsertIntoMap, MapInsert
    <3>7. CASE InsertIntoMirror
      BY <3>7 DEF InsertIntoMirror
    <3>8. CASE RemoveFromMirror
      BY <3>8 DEF RemoveFromMirror
    <3>9. CASE Listen \/ StartSweep \/ DropGate
      BY <3>9 DEF Listen, StartSweep, DropGate, Applied
    <3>. QED
      BY <2>4, <3>1, <3>2, <3>3, <3>4, <3>5, <3>6, <3>7, <3>8, <3>9
         DEF Engine, EngineTick
  <2>5. CASE UNCHANGED vars
    BY <2>1, <2>5 DEF vars
  <2>. QED BY <2>2, <2>3, <2>4, <2>5 DEF Next
<1>. QED BY <1>1, <1>2, PTL DEF Spec

\* What the tick knows of the names while it applies its decisions: a uid it wants
\* blocked has a name, and once all is applied only such uids are blocked.
NamesInv ==
    /\ tickPc = "boot" => blocked = {}
    /\ tickPc \in {"apply", "clear", "insert", "mirror", "unmirror", "sweep"} =>
          \A u \in Uids : want[u] = "block" => identity[u] # {}
    /\ tickPc \in {"clear", "insert", "mirror"} => want[curUid] = "block"
    /\ tickPc = "sweep" => \A u \in blocked : want[u] = "block"
    /\ BlockedHasNames

\* As long as the block map takes every uid, a uid that is blocked between ticks has a
\* name in the index.
THEOREM NamesCorrect ==
    ASSUME InsertMayFail = FALSE
    PROVE  Spec => []BlockedHasNames
<1>1. Init => NamesInv
  BY DEF Init, NamesInv, BlockedHasNames
<1>2. TypeOK /\ NamesInv /\ [Next]_vars => NamesInv'
  <2>. SUFFICES ASSUME TypeOK, NamesInv, [Next]_vars PROVE NamesInv'
    OBVIOUS
  <2>. USE DEF NamesInv, BlockedHasNames, gateEventVars, sharedVars, engineVars
  <2>1. CASE UNCHANGED <<identity, want, blocked, tickPc, curUid>>
    BY <2>1
  <2>2. CASE Device
    BY <2>1, <2>2 DEF Device, Launch, Transact, Quit, KeepDaemon
  <2>3. CASE GateThreads
    <3>1. UNCHANGED identity
      BY <2>3 DEF GateThreads, DrainThread, Drain, DrainStops, KillerThread, Receive,
                  StartPoll, FinishPending, PollExited, PollWaits, CheckBlocked, EndPoll,
                  ReadNames, IdentityMatches, IdentityMisses, KillCur, TimePasses,
                  RecentElapses, Ages
    <3>. QED BY <2>1, <2>3, <3>1 DEF GateThreads, KeepEngine
  <2>4. ASSUME NEW D \in SUBSET Apps, NEW W \in [Uids -> Verdicts], BeginTick(D, W)
        PROVE  NamesInv'
    <3>1. tickPc' = "apply" /\ want' = W
      BY <2>4 DEF BeginTick
    <3>2. ASSUME NEW u \in Uids, W[u] = "block" PROVE identity'[u] # {}
      <4>1. PICK a \in D : a.uid = u
        BY <2>4, <3>2 DEF BeginTick
      <4>2. a.pkg \in identity'[u]
        BY <2>4, <4>1 DEF BeginTick
      <4>. QED BY <4>2
    <3>. QED BY <3>1, <3>2
  <2>5. ASSUME NEW u \in Uids, KillBeforeBlock(u) PROVE NamesInv'
    BY <2>5 DEF KillBeforeBlock, ToBlock
  <2>6. ASSUME NEW u \in Uids, RemoveFromMap(u) PROVE NamesInv'
    BY <2>6 DEF RemoveFromMap
  <2>7. ASSUME ClearStepInTick \/ InsertIntoMap \/ InsertIntoMirror \/ RemoveFromMirror
        PROVE  NamesInv'
    BY <2>7 DEF ClearStepInTick, InsertIntoMap, InsertIntoMirror, RemoveFromMirror, TypeOK
  <2>8. CASE ClearReturns
    BY <2>8 DEF ClearReturns, TickReturns, TypeOK
  <2>9. CASE StartSweep \/ EndTick
    <3>1. \A u \in blocked : want[u] = "block"
      BY <2>9 DEF StartSweep, EndTick, Applied, ToUnblock
    <3>. QED BY <2>9, <3>1 DEF StartSweep, EndTick, TickReturns, Applied, TypeOK
  <2>10. CASE Listen \/ DropGate
    BY <2>10 DEF Listen, DropGate
  <2>11. ~InsertFails
    BY DEF InsertFails
  <2>12. CASE UNCHANGED vars
    BY <2>1, <2>12 DEF vars
  <2>. QED
    BY <2>2, <2>3, <2>4, <2>5, <2>6, <2>7, <2>8, <2>9, <2>10, <2>11, <2>12
       DEF Next, Engine, EngineTick
<1>3. NamesInv => BlockedHasNames
  BY DEF NamesInv
<1>. QED BY <1>1, <1>2, <1>3, TypeCorrect, PTL DEF Spec

------------------------------------------------------------------------------
\* What a step may do to the processes.

\* The process a descriptor pins never comes back: at a later generation, or never
\* again, but not as (p, g).
LEMMA ProcessesOnlyEnd ==
    ASSUME TypeOK, [Next]_vars, NEW p \in Pids, NEW g \in Nat, g <= gen[p]
    PROVE  /\ gen[p] <= gen'[p]
           /\ proc'[p] # NoProc /\ gen'[p] = g
                 => proc[p] # NoProc /\ gen[p] = g /\ proc'[p] = proc[p]
           /\ p \in free' /\ p \notin free => gen'[p] = gen[p] + 1
<1>. DEFINE Goal ==
       /\ gen[p] <= gen'[p]
       /\ proc'[p] # NoProc /\ gen'[p] = g
             => proc[p] # NoProc /\ gen[p] = g /\ proc'[p] = proc[p]
       /\ p \in free' /\ p \notin free => gen'[p] = gen[p] + 1
<1>0. gen[p] \in Nat /\ gen \in [Pids -> 0..MaxGen] /\ proc \in [Pids -> Apps \cup {NoProc}]
  BY DEF TypeOK, GateEventsTypeOK, ProcTypeOK
<1>1. ASSUME UNCHANGED gen, proc'[p] \in {proc[p], NoProc}, free' \subseteq free
      PROVE  Goal
  BY <1>0, <1>1
<1>2. ASSUME NEW q \in Pids, NEW a \in Apps, Launch(q, a) PROVE Goal
  BY <1>0, <1>2 DEF Launch, Start, Spawn
<1>3. ASSUME NEW q \in Pids, Transact(q) \/ Quit(q) PROVE Goal
  BY <1>0, <1>1, <1>3 DEF Transact, Quit, Report, Die, Exit, ForgetDead
<1>4. CASE GateThreads
  <2>1. free' \subseteq free
    BY <1>4 DEF GateThreads, ForgetDead
  <2>2. CASE FinishPending
    BY <1>0, <1>1, <2>1, <2>2 DEF FinishPending
  <2>3. CASE KillCur
    BY <1>0, <1>1, <2>1, <2>3 DEF KillCur, PidfdKill
  <2>4. CASE UNCHANGED <<proc, gen>>
    BY <1>1, <2>1, <2>4
  <2>. QED
    BY <1>4, <2>2, <2>3, <2>4
       DEF GateThreads, DrainThread, Drain, DrainStops, KillerThread, Receive, StartPoll,
           PollExited, PollWaits, CheckBlocked, EndPoll, ReadNames, IdentityMatches,
           IdentityMisses, TimePasses, RecentElapses, Ages, gateEventVars
<1>5. CASE Engine
  <2>1. CASE ClearStepInTick
    <3>1. free' \subseteq free
      BY <2>1 DEF ClearStepInTick, ForgetDead
    <3>2. CASE SendKill
      BY <1>0, <1>1, <3>1, <3>2 DEF SendKill, PidfdKill
    <3>. QED
      BY <1>1, <2>1, <3>1, <3>2
         DEF ClearStepInTick, ClearStep, CheckOwner, OpenPidfd, procVars
  <2>2. CASE UNCHANGED <<proc, gen>> /\ free' \subseteq free
    BY <1>1, <2>2
  <2>. QED
    BY <1>5, <2>1, <2>2
       DEF Engine, EngineTick, BeginTick, KillBeforeBlock, RemoveFromMap, ClearReturns,
           InsertIntoMap, InsertFails, InsertIntoMirror, RemoveFromMirror, EndTick, Listen,
           StartSweep, DropGate, NoLongerFree, gateEventVars
<1>6. CASE UNCHANGED vars
  BY <1>1, <1>6 DEF vars, gateEventVars
<1>. QED BY <1>2, <1>3, <1>4, <1>5, <1>6 DEF Next, Device

------------------------------------------------------------------------------
\* The killer thread.

Working == killerPc \in {"names", "ident", "kill"}

\* A descriptor pins a process of the past or of the present.
PinnedInv ==
    /\ \A e \in pending : e.gen <= gen[e.pid]
    /\ Working => cur.gen <= gen[cur.pid]

\* Steps of the other threads leave the killer's view alone.
LEMMA OthersKeepKiller ==
    ASSUME [Next]_vars, ~(KillerThread /\ GateThreads), ~TimePasses
    PROVE  UNCHANGED <<pending, killerPc, cur, names>>
BY DEF Next, Device, Launch, Transact, Quit, KeepDaemon, Engine, EngineTick, BeginTick,
       KillBeforeBlock, RemoveFromMap, ClearStepInTick, ClearReturns, InsertIntoMap,
       InsertFails, InsertIntoMirror, RemoveFromMirror, EndTick, Listen, StartSweep,
       DropGate, KeepGate, GateThreads, DrainThread, Drain, DrainStops, killerVars, vars

LEMMA EntryType ==
    ASSUME TypeOK
    PROVE  /\ \A e \in pending : e.pid \in Pids /\ e.gen \in Nat
           /\ Working => cur.pid \in Pids /\ cur.gen \in Nat
BY DEF TypeOK, KillerTypeOK, Entry, Working

THEOREM PinsCorrect == Spec => []PinnedInv
<1>1. Init => PinnedInv
  BY DEF Init, KillerInit, PinnedInv, Working
<1>2. TypeOK /\ PinnedInv /\ [Next]_vars => PinnedInv'
  <2>. SUFFICES ASSUME TypeOK, PinnedInv, [Next]_vars PROVE PinnedInv'
    OBVIOUS
  <2>0. \A p \in Pids : gen[p] \in Nat /\ gen'[p] \in Nat /\ gen[p] <= gen'[p]
    <3>1. TypeOK'
      BY TypeOK, DeviceType, EngineType, GateThreadsType
         DEF Next, vars, gateEventVars, killerVars, sharedVars, clearVars, engineVars,
             TypeOK, GateEventsTypeOK, ProcTypeOK, KillerTypeOK, ClearTypeOK
    <3>. QED BY <3>1, ProcessesOnlyEnd DEF TypeOK, GateEventsTypeOK, ProcTypeOK
  <2>1. ASSUME \A e \in pending' : e \in pending \/ (e.gen = gen[e.pid] /\ e.pid \in Pids)
                                     \/ \E d \in pending : e.gen = d.gen /\ e.pid = d.pid,
               Working' => (Working /\ cur' = cur) \/ cur' \in pending
        PROVE  PinnedInv'
    BY <2>0, <2>1, EntryType DEF PinnedInv
  <2>2. CASE ~(KillerThread /\ GateThreads) /\ ~TimePasses
    BY <2>1, <2>2, OthersKeepKiller DEF Working
  <2>3. CASE Receive
    <3>1. chan # <<>> /\ Head(chan) \in Event
      BY <2>3 DEF Receive, TypeOK, KillerTypeOK
    <3>2. Head(chan).pid \in Pids
      BY <3>1 DEF Event
    <3>. QED BY <2>1, <2>3, <3>2 DEF Receive, Working
  <2>4. CASE StartPoll \/ FinishPending \/ EndPoll \/ IdentityMatches
    BY <2>1, <2>4 DEF StartPoll, FinishPending, EndPoll, IdentityMatches, Working
  <2>5. ASSUME NEW e \in todo, PollExited(e) \/ PollWaits(e) \/ CheckBlocked(e)
        PROVE  PinnedInv'
    BY <2>1, <2>5 DEF PollExited, PollWaits, CheckBlocked, Discard, Working, TypeOK,
                      KillerTypeOK
  <2>6. CASE ReadNames \/ IdentityMisses \/ KillCur
    BY <2>1, <2>6 DEF ReadNames, IdentityMisses, KillCur, Resolve, Working
  <2>7. CASE TimePasses
    <3>1. ASSUME NEW e \in pending, Ages(e) PROVE PinnedInv'
      <4>1. [e EXCEPT !.aged = TRUE].pid = e.pid /\ [e EXCEPT !.aged = TRUE].gen = e.gen
        BY DEF TypeOK, KillerTypeOK, Entry
      <4>. QED BY <2>1, <3>1, <4>1 DEF Ages, Working
    <3>2. ASSUME NEW p \in recent, RecentElapses(p) PROVE PinnedInv'
      BY <2>1, <3>2 DEF RecentElapses, killerVars, Working
    <3>. QED BY <2>7, <3>1, <3>2 DEF TimePasses
  <2>. QED BY <2>2, <2>3, <2>4, <2>5, <2>6, <2>7 DEF KillerThread
<1>. QED BY <1>1, <1>2, TypeCorrect, PTL DEF Spec

\* The process kill_if_blocked works on, while it runs, does not change behind the
\* descriptor, and one that starts now is another one.
LEMMA CurStays ==
    ASSUME TypeOK, PinnedInv, [Next]_vars, Working,
           proc'[cur.pid] # NoProc, gen'[cur.pid] = cur.gen
    PROVE  /\ Alive(cur.pid, cur.gen)
           /\ proc'[cur.pid] = proc[cur.pid]
           /\ cur.pid \in free' => cur.pid \in free
<1>1. cur.pid \in Pids /\ cur.gen \in Nat /\ cur.gen <= gen[cur.pid]
  BY EntryType DEF PinnedInv
<1>2. gen[cur.pid] \in Nat
  BY <1>1 DEF TypeOK, GateEventsTypeOK, ProcTypeOK
<1>3. proc[cur.pid] # NoProc /\ gen[cur.pid] = cur.gen /\ proc'[cur.pid] = proc[cur.pid]
  BY <1>1, ProcessesOnlyEnd
<1>4. cur.pid \in free' /\ cur.pid \notin free => gen'[cur.pid] = gen[cur.pid] + 1
  BY <1>1, ProcessesOnlyEnd
<1>. QED BY <1>2, <1>3, <1>4 DEF Alive

\* How kill_if_blocked moves: it starts with the check of the list, a name makes it
\* signal, and so does a cmdline that cannot be read - of a process that is gone.
LEMMA KillerMoves ==
    ASSUME TypeOK, [Next]_vars
    PROVE  /\ Working' =>
                \/ Working /\ cur' = cur
                \/ killerPc' = "names" /\ cur' \in todo /\ cur'.uid \in blockedSet
                   /\ UNCHANGED <<proc, gen, blockedUids, blockedSet>> /\ free' \subseteq free
           /\ killerPc' = "kill" =>
                \/ killerPc = "kill" /\ names' = names
                \/ killerPc = "ident" /\ names' = names /\ WantedName
                \/ killerPc = "ident" /\ proc[cur.pid] = NoProc
<1>1. CASE ~(KillerThread /\ GateThreads) /\ ~TimePasses
  BY <1>1, OthersKeepKiller DEF Working
<1>2. CASE Receive \/ StartPoll \/ FinishPending \/ EndPoll
  BY <1>2 DEF Receive, StartPoll, FinishPending, EndPoll, Working
<1>3. ASSUME NEW e \in todo, PollExited(e) \/ PollWaits(e)
      PROVE  killerPc' = "poll"
  BY <1>3 DEF PollExited, PollWaits
<1>4. ASSUME NEW e \in todo, CheckBlocked(e), GateThreads
      PROVE  /\ killerPc' # "kill"
             /\ Working' => /\ killerPc' = "names" /\ cur' \in todo
                            /\ cur'.uid \in blockedSet
                            /\ UNCHANGED <<proc, gen, blockedUids, blockedSet>>
                            /\ free' \subseteq free
  BY <1>4 DEF CheckBlocked, StillListed, Working, GateThreads, ForgetDead, gateEventVars,
              sharedVars
<1>5. CASE ReadNames
  BY <1>5 DEF ReadNames, Resolve, Working
<1>6. CASE IdentityMatches
  BY <1>6 DEF IdentityMatches, Working
<1>7. CASE IdentityMisses
  BY <1>7 DEF IdentityMisses, Resolve, Working
<1>8. CASE KillCur
  BY <1>8 DEF KillCur, Resolve, Working
<1>9. CASE TimePasses
  BY <1>9 DEF TimePasses, RecentElapses, Ages, Working, killerVars
<1>. QED
  BY <1>1, <1>2, <1>3, <1>4, <1>5, <1>6, <1>7, <1>8, <1>9 DEF KillerThread, Working

\* Nobody is signalled whose own name was not read and wanted.
THEOREM NamedCorrect == Spec => []KillsOnlyNamed
<1>1. Init => KillsOnlyNamed
  BY DEF Init, KillerInit, KillsOnlyNamed
<1>2. TypeOK /\ PinnedInv /\ KillsOnlyNamed /\ [Next]_vars => KillsOnlyNamed'
  <2>. SUFFICES ASSUME TypeOK, PinnedInv, KillsOnlyNamed, [Next]_vars,
                       killerPc' = "kill", Alive(cur.pid, cur.gen)'
                PROVE  proc'[cur'.pid].pkg \in names'
    BY DEF KillsOnlyNamed
  <2>1. Working /\ cur' = cur
    BY KillerMoves DEF Working
  <2>2. proc'[cur.pid] # NoProc /\ gen'[cur.pid] = cur.gen
    BY <2>1 DEF Alive
  <2>3. Alive(cur.pid, cur.gen) /\ proc'[cur.pid] = proc[cur.pid]
    BY <2>1, <2>2, CurStays
  <2>4. CASE killerPc = "kill" /\ names' = names
    BY <2>1, <2>3, <2>4 DEF KillsOnlyNamed
  <2>5. CASE killerPc = "ident" /\ names' = names /\ WantedName
    BY <2>1, <2>3, <2>5 DEF WantedName
  <2>6. CASE killerPc = "ident" /\ proc[cur.pid] = NoProc
    BY <2>3, <2>6 DEF Alive
  <2>. QED BY <2>4, <2>5, <2>6, KillerMoves
<1>. QED BY <1>1, <1>2, TypeCorrect, PinsCorrect, PTL DEF Spec

------------------------------------------------------------------------------
\* Processes that were never blocked.

\* A free process runs under a uid that is on neither list, and is not the one the
\* killer works on when that was queued for the process's own uid.
FreeInv ==
    /\ \A p \in free, u \in Uids : RunsUnder(p, u) => u \notin blockedUids \cup blockedSet
    /\ Working /\ Alive(cur.pid, cur.gen) /\ RunsUnder(cur.pid, cur.uid)
          => cur.pid \notin free

\* The lists grow only by the uid whose processes stop being free.
LEMMA FreeIsUnlisted ==
    ASSUME TypeOK, ListsAgree, FreeInv, [Next]_vars,
           NEW p \in Pids, NEW u \in Uids, p \in free', RunsUnder(p, u)'
    PROVE  u \notin blockedUids' \cup blockedSet'
<1>. DEFINE Goal == u \notin blockedUids' \cup blockedSet'
<1>1. ASSUME p \in free, RunsUnder(p, u),
             blockedUids' \subseteq blockedUids, blockedSet' \subseteq blockedSet
      PROVE  Goal
  BY <1>1 DEF FreeInv
<1>2. ASSUME NEW q \in Pids, NEW a \in Apps, Launch(q, a) PROVE Goal
  <2>0. blockedUids' = blockedUids /\ blockedSet' = blockedSet
    BY <1>2 DEF Launch, Start, KeepDaemon, sharedVars
  <2>1. CASE p = q
    <3>1. proc'[p] = a
      BY <1>2, <2>1 DEF Launch, Start, Spawn, TypeOK, GateEventsTypeOK, ProcTypeOK
    <3>2. a.uid \notin blockedUids \cup blockedSet
      BY <1>2, <2>1 DEF Launch
    <3>. QED BY <2>0, <3>1, <3>2 DEF RunsUnder
  <2>2. CASE p # q
    <3>1. p \in free /\ proc'[p] = proc[p]
      BY <1>2, <2>2 DEF Launch, Start, Spawn, TypeOK, GateEventsTypeOK, ProcTypeOK
    <3>. QED BY <1>1, <2>0, <3>1 DEF RunsUnder
  <2>. QED BY <2>1, <2>2
<1>3. ASSUME free' \subseteq free, proc'[p] \in {proc[p], NoProc} PROVE
             p \in free /\ RunsUnder(p, u)
  BY <1>3 DEF RunsUnder
<1>4. ASSUME NEW q \in Pids, Transact(q) \/ Quit(q) PROVE Goal
  BY <1>1, <1>3, <1>4
     DEF Transact, Quit, Report, Die, Exit, ForgetDead, KeepDaemon, sharedVars, TypeOK,
         GateEventsTypeOK, ProcTypeOK
<1>5. CASE GateThreads
  <2>1. free' \subseteq free
    BY <1>5 DEF GateThreads, ForgetDead
  <2>2. UNCHANGED <<blockedUids, blockedSet>> /\ proc'[p] \in {proc[p], NoProc}
    BY <1>5 DEF GateThreads, DrainThread, Drain, DrainStops, KillerThread, Receive,
                StartPoll, FinishPending, PollExited, PollWaits, CheckBlocked, EndPoll,
                ReadNames, IdentityMatches, IdentityMisses, KillCur, PidfdKill, TimePasses,
                RecentElapses, Ages, gateEventVars, sharedVars, TypeOK, GateEventsTypeOK,
                ProcTypeOK
  <2>. QED BY <1>1, <1>3, <2>1, <2>2
<1>6. CASE InsertIntoMap
  <2>1. p \in free /\ ~RunsUnder(p, curUid) /\ proc' = proc
    BY <1>6 DEF InsertIntoMap, NoLongerFree
  <2>2. u # curUid
    BY <2>1 DEF RunsUnder
  <2>. QED
    BY <1>6, <2>1, <2>2 DEF InsertIntoMap, MapInsert, sharedVars, FreeInv, RunsUnder
<1>7. CASE InsertIntoMirror
  <2>1. curUid \in blockedUids
    BY <1>7 DEF InsertIntoMirror, ListsAgree
  <2>. QED
    BY <1>7, <2>1 DEF InsertIntoMirror, gateEventVars, FreeInv, RunsUnder
<1>8. CASE ClearStepInTick
  <2>1. free' \subseteq free /\ UNCHANGED <<blockedUids, blockedSet>>
    BY <1>8 DEF ClearStepInTick, ForgetDead, sharedVars
  <2>2. proc'[p] \in {proc[p], NoProc}
    BY <1>8 DEF ClearStepInTick, ClearStep, CheckOwner, OpenPidfd, SendKill, PidfdKill,
                procVars, TypeOK, GateEventsTypeOK, ProcTypeOK
  <2>. QED BY <1>1, <1>3, <2>1, <2>2
<1>9. ASSUME UNCHANGED <<proc, free>>,
             blockedUids' \subseteq blockedUids, blockedSet' \subseteq blockedSet
      PROVE  Goal
  BY <1>1, <1>9 DEF RunsUnder
<1>10. ASSUME \/ \E D, W : BeginTick(D, W)
              \/ \E v \in Uids : KillBeforeBlock(v) \/ RemoveFromMap(v)
              \/ ClearReturns \/ InsertFails \/ RemoveFromMirror \/ EndTick \/ Listen
              \/ StartSweep \/ DropGate
       PROVE  Goal
  BY <1>9, <1>10
     DEF BeginTick, KillBeforeBlock, RemoveFromMap, MapRemove, ClearReturns, InsertFails,
         RemoveFromMirror, EndTick, Listen, StartSweep, DropGate, gateEventVars, sharedVars
<1>11. CASE UNCHANGED vars
  BY <1>9, <1>11 DEF vars, gateEventVars, sharedVars
<1>. QED
  BY <1>2, <1>4, <1>5, <1>6, <1>7, <1>8, <1>10, <1>11
     DEF Next, Device, Engine, EngineTick

\* The pid is pinned before the block list is read: what was never blocked is spared.
THEOREM FreeCorrect == Spec => []FreeIsSpared
<1>1. Init => FreeInv
  BY DEF Init, KillerInit, FreeInv, Working
<1>2. TypeOK /\ PinnedInv /\ ListsAgree /\ FreeInv /\ [Next]_vars => FreeInv'
  <2>. SUFFICES ASSUME TypeOK, PinnedInv, ListsAgree, FreeInv, [Next]_vars
                PROVE  FreeInv'
    OBVIOUS
  <2>0. free' \subseteq Pids
    BY DeviceType, EngineType, GateThreadsType DEF Next, TypeOK, vars
  <2>1. ASSUME NEW p \in free', NEW u \in Uids, RunsUnder(p, u)'
        PROVE  u \notin blockedUids' \cup blockedSet'
    BY <2>0, <2>1, FreeIsUnlisted
  <2>2. ASSUME Working', Alive(cur.pid, cur.gen)', RunsUnder(cur.pid, cur.uid)'
        PROVE  cur'.pid \notin free'
    <3>1. CASE Working /\ cur' = cur
      <4>1. proc'[cur.pid] # NoProc /\ gen'[cur.pid] = cur.gen
        BY <2>2, <3>1 DEF Alive
      <4>2. Alive(cur.pid, cur.gen) /\ proc'[cur.pid] = proc[cur.pid]
            /\ (cur.pid \in free' => cur.pid \in free)
        BY <3>1, <4>1, CurStays
      <4>. QED BY <2>2, <3>1, <4>2 DEF FreeInv, RunsUnder
    <3>2. CASE /\ cur' \in todo /\ cur'.uid \in blockedSet
               /\ UNCHANGED <<proc, gen, blockedUids, blockedSet>> /\ free' \subseteq free
      <4>1. cur'.pid \in Pids /\ cur'.uid \in Uids
        BY <3>2 DEF TypeOK, KillerTypeOK, Entry
      <4>. QED BY <2>2, <3>2, <4>1 DEF FreeInv, RunsUnder
    <3>. QED BY <2>2, <3>1, <3>2, KillerMoves
  <2>. QED BY <2>1, <2>2 DEF FreeInv
<1>3. FreeInv => FreeIsSpared
  BY DEF FreeInv, FreeIsSpared, Working
<1>. QED BY <1>1, <1>2, <1>3, TypeCorrect, PinsCorrect, ListsCorrect, PTL DEF Spec
==============================================================================
