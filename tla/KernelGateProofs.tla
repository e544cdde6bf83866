--------------------------- MODULE KernelGateProofs ---------------------------
(***************************************************************************)
(* Theorems about KernelGate, for every set of pids and apps, every size   *)
(* of its maps and ring, and every set of attached probes.                 *)
(***************************************************************************)
EXTENDS KernelGate, FiniteSetTheorems, TLAPS

\* What an emitted event adds to the ring is an event.
LEMMA EmitType ==
    ASSUME NEW p \in Pids, NEW u \in Uids, ring \in Seq(Event), Emit(p, u)
    PROVE  ring' \in Seq(Event)
<1>. [pid |-> p, uid |-> u] \in Event
  BY DEF Event
<1>. QED BY DEF Emit

LEMMA BumpType ==
    ASSUME NEW S, stats \in [Counters -> 0..MaxStat], Bump(S)
    PROVE  stats' \in [Counters -> 0..MaxStat]
BY KernelGateAssumption DEF Bump, KernelGateAssumption

\* The uid of a running process is the uid of an app.
LEMMA RunningUid ==
    ASSUME ProcTypeOK, NEW p \in Pids, proc[p] # NoProc
    PROVE  proc[p].uid \in Uids
BY DEF ProcTypeOK, Uids

LEMMA SpawnType ==
    ASSUME ProcTypeOK, NEW p \in Pids, NEW a \in Apps, Spawn(p, a)
    PROVE  ProcTypeOK'
BY ProcessesAssumption DEF ProcTypeOK, Spawn, ProcessesAssumption

LEMMA ExitType ==
    ASSUME ProcTypeOK, NEW p \in Pids, Exit(p)
    PROVE  ProcTypeOK'
BY DEF ProcTypeOK, Exit

LEMMA UidSwitchType ==
    ASSUME TypeOK, NEW p \in Pids, NEW u \in Uids, UidSwitchProbe(p, u)
    PROVE  ring' \in Seq(Event) /\ stats' \in [Counters -> 0..MaxStat]
BY EmitType, BumpType DEF TypeOK, UidSwitchProbe

\* Every variable keeps its type: the ring holds events, the marks and report times
\* are about pids, the counters saturate.
THEOREM TypeCorrect == Spec => []TypeOK
<1>1. Init => TypeOK
  BY KernelGateAssumption, ProcessesAssumption
     DEF Init, TypeOK, ProcInit, ProcTypeOK, KernelGateAssumption, ProcessesAssumption
<1>2. TypeOK /\ [Next]_vars => TypeOK'
  <2>. SUFFICES ASSUME TypeOK, [Next]_vars PROVE TypeOK'
    OBVIOUS
  <2>1. ASSUME NEW p \in Pids, NEW a \in Apps, Launch(p, a) PROVE TypeOK'
    <3>1. ProcTypeOK'
      BY <2>1, SpawnType DEF Launch, TypeOK
    <3>2. a.uid \in Uids
      BY DEF Uids
    <3>. QED BY <2>1, <3>1, <3>2, UidSwitchType DEF Launch, TypeOK
  <2>2. ASSUME NEW p \in Pids, CredChange(p) PROVE TypeOK'
    <3>1. proc[p].uid \in Uids
      BY <2>2, RunningUid DEF CredChange, Blocked, TypeOK
    <3>. QED BY <2>2, <3>1, UidSwitchType DEF CredChange, TypeOK, ProcTypeOK
  <2>3. ASSUME NEW p \in Pids, BinderEntry(p) PROVE TypeOK'
    BY <2>3, BumpType DEF BinderEntry, TypeOK, ProcTypeOK
  <2>4. ASSUME NEW p \in Pids, BinderEntryFault(p) PROVE TypeOK'
    BY <2>4, BumpType DEF BinderEntryFault, TypeOK, ProcTypeOK
  <2>5. ASSUME NEW p \in Pids, BinderExit(p) PROVE TypeOK'
    <3>1. proc[p].uid \in Uids
      BY <2>5, RunningUid DEF BinderExit, TypeOK
    <3>. QED BY <2>5, <3>1, EmitType, BumpType DEF BinderExit, ClearMark, TypeOK, ProcTypeOK
  <2>6. ASSUME NEW p \in Pids, Die(p) PROVE TypeOK'
    BY <2>6, ExitType DEF Die, TypeOK
  <2>7. ASSUME NEW p \in Pids, CooldownElapses(p) PROVE TypeOK'
    BY <2>7 DEF CooldownElapses, TypeOK, ProcTypeOK
  <2>8. ASSUME NEW u \in Uids, NEW b \in BOOLEAN, SetBlocked(u, b) PROVE TypeOK'
    BY <2>8 DEF SetBlocked, TypeOK, ProcTypeOK
  <2>9. CASE Consume
    BY <2>9 DEF Consume, TypeOK, ProcTypeOK
  <2>10. CASE UNCHANGED vars
    BY <2>10 DEF vars, TypeOK, ProcTypeOK
  <2>. QED
    BY <2>1, <2>2, <2>3, <2>4, <2>5, <2>6, <2>7, <2>8, <2>9, <2>10 DEF Next
<1>. QED BY <1>1, <1>2, PTL DEF Spec

------------------------------------------------------------------------------

\* A probe that emits does, or loses, exactly what GateEvents lets happen.
LEMMA EmitIsSubmit ==
    ASSUME ring \in Seq(Event), NEW p, NEW u, Emit(p, u)
    PROVE  Promise!Submit(p, u) \/ UNCHANGED ring
BY KernelGateAssumption DEF Emit, RingFull, Promise!Submit, KernelGateAssumption

\* The BPF program implements the promise the daemon relies on: an event enters the
\* ring only while the process it names runs under the uid it names, and that uid is
\* on the block map - with recycled tgids, stale marks, full maps and any
\* set of attached probes.
THEOREM ImplementsGateEvents == Spec => EventsAreAboutBlockedProcesses
<1>1. Init => Promise!GateEventsInit
  BY DEF Init, Promise!GateEventsInit, ProcInit, Promise!ProcInit
<1>2. TypeOK /\ [Next]_vars => [Promise!GateEventsNext]_(Promise!gateEventVars)
  <2>. SUFFICES ASSUME TypeOK, [Next]_vars
                PROVE  Promise!GateEventsNext \/ UNCHANGED Promise!gateEventVars
    OBVIOUS
  <2>. USE DEF Promise!gateEventVars
  <2>1. ASSUME NEW p \in Pids, NEW a \in Apps, Launch(p, a)
        PROVE  Promise!GateEventsNext
    <3>1. Promise!Start(p, a)
      BY <2>1, EmitIsSubmit
         DEF Launch, UidSwitchProbe, Promise!Start, Spawn, Promise!Spawn, TypeOK
    <3>. QED BY <3>1 DEF Promise!GateEventsNext
  <2>2. ASSUME NEW p \in Pids, CredChange(p)
        PROVE  Promise!GateEventsNext \/ UNCHANGED Promise!gateEventVars
    <3>1. Promise!Report(p) \/ UNCHANGED ring
      BY <2>2, EmitIsSubmit
         DEF CredChange, UidSwitchProbe, Blocked, Promise!Report, TypeOK
    <3>. QED BY <2>2, <3>1 DEF CredChange, Promise!GateEventsNext
  <2>3. ASSUME NEW p \in Pids, BinderEntry(p) \/ BinderEntryFault(p)
        PROVE  UNCHANGED Promise!gateEventVars
    BY <2>3 DEF BinderEntry, BinderEntryFault
  <2>4. ASSUME NEW p \in Pids, BinderExit(p)
        PROVE  Promise!GateEventsNext \/ UNCHANGED Promise!gateEventVars
    <3>1. Promise!Report(p) \/ UNCHANGED ring
      BY <2>4, EmitIsSubmit DEF BinderExit, Blocked, Promise!Report, TypeOK
    <3>. QED BY <2>4, <3>1 DEF BinderExit, Promise!GateEventsNext
  <2>5. ASSUME NEW p \in Pids, Die(p)
        PROVE  Promise!GateEventsNext
    BY <2>5 DEF Die, Exit, Promise!Die, Promise!Exit, Promise!GateEventsNext
  <2>6. ASSUME NEW p \in Pids, CooldownElapses(p)
        PROVE  UNCHANGED Promise!gateEventVars
    BY <2>6 DEF CooldownElapses
  <2>7. ASSUME NEW u \in Uids, NEW b \in BOOLEAN, SetBlocked(u, b)
        PROVE  Promise!GateEventsNext
    BY <2>7 DEF SetBlocked, Promise!MapInsert, Promise!MapRemove, Promise!DaemonStep,
                Promise!GateEventsNext, Uids, Promise!Uids
  <2>8. CASE Consume
    BY <2>8 DEF Consume, Promise!RingTake, Promise!DaemonStep, Promise!GateEventsNext
  <2>9. CASE UNCHANGED vars
    BY <2>9 DEF vars
  <2>. QED
    BY <2>1, <2>2, <2>3, <2>4, <2>5, <2>6, <2>7, <2>8, <2>9 DEF Next
<1>. QED
  BY <1>1, <1>2, TypeCorrect, PTL
     DEF Spec, EventsAreAboutBlockedProcesses, Promise!GateEventsSpec

------------------------------------------------------------------------------

\* EventsNeedMarks is inductive once the set of marks is known to be finite.
MarksInv == IsFiniteSet(spawned) /\ EventsNeedMarks

LEMMA EntryKeepsMarks ==
    ASSUME TypeOK, MarksInv, NEW p \in Pids, BinderEntry(p)
    PROVE  MarksInv'
<1>1. spawned' = spawned \/ spawned' = spawned \cup {p}
  BY DEF BinderEntry
<1>2. IsFiniteSet(spawned') /\ Cardinality(spawned') <= Cardinality(spawned) + 1
  <2>1. IsFiniteSet(spawned) /\ Cardinality(spawned) \in Nat
    BY FS_CardinalityType DEF MarksInv
  <2>2. CASE spawned' = spawned
    BY <2>1, <2>2
  <2>3. CASE spawned' = spawned \cup {p}
    BY <2>1, <2>3, FS_AddElement
  <2>. QED BY <1>1, <2>2, <2>3
<1>3. /\ stats["marks"] \in Nat /\ stats["events"] \in Nat
      /\ stats'["events"] = stats["events"]
      /\ stats["marks"] < MaxStat => stats'["marks"] = stats["marks"] + 1
      /\ stats["marks"] >= MaxStat => stats'["marks"] = stats["marks"]
  BY KernelGateAssumption DEF BinderEntry, Bump, Counters, TypeOK, KernelGateAssumption
<1>4. Cardinality(spawned) \in Nat /\ Cardinality(spawned') \in Nat
  BY <1>2, FS_CardinalityType DEF MarksInv
<1>. QED
  BY <1>2, <1>3, <1>4, KernelGateAssumption
     DEF MarksInv, EventsNeedMarks, KernelGateAssumption

LEMMA ExitKeepsMarks ==
    ASSUME TypeOK, MarksInv, NEW p \in Pids, BinderExit(p)
    PROVE  MarksInv'
<1>1. p \in spawned /\ spawned' = spawned \ {p}
  BY DEF BinderExit, ClearMark
<1>2. IsFiniteSet(spawned') /\ Cardinality(spawned') = Cardinality(spawned) - 1
  BY <1>1, FS_RemoveElement DEF MarksInv
<1>3. /\ stats["marks"] \in Nat /\ stats["events"] \in Nat
      /\ stats'["marks"] = stats["marks"]
      /\ stats'["events"] \in Nat
      /\ stats'["events"] <= stats["events"] + 1
  BY KernelGateAssumption DEF BinderExit, Bump, Counters, TypeOK, KernelGateAssumption
<1>4. Cardinality(spawned) \in Nat
  BY FS_CardinalityType DEF MarksInv
<1>. QED
  BY <1>2, <1>3, <1>4, KernelGateAssumption
     DEF MarksInv, EventsNeedMarks, KernelGateAssumption

\* No other step touches the marks or the two counters.
LEMMA OthersKeepMarks ==
    ASSUME TypeOK, MarksInv,
           UNCHANGED spawned,
           UNCHANGED stats
             \/ (\E S : Bump(S) /\ {"marks", "events"} \cap S = {})
    PROVE  MarksInv'
BY DEF TypeOK, MarksInv, EventsNeedMarks, Bump, Counters

LEMMA UidSwitchKeepsMarks ==
    ASSUME TypeOK, MarksInv, UNCHANGED spawned, NEW p, NEW u, UidSwitchProbe(p, u)
    PROVE  MarksInv'
<1>1. CASE UNCHANGED stats
  BY <1>1, OthersKeepMarks
<1>2. CASE Bump({"uid_switch_events"})
  BY <1>2, OthersKeepMarks
<1>3. CASE Bump({"uid_switch_events"} \cup {"uid_switch_ringbuf_full"})
  BY <1>3, OthersKeepMarks
<1>4. Bump({"uid_switch_events"} \cup {}) => Bump({"uid_switch_events"})
  BY DEF Bump
<1>. QED BY <1>1, <1>2, <1>3, <1>4 DEF UidSwitchProbe

\* For every number of pids and every size of the maps: the binder anchor emits no
\* event without a mark of its own.
THEOREM MarksCorrect == Spec => []EventsNeedMarks
<1>1. Init => MarksInv
  <2>. SUFFICES ASSUME Init PROVE MarksInv
    OBVIOUS
  <2>1. IsFiniteSet(spawned) /\ Cardinality(spawned) = 0
    BY FS_EmptySet DEF Init
  <2>. QED BY <2>1 DEF Init, MarksInv, EventsNeedMarks, Counters
<1>2. TypeOK /\ MarksInv /\ [Next]_vars => MarksInv'
  <2>. SUFFICES ASSUME TypeOK, MarksInv, [Next]_vars PROVE MarksInv'
    OBVIOUS
  <2>1. ASSUME NEW p \in Pids, NEW a \in Apps, Launch(p, a) PROVE MarksInv'
    BY <2>1, UidSwitchKeepsMarks DEF Launch
  <2>2. ASSUME NEW p \in Pids, CredChange(p) PROVE MarksInv'
    BY <2>2, UidSwitchKeepsMarks DEF CredChange
  <2>3. ASSUME NEW p \in Pids, BinderEntry(p) PROVE MarksInv'
    BY <2>3, EntryKeepsMarks
  <2>4. ASSUME NEW p \in Pids, BinderEntryFault(p) PROVE MarksInv'
    BY <2>4, OthersKeepMarks DEF BinderEntryFault
  <2>5. ASSUME NEW p \in Pids, BinderExit(p) PROVE MarksInv'
    BY <2>5, ExitKeepsMarks
  <2>6. ASSUME UNCHANGED <<spawned, stats>> PROVE MarksInv'
    BY <2>6, OthersKeepMarks
  <2>. QED
    BY <2>1, <2>2, <2>3, <2>4, <2>5, <2>6
       DEF Next, vars, Die, CooldownElapses, SetBlocked, Consume
<1>3. MarksInv => EventsNeedMarks
  BY DEF MarksInv
<1>. QED BY <1>1, <1>2, <1>3, TypeCorrect, PTL DEF Spec
==============================================================================
