------------------------------ MODULE GateEvents ------------------------------
(***************************************************************************)
(* What the kernel side of the gate promises to the daemon: an event       *)
(* <<pid, uid>> enters the ring only at a moment when process pid runs     *)
(* under uid and uid is on the block map.  Nothing is promised about how   *)
(* many events a process causes: any of them may be lost.                  *)
(* KernelGate implements this specification; Killer is built on it.        *)
(***************************************************************************)
EXTENDS Processes, Sequences

CONSTANT RingMax    \* bound: events the ring buffer holds (64 KiB in the code)

ASSUME GateEventsAssumption == RingMax \in Nat

VARIABLES blockedUids,  \* the BPF map blocked_uids
          ring          \* the BPF ring buffer: a sequence of events

gateEventVars == <<proc, gen, blockedUids, ring>>

Event == [pid : Pids, uid : Uids]

GateEventsTypeOK ==
    /\ ProcTypeOK
    /\ blockedUids \subseteq Uids
    /\ ring \in Seq(Event)

GateEventsInit ==
    /\ ProcInit
    /\ blockedUids = {}
    /\ ring = <<>>

\* An event about process p, running under uid u, is submitted.
Submit(p, u) ==
    /\ Len(ring) < RingMax
    /\ ring' = Append(ring, [pid |-> p, uid |-> u])

\* A process starts; its start may be reported when its uid is blocked.
Start(p, a) ==
    /\ Spawn(p, a)
    /\ \/ a.uid \in blockedUids /\ Submit(p, a.uid)
       \/ UNCHANGED ring
    /\ UNCHANGED blockedUids

\* A process of a blocked uid may be reported at any time of its life.
Report(p) ==
    /\ proc[p] # NoProc
    /\ proc[p].uid \in blockedUids
    /\ Submit(p, proc[p].uid)
    /\ UNCHANGED <<proc, gen, blockedUids>>

Die(p) == Exit(p) /\ UNCHANGED <<blockedUids, ring>>

\* Mutant: an error of the map is swallowed.
MapInsertIgnored(u) == blockedUids' = blockedUids

\* The interface to the daemon: map updates and ring consumption.
MapInsert(u) == blockedUids' = blockedUids \cup {u}
MapRemove(u) == blockedUids' = blockedUids \ {u}
RingTake == ring # <<>> /\ ring' = Tail(ring)

DaemonStep ==
    \/ \E u \in Uids : (MapInsert(u) \/ MapRemove(u)) /\ UNCHANGED <<proc, gen, ring>>
    \/ RingTake /\ UNCHANGED <<proc, gen, blockedUids>>

GateEventsNext ==
    \/ \E p \in Pids, a \in Apps : Start(p, a)
    \/ \E p \in Pids : Report(p) \/ Die(p)
    \/ DaemonStep

GateEventsSpec == GateEventsInit /\ [][GateEventsNext]_gateEventVars
==============================================================================
