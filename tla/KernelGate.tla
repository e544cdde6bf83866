------------------------------ MODULE KernelGate ------------------------------
(***************************************************************************)
(* daemon/bpf/gate.bpf.c: the three probes and the BPF maps they share.    *)
(*                                                                         *)
(*   gate_binder_entry  a blocked process enters binder_transaction with a *)
(*                      non-zero handle: mark its tgid, once per cooldown  *)
(*   gate_binder_exit   the marked process leaves it: clear, emit          *)
(*   gate_uid_switch    a process switched credentials to a blocked uid    *)
(*                                                                         *)
(* A probe runs to its end in the context of one process and is one step.  *)
(* Time is abstracted to the 5 s report cooldown of each tgid, which       *)
(* elapses at any moment.  The block map is written and the ring consumed  *)
(* by the daemon, free to do so at any time.                               *)
(***************************************************************************)
EXTENDS Processes, Sequences, FiniteSets

CONSTANTS RingMax,       \* bound: events the ring buffer holds
          SpawnedMax,    \* entries of the map spawned (1024 in the code)
          ReportedMax,   \* entries of the map reported (1024 in the code)
          Attached,      \* the probes this kernel accepted
          MaxStat        \* bound: the health counters saturate here

Probes == {"binder_entry", "binder_exit", "uid_switch"}

ASSUME KernelGateAssumption ==
    /\ RingMax \in Nat
    /\ SpawnedMax \in Nat
    /\ ReportedMax \in Nat
    /\ MaxStat \in Nat
    \* Gate::start gives up when neither of these two could be attached
    /\ Attached \subseteq Probes
    /\ Attached \cap {"binder_entry", "uid_switch"} # {}

VARIABLES blockedUids,  \* block map: the uids it holds
          ring,         \* the event ring buffer
          spawned,      \* the tgids marked between entry and exit
          reported,     \* tgid -> "none" (no entry), "recent" or "old" report time
          stats         \* the health counters, summed over the CPUs

vars == <<proc, gen, blockedUids, ring, spawned, reported, stats>>

Event == [pid : Pids, uid : Uids]
Counters == {"marks", "events", "ringbuf_full", "uid_switch_events",
             "uid_switch_ringbuf_full", "probe_read_failures"}

TypeOK ==
    /\ ProcTypeOK
    /\ blockedUids \subseteq Uids
    /\ ring \in Seq(Event)
    /\ spawned \subseteq Pids
    /\ reported \in [Pids -> {"none", "recent", "old"}]
    /\ stats \in [Counters -> 0..MaxStat]

Init ==
    /\ ProcInit
    /\ blockedUids = {}
    /\ ring = <<>>
    /\ spawned = {}
    /\ reported = [p \in Pids |-> "none"]
    /\ stats = [c \in Counters |-> 0]

------------------------------------------------------------------------------
\* Helpers of the BPF program.

\* Mutant: the map is not looked up.
BlockedWhoever(p) == proc[p] # NoProc

Blocked(p) == proc[p] # NoProc /\ proc[p].uid \in blockedUids

RingFull == Len(ring) >= RingMax

\* Mutant: pid and uid change places in struct event.
EmitSwapped(p, u) ==
    ring' = IF RingFull THEN ring ELSE Append(ring, [pid |-> u, uid |-> p])

\* emit(): the event is lost when the ring is full.
Emit(p, u) ==
    ring' = IF RingFull THEN ring ELSE Append(ring, [pid |-> p, uid |-> u])

Bump(counters) ==
    stats' = [c \in Counters |->
                IF c \in counters /\ stats[c] < MaxStat THEN stats[c] + 1 ELSE stats[c]]

\* A hash map takes a new key only while it has room; the BPF program ignores
\* the error.
ReportedHasRoom(p) ==
    reported[p] # "none" \/ Cardinality({q \in Pids : reported[q] # "none"}) < ReportedMax
SpawnedHasRoom(p) == p \in spawned \/ Cardinality(spawned) < SpawnedMax

------------------------------------------------------------------------------
\* The probes.

\* gate_uid_switch, for a process that now runs under uid u.
UidSwitchProbe(p, u) ==
    IF "uid_switch" \in Attached /\ u \in blockedUids
    THEN /\ Emit(p, u)
         /\ Bump({"uid_switch_events"}
                    \cup IF RingFull THEN {"uid_switch_ringbuf_full"} ELSE {})
    ELSE UNCHANGED <<ring, stats>>

\* zygote's child takes the app's uid: credentials change and the probe runs.
Launch(p, a) ==
    /\ Spawn(p, a)
    /\ UidSwitchProbe(p, a.uid)
    /\ UNCHANGED <<blockedUids, spawned, reported>>

\* A running process commits credentials again under the same uid (an exec, a
\* capability drop): the probe has no rate limit.
CredChange(p) ==
    /\ Blocked(p)
    /\ UidSwitchProbe(p, proc[p].uid)
    /\ UNCHANGED <<proc, gen, blockedUids, spawned, reported>>

\* gate_binder_entry on a transaction to a non-zero handle.
BinderEntry(p) ==
    /\ "binder_entry" \in Attached
    /\ Blocked(p)
    /\ reported[p] # "recent"
    /\ reported' = IF ReportedHasRoom(p) THEN [reported EXCEPT ![p] = "recent"] ELSE reported
    /\ spawned' = IF SpawnedHasRoom(p) THEN spawned \cup {p} ELSE spawned
    /\ Bump({"marks"})
    /\ UNCHANGED <<proc, gen, blockedUids, ring>>

\* gate_binder_entry when the transaction data cannot be read.
BinderEntryFault(p) ==
    /\ "binder_entry" \in Attached
    /\ Blocked(p)
    /\ Bump({"probe_read_failures"})
    /\ UNCHANGED <<proc, gen, blockedUids, ring, spawned, reported>>

\* Mutant: the mark stays after the event.
KeepMark(p) == spawned' = spawned

ClearMark(p) == spawned' = spawned \ {p}

\* gate_binder_exit: the mark goes either way, the event only while blocked.
BinderExit(p) ==
    /\ "binder_exit" \in Attached
    /\ proc[p] # NoProc
    /\ p \in spawned
    /\ ClearMark(p)
    /\ IF Blocked(p)
       THEN /\ Emit(p, proc[p].uid)
            /\ Bump({"events"} \cup IF RingFull THEN {"ringbuf_full"} ELSE {})
       ELSE UNCHANGED <<ring, stats>>
    /\ UNCHANGED <<proc, gen, blockedUids, reported>>

\* A process ends, possibly inside a transaction: its mark and its report time
\* stay in the maps.
Die(p) == Exit(p) /\ UNCHANGED <<blockedUids, ring, spawned, reported, stats>>

\* More than REPORT_COOLDOWN_NS since the last report of p.
CooldownElapses(p) ==
    /\ reported[p] = "recent"
    /\ reported' = [reported EXCEPT ![p] = "old"]
    /\ UNCHANGED <<proc, gen, blockedUids, ring, spawned, stats>>

------------------------------------------------------------------------------
\* The daemon's side of the maps.

SetBlocked(u, b) ==
    /\ blockedUids' = IF b THEN blockedUids \cup {u} ELSE blockedUids \ {u}
    /\ UNCHANGED <<proc, gen, ring, spawned, reported, stats>>

Consume ==
    /\ ring # <<>>
    /\ ring' = Tail(ring)
    /\ UNCHANGED <<proc, gen, blockedUids, spawned, reported, stats>>

Next ==
    \/ \E p \in Pids, a \in Apps : Launch(p, a)
    \/ \E p \in Pids : \/ CredChange(p)
                       \/ BinderEntry(p)
                       \/ BinderEntryFault(p)
                       \/ BinderExit(p)
                       \/ Die(p)
                       \/ CooldownElapses(p)
    \/ \E u \in Uids, b \in BOOLEAN : SetBlocked(u, b)
    \/ Consume

Spec == Init /\ [][Next]_vars

------------------------------------------------------------------------------
\* Properties.

\* Whatever the probes and their shared maps do, an event is about a process that
\* runs under a blocked uid at the moment it is submitted: KernelGate implements
\* the promise of GateEvents (gate.bpf.c: blocked() is checked again at exit).
Promise == INSTANCE GateEvents
EventsAreAboutBlockedProcesses == Promise!GateEventsSpec

\* Every binder event consumes one accepted mark, across recycled tgids and
\* blocks that come and go: counted events and outstanding marks never exceed the
\* accepted marks (gate.bpf.c: the mark is cleared either way at exit).
EventsNeedMarks ==
    stats["marks"] < MaxStat =>
        stats["events"] + Cardinality(spawned) <= stats["marks"]
==============================================================================
