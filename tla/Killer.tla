-------------------------------- MODULE Killer --------------------------------
(***************************************************************************)
(* The two threads of daemon/src/gate.rs behind the kernel probes: the     *)
(* drain thread moves events from the ring to a channel, the killer thread *)
(* pins each pid with a pidfd, waits for the foreground or the timeout and *)
(* signals after two checks (kill_if_blocked, identity_ok).                *)
(*                                                                         *)
(* The kernel side is GateEvents, which KernelGate implements.  Abstracted *)
(* here: oom_score_adj is an answer the environment gives at each read; an *)
(* app's cmdline may still be the name inherited from zygote at any read;  *)
(* two pending entries with equal fields are one; the counters shown by    *)
(* status are left out.  The order in which swap_remove leaves the pending *)
(* vector is arbitrary.                                                    *)
(***************************************************************************)
EXTENDS GateEvents

CONSTANTS ChanMax,         \* bound: events queued between the two threads
          IdentityTries,   \* cmdline reads before a kill is refused (20)
          NoEntry          \* no pending entry is being handled

ASSUME KillerAssumption ==
    /\ ChanMax \in Nat
    /\ IdentityTries \in Nat \ {0}

VARIABLES recent,      \* pids queued less than 5 s ago (drain thread)
          chan,        \* the mpsc channel: events on their way to the killer
          pending,     \* entries pinned and waiting, [pid, gen, uid, aged]
          todo,        \* entries this poll pass has not looked at yet
          killerPc,    \* where the killer thread is
          cur,         \* the entry kill_if_blocked works on
          names,       \* package names read from the index for cur
          tries,       \* cmdline reads made for cur
          seen,        \* some read of cur's cmdline gave a name
          blockedSet,  \* mirror of the block map, shared with the engine
          identity,    \* uid -> package names blocked for it, shared too
          gatePhase    \* "up", "waking" (Drop wrote the pipe), "closing"
                       \* (the sender is dropped), "down"

drainVars == <<recent>>
killerVars == <<pending, todo, killerPc, cur, names, tries, seen>>
sharedVars == <<blockedSet, identity>>

Entry == [pid : Pids, gen : 0..MaxGen, uid : Uids, aged : BOOLEAN]

KillerTypeOK ==
    /\ recent \subseteq Pids
    /\ chan \in Seq(Event)
    /\ pending \subseteq Entry
    /\ todo \subseteq pending
    /\ killerPc \in {"recv", "more", "poll", "names", "ident", "kill", "done"}
    /\ cur \in Entry \cup {NoEntry}
    /\ killerPc \in {"names", "ident", "kill"} => cur \in Entry
    /\ names \subseteq Pkgs
    /\ tries \in 0..IdentityTries
    /\ seen \in BOOLEAN
    /\ blockedSet \subseteq Uids
    /\ identity \in [Uids -> SUBSET Pkgs]
    /\ gatePhase \in {"up", "waking", "closing", "down"}

KillerInit ==
    /\ recent = {}
    /\ chan = <<>>
    /\ pending = {}
    /\ todo = {}
    /\ killerPc = "recv"
    /\ cur = NoEntry
    /\ names = {}
    /\ tries = 0
    /\ seen = FALSE
    /\ blockedSet = {}
    /\ identity = [u \in Uids |-> {}]
    /\ gatePhase = "up"

------------------------------------------------------------------------------
\* The drain thread.

\* One event: dropped when its pid was queued less than 5 s ago, else queued.
Drain ==
    /\ gatePhase \in {"up", "waking"}
    /\ RingTake
    /\ LET e == Head(ring) IN
       IF e.pid \in recent
       THEN UNCHANGED <<recent, chan>>
       ELSE /\ Len(chan) < ChanMax
            /\ chan' = Append(chan, e)
            /\ recent' = recent \cup {e.pid}
    /\ UNCHANGED <<proc, gen, blockedUids, killerVars, sharedVars, gatePhase>>

\* Five seconds passed since p was queued.
RecentElapses(p) ==
    /\ p \in recent
    /\ recent' = recent \ {p}
    /\ UNCHANGED <<gateEventVars, chan, killerVars, sharedVars, gatePhase>>

\* The wake pipe is readable: the thread leaves its loop and drops the sender.
DrainStops ==
    /\ gatePhase = "waking"
    /\ gatePhase' = "closing"
    /\ UNCHANGED <<gateEventVars, recent, chan, killerVars, sharedVars>>

------------------------------------------------------------------------------
\* The killer thread: receiving.

\* Mutant: the drain thread ends and keeps its sender.
SenderKept == gatePhase = "down"

SenderGone == gatePhase \in {"closing", "down"}

\* recv, recv_timeout or try_recv got an event; pidfd_open pins whoever carries
\* the pid number now, and fails when nobody does.
Receive ==
    /\ killerPc \in {"recv", "more"}
    /\ chan # <<>>
    /\ chan' = Tail(chan)
    /\ LET e == Head(chan) IN
       pending' = IF proc[e.pid] = NoProc THEN pending
                  ELSE pending \cup {[pid |-> e.pid, gen |-> gen[e.pid],
                                      uid |-> e.uid, aged |-> FALSE]}
    /\ killerPc' = "more"
    /\ UNCHANGED <<gateEventVars, recent, todo, cur, names, tries, seen,
                   sharedVars, gatePhase>>

\* try_recv found the channel empty, or recv_timeout ran out with kills pending.
StartPoll ==
    /\ chan = <<>>
    /\ \/ killerPc = "more"
       \/ killerPc = "recv" /\ pending # {} /\ ~SenderGone
    /\ killerPc' = "poll"
    /\ todo' = pending
    /\ UNCHANGED <<gateEventVars, recent, chan, pending, cur, names, tries, seen,
                   sharedVars, gatePhase>>

\* The sender is gone and the channel empty: every pending process is signalled at
\* once and the thread ends.
FinishPending ==
    /\ killerPc = "recv"
    /\ chan = <<>>
    /\ SenderGone
    /\ proc' = [p \in Pids |-> IF \E e \in pending : e.pid = p /\ Alive(p, e.gen)
                               THEN NoProc ELSE proc[p]]
    /\ pending' = {}
    /\ todo' = {}
    /\ killerPc' = "done"
    /\ gatePhase' = "down"
    /\ UNCHANGED <<gen, blockedUids, ring, recent, chan, cur, names, tries, seen,
                   sharedVars>>

------------------------------------------------------------------------------
\* The killer thread: one poll pass over the pending entries.

\* Mutant: swap_remove without staying at the index.
DiscardFromVector(e) ==
    /\ pending' = pending \ {e}
    /\ todo' = todo

Discard(e) ==
    /\ pending' = pending \ {e}
    /\ todo' = todo \ {e}

\* Mutant: only the foreground ends the wait.
NeverTimedOut(e) == FALSE

TimedOut(e) == e.aged

\* Mutant: the block list is not read.
ListNotRead(e) == TRUE

\* proc::uid_in on the mirror of the block map.
StillListed(e) == e.uid \in blockedSet

\* The pidfd is readable, or /proc/<pid> is gone.
PollExited(e) ==
    /\ killerPc = "poll"
    /\ e \in todo
    /\ ~Alive(e.pid, e.gen)
    /\ Discard(e)
    /\ UNCHANGED <<gateEventVars, recent, chan, killerPc, cur, names, tries, seen,
                   sharedVars, gatePhase>>

\* Not in the foreground and not timed out yet.
PollWaits(e) ==
    /\ killerPc = "poll"
    /\ e \in todo
    /\ Alive(e.pid, e.gen)
    /\ ~TimedOut(e)
    /\ todo' = todo \ {e}
    /\ UNCHANGED <<gateEventVars, recent, chan, pending, killerPc, cur, names, tries,
                   seen, sharedVars, gatePhase>>

\* Foreground, or older than TIMEOUT_MS: kill_if_blocked starts with the block list.
CheckBlocked(e) ==
    /\ killerPc = "poll"
    /\ e \in todo
    /\ Alive(e.pid, e.gen)
    /\ Discard(e)
    /\ IF StillListed(e)
       THEN killerPc' = "names" /\ cur' = e
       ELSE UNCHANGED <<killerPc, cur>>
    /\ UNCHANGED <<gateEventVars, recent, chan, names, tries, seen, sharedVars, gatePhase>>

EndPoll ==
    /\ killerPc = "poll"
    /\ todo = {}
    /\ killerPc' = "recv"
    /\ UNCHANGED <<gateEventVars, recent, chan, pending, todo, cur, names, tries, seen,
                   sharedVars, gatePhase>>

\* TIMEOUT_MS passed since the entry was queued.
Ages(e) ==
    /\ e \in pending
    /\ ~e.aged
    /\ LET old == [e EXCEPT !.aged = TRUE] IN
       /\ pending' = (pending \ {e}) \cup {old}
       /\ todo' = IF e \in todo THEN (todo \ {e}) \cup {old} ELSE todo
    /\ UNCHANGED <<gateEventVars, recent, chan, killerPc, cur, names, tries, seen,
                   sharedVars, gatePhase>>

------------------------------------------------------------------------------
\* The killer thread: kill_if_blocked after the block list check.

\* kill_if_blocked is done with cur: on to the rest of the poll pass.
Resolve ==
    /\ killerPc' = "poll"
    /\ cur' = NoEntry
    /\ names' = {}
    /\ tries' = 0
    /\ seen' = FALSE

\* identity_ok reads the index: no name for the uid refuses the kill.
ReadNames ==
    /\ killerPc = "names"
    /\ IF identity[cur.uid] = {}
       THEN Resolve
       ELSE /\ names' = identity[cur.uid]
            /\ killerPc' = "ident"
            /\ UNCHANGED <<cur, tries, seen>>
    /\ UNCHANGED <<gateEventVars, recent, chan, pending, todo, sharedVars, gatePhase>>

\* Mutant: any readable name will do.
AnyName == proc[cur.pid] # NoProc

\* The name in the cmdline of the pid number is one of those wanted.
WantedName == proc[cur.pid] # NoProc /\ proc[cur.pid].pkg \in names

\* pkg_of_pid_wait reads the cmdline of the pid number and finds a wanted name.
IdentityMatches ==
    /\ killerPc = "ident"
    /\ WantedName
    /\ killerPc' = "kill"
    /\ UNCHANGED <<gateEventVars, recent, chan, pending, todo, cur, names, tries, seen,
                   sharedVars, gatePhase>>

\* Another name, a name still inherited from zygote, or nothing to read: sleep and
\* try again.  After the last try a name that was seen refuses the kill; when
\* nothing could ever be read the verdict on the uid stands.
IdentityMisses ==
    /\ killerPc = "ident"
    /\ LET seenNow == seen \/ proc[cur.pid] # NoProc IN
       \/ /\ tries + 1 < IdentityTries
          /\ tries' = tries + 1
          /\ seen' = seenNow
          /\ UNCHANGED <<killerPc, cur, names>>
       \/ /\ tries + 1 = IdentityTries
          /\ seenNow
          /\ Resolve
       \/ /\ tries + 1 = IdentityTries
          /\ ~seenNow
          /\ killerPc' = "kill"
          /\ UNCHANGED <<cur, names, tries, seen>>
    /\ UNCHANGED <<gateEventVars, recent, chan, pending, todo, sharedVars, gatePhase>>

\* pidfd_kill.
KillCur ==
    /\ killerPc = "kill"
    /\ PidfdKill(cur.pid, cur.gen)
    /\ Resolve
    /\ UNCHANGED <<blockedUids, ring, recent, chan, pending, todo, sharedVars, gatePhase>>

KillerThread ==
    \/ Receive
    \/ StartPoll
    \/ FinishPending
    \/ \E e \in todo : PollExited(e) \/ PollWaits(e) \/ CheckBlocked(e)
    \/ EndPoll
    \/ ReadNames
    \/ IdentityMatches
    \/ IdentityMisses
    \/ KillCur

DrainThread == Drain \/ DrainStops

TimePasses == (\E p \in recent : RecentElapses(p)) \/ (\E e \in pending : Ages(e))
==============================================================================
