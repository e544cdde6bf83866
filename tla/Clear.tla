--------------------------------- MODULE Clear ---------------------------------
(***************************************************************************)
(* daemon/src/clear.rs and proc::kill_pid_if_uid: the engine thread kills  *)
(* every process of some uids.  It lists the pids once, then for each of   *)
(* them reads the owner of /proc/<pid>, opens a pidfd and signals through  *)
(* it: three steps, between which the process may end and its number be    *)
(* taken by another.                                                       *)
(*                                                                         *)
(* The listing (a cgroup file, or one pass over /proc) is one step: a      *)
(* process that starts while it runs counts as started before or after.    *)
(***************************************************************************)
EXTENDS Processes

CONSTANT NoTarget   \* no target is being signalled

VARIABLES targets,   \* [pid, uid] still to be signalled
          target,    \* the target at hand; gen is what its pidfd pins
          clearPc    \* "off", "next", "open", "send"

clearVars == <<targets, target, clearPc>>

Target == [pid : Pids, gen : 0..MaxGen, uid : Uids]

ClearTypeOK ==
    /\ targets \subseteq [pid : Pids, uid : Uids]
    /\ target \in Target \cup {NoTarget}
    /\ clearPc \in {"open", "send"} => target \in Target
    /\ clearPc \in {"off", "next", "open", "send"}

ClearInit ==
    /\ targets = {}
    /\ target = NoTarget
    /\ clearPc = "off"

\* kill_uids(us) begins: list the processes of the uids.
ListProcesses(us) ==
    /\ clearPc = "off"
    /\ targets' = {t \in [pid : Pids, uid : us] : RunsUnder(t.pid, t.uid)}
    /\ clearPc' = "next"
    /\ UNCHANGED target

\* kill_pid_if_uid reads the owner of the pid and skips it when it changed.
CheckOwner(t) ==
    /\ clearPc = "next"
    /\ t \in targets
    /\ targets' = targets \ {t}
    /\ IF RunsUnder(t.pid, t.uid)
       THEN /\ target' = [pid |-> t.pid, gen |-> gen[t.pid], uid |-> t.uid]
            /\ clearPc' = "open"
       ELSE UNCHANGED <<target, clearPc>>
    /\ UNCHANGED procVars

\* pidfd_open pins whoever carries the number now; it fails when nobody does.
OpenPidfd ==
    /\ clearPc = "open"
    /\ IF proc[target.pid] = NoProc
       THEN target' = NoTarget /\ clearPc' = "next"
       ELSE target' = [target EXCEPT !.gen = gen[target.pid]] /\ clearPc' = "send"
    /\ UNCHANGED <<procVars, targets>>

\* pidfd_send_signal, close.
SendKill ==
    /\ clearPc = "send"
    /\ PidfdKill(target.pid, target.gen)
    /\ target' = NoTarget
    /\ clearPc' = "next"
    /\ UNCHANGED targets

ClearDone == clearPc = "next" /\ targets = {}

ClearStep == (\E t \in targets : CheckOwner(t)) \/ OpenPidfd \/ SendKill
==============================================================================
