------------------------------ MODULE Processes ------------------------------
(***************************************************************************)
(* The processes of the device, as the daemon sees them through /proc and  *)
(* through pidfds: external to the repository, modelled from how           *)
(* daemon/src/proc.rs and daemon/src/gate.rs use them.                     *)
(*                                                                         *)
(* A pid number is reused: gen[p] counts the processes that have carried   *)
(* number p, and the pair (p, gen[p]) is what a pidfd pins.  An app is a   *)
(* record [uid, pkg].  Two apps may share a uid (a shared uid, or a uid    *)
(* recycled by a new installation) and one package may run under two uids  *)
(* (a work profile).                                                       *)
(***************************************************************************)
EXTENDS Naturals

CONSTANTS Pids,     \* pid numbers
          Apps,     \* apps, records [uid, pkg]
          MaxGen,   \* bound: how many processes may carry one pid number
          NoProc    \* the value of proc for a pid number nobody carries

Uids == {a.uid : a \in Apps}
Pkgs == {a.pkg : a \in Apps}

ASSUME ProcessesAssumption ==
    /\ Apps \subseteq [uid : Uids, pkg : Pkgs]
    /\ NoProc \notin Apps
    /\ MaxGen \in Nat

VARIABLES proc,     \* pid number -> the app whose process carries it, or NoProc
          gen       \* pid number -> how many processes have carried it

procVars == <<proc, gen>>

ProcTypeOK ==
    /\ proc \in [Pids -> Apps \cup {NoProc}]
    /\ gen \in [Pids -> 0..MaxGen]

ProcInit ==
    /\ proc = [p \in Pids |-> NoProc]
    /\ gen = [p \in Pids |-> 0]

\* The process pinned as (p, g) is still running.
Alive(p, g) == proc[p] # NoProc /\ gen[p] = g

\* Process p runs under uid u: what ownership of /proc/<pid> answers.
RunsUnder(p, u) == proc[p] # NoProc /\ proc[p].uid = u

\* zygote forks and specialises: number p starts to run app a.
Spawn(p, a) ==
    /\ proc[p] = NoProc
    /\ gen[p] < MaxGen
    /\ proc' = [proc EXCEPT ![p] = a]
    /\ gen' = [gen EXCEPT ![p] = @ + 1]

\* The process ends on its own.
Exit(p) ==
    /\ proc[p] # NoProc
    /\ proc' = [proc EXCEPT ![p] = NoProc]
    /\ UNCHANGED gen

\* SIGKILL through the pidfd that pins (p, g): no effect once that process ended,
\* whoever carries the number now.
PidfdKill(p, g) ==
    /\ proc' = IF Alive(p, g) THEN [proc EXCEPT ![p] = NoProc] ELSE proc
    /\ UNCHANGED gen
==============================================================================
