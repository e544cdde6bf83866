----------------------------- MODULE MCEnforcement -----------------------------
(* Small instances of Enforcement for TLC. *)
EXTENDS Enforcement, TLC

\* Two apps of one uid (a shared or recycled uid), and the work-profile copy of the
\* first.
App(u, p) == [uid |-> u, pkg |-> p]
SharedUidApps == {App("u1", "a"), App("u1", "b")}
ProfileApps == {App("u1", "a"), App("u2", "a")}
AllApps == SharedUidApps \cup ProfileApps

PidSymmetry == Permutations(Pids)
==============================================================================
