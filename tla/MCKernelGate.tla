----------------------------- MODULE MCKernelGate -----------------------------
(* Small instances of KernelGate for TLC. *)
EXTENDS KernelGate, TLC

MCApps == {[uid |-> "u1", pkg |-> "a"], [uid |-> "u2", pkg |-> "b"]}

PidSymmetry == Permutations(Pids)
==============================================================================
