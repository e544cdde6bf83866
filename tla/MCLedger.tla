-------------------------------- MODULE MCLedger --------------------------------
(* Small instances of Ledger. *)
EXTENDS Ledger, TLC

Rule(members, grouped, pooled, scope, freeze) ==
    [members |-> members, grouped |-> grouped, pooled |-> pooled, scope |-> scope,
     freeze |-> freeze]

\* App rules, of one app: a plain daily limit, and the two other scopes with cooldowns.
AppRules == UNION {{Rule({u}, FALSE, FALSE, "foreground", 0),
                    Rule({u}, FALSE, FALSE, "background", 1),
                    Rule({u}, FALSE, FALSE, "any", 1)} : u \in Uids}

\* A group of all, with a shared pool until it is toggled, and without.
PoolRule == {Rule(Uids, TRUE, TRUE, "foreground", 2)}
GroupRule == {Rule(Uids, TRUE, FALSE, "foreground", 0)}

AllRules == AppRules \cup PoolRule \cup GroupRule

\* The local day begins, and ends, one second after UTC's.
WestOfUTC == -1

UidSymmetry == Permutations(Uids)
===============================================================================
