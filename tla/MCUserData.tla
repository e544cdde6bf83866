------------------------------ MODULE MCUserData ------------------------------
(* Small instances of UserData. *)
EXTENDS UserData, TLC

Times(edits, opens, saves, rewrites, crashes, failures, grants) ==
    [edits |-> edits, opens |-> opens, saves |-> saves, rewrites |-> rewrites,
     crashes |-> crashes, failures |-> failures, grants |-> grants]

NoneInstalled == [p \in Pkgs |-> NoId]
AllInstalled == CHOOSE l \in [Pkgs -> AppIds] : \A p, q \in Pkgs : p # q => l[p] # l[q]

Scenario(l, times) == [live |-> Governed, list |-> l, left |-> times]

\* An editor adds a rule of a newer version, or takes one out.
OneOut == {Governed \ {CHOOSE p \in Governed : TRUE}, Governed \cup {Newer}}

\* What the loading of rules, a WebUI save, the migration of uids and the restart have to do
\* with each other, a few events of each kind at a time.
SmallScenarios ==
    {Scenario(NoneInstalled, Times(1, 1, 1, 0, 0, 1, 0)),
     Scenario(NoneInstalled, Times(1, 1, 1, 0, 1, 0, 0)),
     Scenario(NoneInstalled, Times(0, 2, 3, 0, 0, 0, 0)),
     Scenario(AllInstalled, Times(0, 0, 0, 2, 0, 0, 0)),
     Scenario(AllInstalled, Times(0, 0, 0, 1, 0, 0, 1)),
     Scenario(AllInstalled, Times(0, 0, 0, 1, 1, 1, 0))}
==============================================================================
