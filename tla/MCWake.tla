--------------------------------- MODULE MCWake ---------------------------------
(* Small rules files for Wake: one app under every shape of window, and windows *)
(* together with the rules that watch the screen or the usage.                  *)
EXTENDS Wake

RuleSet(mode, windows, lock, limited) ==
    [always_on |-> FALSE, lock_block |-> lock, mode |-> mode, windows |-> windows,
     limited |-> limited]

Window(start, end, days) == [start |-> start, end |-> end, days |-> days]

\* Plain, past midnight, degenerate, ending at midnight; on every day, on one day, on
\* the two days around the end of the week, and on a day that does not exist.
Windows ==
    {Window(1, 2, {}), Window(3, 1, {}), Window(2, 2, {1}), Window(3, 1, {7}),
     Window(2, 4, {7, 9}), Window(1, 3, {1, 7}), Window(3, 2, {1})}

Plain == RuleSet("allow", {}, FALSE, FALSE)

AllRuleSets ==
    {RuleSet("allow", {w}, FALSE, FALSE) : w \in Windows}
        \cup {RuleSet("block", {Window(0, 1, {7}), Window(2, 3, {1})}, FALSE, FALSE),
              RuleSet("block", {Window(3, 1, {})}, TRUE, FALSE),
              RuleSet("allow", {}, TRUE, TRUE),
              RuleSet("block", {Window(1, 3, {7})}, FALSE, TRUE),
              [Plain EXCEPT !.always_on = TRUE],
              Plain}

OneApp(ruleSets) == {[x \in {"a"} |-> r] : r \in ruleSets}

AllChoices == OneApp(AllRuleSets)
OneChoice == OneApp({RuleSet("allow", {Window(3, 1, {7})}, FALSE, FALSE)})
App == {"a"}
===============================================================================
