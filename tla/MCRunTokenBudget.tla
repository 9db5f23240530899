--------------------------- MODULE MCRunTokenBudget ---------------------------
\* A Run and its Teto lane, whose budget is limited too: a step of either lane's
\* main loop, a compaction of Teto's and a reflection pass.
EXTENDS RunTokenBudget

CONSTANTS run, teto, step, tetoStep, pass, compaction

MCAbove(b) == {b, run}
MCMaxTokens(b) == IF b = run THEN 5 ELSE 4
MCHome(c) == IF c \in {tetoStep, compaction} THEN teto ELSE run
MCInput(c) == IF c = step THEN 2 ELSE 1
MCOutput(c) == CASE c = step -> 3 [] c = compaction -> 2 [] OTHER -> 1
MCUsage(c) == IF c = step THEN {1, 5} ELSE {2}
===============================================================================
