------------------------------- MODULE MCCApi --------------------------------
(* Two threads of a program, and tokens that others sent.                      *)
EXTENDS CApi, TLC

Symmetric == Permutations(Threads) \cup Permutations(Handles)

Says(kind, holds) == [kind |-> kind, holds |-> holds]
MCStatements == {Says("check", FALSE), Says("allow", TRUE)}

MCContexts == {"context"}
MCKeys == {"ed"}
MCSecp == {"ed"}

Checked == [statements |-> <<Says("check", TRUE), Says("check", FALSE)>>, context |-> "context"]
Bare == [statements |-> << >>, context |-> None]
Failing_ == [statements |-> <<Says("rule", FALSE)>>, context |-> None]

TokenOf(blocks, sealed, loads) ==
    [root |-> "ed", blocks |-> blocks, sealed |-> sealed, loads |-> loads]
MCReceived == {TokenOf(<<Checked, Checked>>, FALSE, TRUE), TokenOf(<<Failing_>>, TRUE, TRUE),
               TokenOf(<<Bare>>, TRUE, FALSE)}
==============================================================================
