------------------------------- MODULE BlockRun -------------------------------
(* A block in the authorizer that has loaded it, or an authorizer that was    *)
(* built or restored: its rules, checks and policies are run once on the      *)
(* facts, whatever their expressions may say.                                 *)
EXTENDS BlockPath, Matching

CONSTANT Registered     \* pairs of the name of a function and its behaviour

VARIABLES
    walked,     \* the facts, in the order in which they are walked
    answers     \* what the rules, checks and policies answer

run == <<way, walked, answers>>

Authority == 0          \* the origins of the facts
ThisBlock == 1
TheAuthorizer == 2

MyOrigin == IF target = "authorizer" THEN TheAuthorizer ELSE ThisBlock

\* What is known to a loaded block: its facts and those of the others.
KnownFacts ==
    LET own == {s \in Range(loaded.statements) : s[1] = "fact"}
        f == IndexIn(loaded.symbols)
        others == IF stage = "reloaded" THEN {}
                  ELSE {[origin |-> {fact[1]}, predicate |-> TranslatePredicate(fact[2], f)] :
                        fact \in Range(TokenFacts)}
    IN  {[origin |-> {MyOrigin}, predicate |-> s[2]] : s \in own} \cup others

\* The facts that some predicate of the block may match: the others are passed
\* over wherever they are.
Relevant ==
    LET bodies == UNION {UNION {Range(rule.body) : rule \in Range(Queries(s))} :
                         s \in Range(loaded.statements)}
    IN  {fact \in KnownFacts : \E p \in bodies : p[2] = fact.predicate[2]}

\* The functions of the authorizer, whatever is loaded.
Externs ==
    IF target = "authorizer" THEN builder.externs
    ELSE [n \in {pair[1] : pair \in Registered} |->
             (CHOOSE pair \in Registered : pair[1] = n)[2]]

\* The facts of a rule; for each query of a check or a policy whether it holds.
Answer(s, facts) ==
    LET Ask(rule) ==
            IF s[2] = "check all" THEN check_match_all(rule, facts, Externs, loaded.symbols)
            ELSE find_match(rule, facts, Externs, loaded.symbols)
    IN  CASE s[1] = "rule" -> apply(s[2], facts, MyOrigin, Externs, loaded.symbols)
          [] s[1] \in {"check", "policy"} -> [i \in DOMAIN s[3] |-> Ask(s[3][i])]
          [] OTHER         -> << >>

\* The facts are walked in any order.
RunOnce ==
    /\ Use
    /\ IF Panics(builder) THEN UNCHANGED <<walked, answers>>
       ELSE /\ walked' \in [1..Cardinality(Relevant) -> Relevant] /\ IsInjective(walked')
            /\ answers' = [i \in DOMAIN loaded.statements |->
                              Answer(loaded.statements[i], walked')]
------------------------------------------------------------------------------
StartRun == Start /\ walked = None /\ answers = None

StepRun ==
    \/ (Edit \/ Travel) /\ UNCHANGED <<walked, answers>>
    \/ RunOnce

RunSpec == StartRun /\ [][StepRun]_run
==============================================================================
