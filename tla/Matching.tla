------------------------------- MODULE Matching -------------------------------
(* The search for the values of a rule's variables: Rule::apply, find_match,  *)
(* check_match_all, CombineIt, MatchedVariables and match_preds of            *)
(* biscuit-auth/src/datalog/mod.rs.                                           *)
(*                                                                            *)
(* Facts are a sequence, in the order in which the hash tables that hold them *)
(* happen to be walked: any order. Each is a record of its origin and its     *)
(* predicate. A solution is a record of the origin of the facts it comes from *)
(* and of the values of the variables.                                        *)
EXTENDS Templates

\* What the expressions of a rule say of the values of its variables, with the
\* functions and the symbols that there are: "true", "false" or an error.
CONSTANT Test(_, _, _, _)

Free == <<"free">>      \* the variable has no value yet

match_preds(p, fact) ==
    /\ p[2] = fact[2] /\ Len(p[3]) = Len(fact[3])
    /\ \A i \in DOMAIN p[3] : fact[3][i][1] # "var" /\ (p[3][i][1] = "var" \/ p[3][i] = fact[3][i])

\* Rule::variables_set and MatchedVariables::new
variables_set(rule) == Bound(rule.body)
NewVariables(rule) == [v \in variables_set(rule) |-> Free]

\* Mutant of insert: a variable that has a value keeps the first one.
insert_first(variables, v, value) ==
    IF v \notin DOMAIN variables THEN [ok |-> FALSE, variables |-> variables]
    ELSE [ok |-> TRUE, variables |-> IF variables[v] = Free THEN [variables EXCEPT ![v] = value]
                                     ELSE variables]

\* MatchedVariables::insert
insert(variables, v, value) ==
    IF v \notin DOMAIN variables THEN [ok |-> FALSE, variables |-> variables]
    ELSE IF variables[v] = Free THEN [ok |-> TRUE, variables |-> [variables EXCEPT ![v] = value]]
    ELSE [ok |-> variables[v] = value, variables |-> variables]

complete(variables) == Free \notin Range(variables)

\* The variables of a predicate, from left to right, get the values of a fact.
Unify(variables, p, fact) ==
    LET found[i \in 0..Len(p[3])] ==
            IF i = 0 THEN [ok |-> TRUE, variables |-> variables]
            ELSE LET before == found[i - 1]
                 IN  IF before.ok /\ p[3][i][1] = "var"
                     THEN insert(before.variables, p[3][i][2], fact[3][i]) ELSE before
    IN  found[Len(p[3])]

\* A solution for some predicates with each of the facts that the next one
\* matches, in the order of the facts.
Longer(solution, p, facts) ==
    LET With(f) ==
            LET found == Unify(solution.values, p, f.predicate)
            IN  IF match_preds(p, f.predicate) /\ found.ok
                THEN <<[origin |-> solution.origin \cup f.origin, values |-> found.variables]>>
                ELSE << >>
    IN  FlattenSeq([i \in DOMAIN facts |-> With(facts[i])])

\* CombineIt: all that its next returns, in that order. The facts for the first
\* predicate are the outermost loop. Without predicates there is one solution.
CombineIt(variables, predicates, facts) ==
    LET level[n \in 0..Len(predicates)] ==
            IF n = 0 THEN <<[origin |-> {}, values |-> variables]>>
            ELSE LET shorter == level[n - 1]
                 IN  FlattenSeq([i \in DOMAIN shorter |-> Longer(shorter[i], predicates[n], facts)])
        found == level[Len(predicates)]
    IN  FlattenSeq([i \in DOMAIN found |->
            IF complete(found[i].values) THEN <<found[i]>> ELSE << >>])

\* The head with the values of a solution. A variable without one, in a rule
\* that no validation has seen, yields no fact.
HeadTerms(rule) == IF rule.head = << >> THEN << >> ELSE rule.head[3]
Instance(rule, values) ==
    IF rule.head = << >> THEN << >>
    ELSE <<"predicate", rule.head[2],
           [i \in DOMAIN rule.head[3] |->
               IF rule.head[3][i][1] = "var" THEN values[rule.head[3][i][2]]
               ELSE rule.head[3][i]]>>
Instantiable(rule, values) ==
    \A t \in Range(HeadTerms(rule)) : t[1] = "var" => t[2] \in DOMAIN values

\* The fact of a solution, or its error.
Produced(rule, solution, origin) ==
    [result |-> "true", origin |-> solution.origin \cup {origin},
     predicate |-> Instance(rule, solution.values)]
Error(e) == [result |-> e, origin |-> {}, predicate |-> << >>]

\* Rule::apply: facts and errors, in order.
apply(rule, facts, origin, externs, symbols) ==
    LET Outcome(solution, result) ==
            IF result = "false" THEN << >>
            ELSE IF result # "true" THEN <<Error(result)>>
            ELSE IF Instantiable(rule, solution.values)
            THEN <<Produced(rule, solution, origin)>>
            ELSE << >>
        solutions == CombineIt(NewVariables(rule), rule.body, facts)
    IN  FlattenSeq([i \in DOMAIN solutions |->
            Outcome(solutions[i], Test(rule, solutions[i].values, externs, symbols))])

\* find_match: the first fact or error decides.
find_match(rule, facts, externs, symbols) ==
    LET outcomes == apply(rule, facts, 0, externs, symbols)
    IN  IF outcomes = << >> THEN "false" ELSE Head(outcomes).result

\* check_match_all: the first solution that is not true decides, and there must
\* be one.
check_match_all(rule, facts, externs, symbols) ==
    LET solutions == CombineIt(NewVariables(rule), rule.body, facts)
        results == [i \in DOMAIN solutions |->
                       Test(rule, solutions[i].values, externs, symbols)]
        others == {i \in DOMAIN results : results[i] # "true"}
    IN  IF results = << >> THEN "false"
        ELSE IF others = {} THEN "true"
        ELSE results[CHOOSE i \in others : \A j \in others : i <= j]
==============================================================================
