------------------------------- MODULE Datalog -------------------------------
(* Facts with their origins, rules and queries, and what applying them yields *)
(* (Rule and World of biscuit-auth/src/datalog/mod.rs).                       *)
(*                                                                            *)
(* Facts are ground. A rule stands for the set of its ground instances: one   *)
(* for each binding of its variables, with the body it needs, the value its   *)
(* expressions take under that binding and the fact it concludes. The search  *)
(* for bindings (CombineIt) is abstracted to "every binding is found".        *)
EXTENDS Origins, Sequences, FiniteSets

CONSTANT Facts

\* A rule concludes with terms of its own and of the facts it matched only: all
\* facts are made of the terms written in the token, the content and the queries.
ASSUME FactsAssumption == IsFiniteSet(Facts)

\* An element of a FactSet: a fact, under one of the origins it was found with.
Entry == [origin: SUBSET OriginIds, fact: Facts]

\* The value of the conjunction of expressions: they are evaluated in order
\* up to the first that is not true, which is false or fails.
Guard == {"true", "false", "error"}

Ground == [body: Seq(Facts), guard: Guard, head: Facts]

\* A rule as written in a block, and a query of a check or a policy.
Rule == [scopes: SUBSET Scope, instances: SUBSET Ground]

\* An element of a RuleSet: a rule, its block, and the origins it trusts.
WorldRule == [origin: OriginIds, trust: SUBSET OriginIds,
              instances: SUBSET Ground]

\* FactSet::iterator
Visible(entries, trust) == {e \in entries : Trusts(trust, e.origin)}

\* One choice of an entry for every predicate of the body. The same fact may be
\* there under several origins, and each of them is a match of its own.
Matches(ground, entries) ==
    {m \in [DOMAIN ground.body -> entries] :
        \A i \in DOMAIN ground.body : m[i].fact = ground.body[i]}

\* Mutant of MatchOrigin: a conclusion belongs to its rule alone.
RuleOriginOnly(match, ruleOrigin) == {ruleOrigin}

\* The origin of a conclusion: those of all the facts it used, and the rule's.
MatchOrigin(match, ruleOrigin) ==
    {ruleOrigin} \cup UNION {match[i].origin : i \in DOMAIN match}

\* Rule::apply, the facts it yields when no expression fails.
Conclusions(rule, entries) ==
    UNION {{[origin |-> MatchOrigin(m, rule.origin), fact |-> ground.head] :
               m \in Matches(ground, Visible(entries, rule.trust))} :
           ground \in {g \in rule.instances : g.guard = "true"}}

\* Rule::apply, whether some match makes an expression fail.
Fails(rule, entries) ==
    \E ground \in rule.instances :
        /\ ground.guard = "error"
        /\ Matches(ground, Visible(entries, rule.trust)) # {}

\* One pass of World::run_with_limits over all its rules.
Derived(rules, entries) == UNION {Conclusions(r, entries) : r \in rules}

AnyFails(rules, entries) == \E r \in rules : Fails(r, entries)

\* The values the expressions of a query take over its matches.
Guards(query, trust, entries) ==
    {g.guard : g \in {h \in query.instances :
                          Matches(h, Visible(entries, trust)) # {}}}

\* Rule::find_match looks at the first item only that is not filtered out, and
\* the facts are in hash sets: any of the remaining values may come first.
FindMatch(query, trust, entries) ==
    LET found == Guards(query, trust, entries) \ {"false"}
    IN  IF found = {} THEN {"false"} ELSE found

\* Rule::check_match_all stops at the first match that is not true, in any
\* order too; without a match it answers false.
CheckMatchAll(query, trust, entries) ==
    LET found == Guards(query, trust, entries)
    IN  CASE found = {}       -> {"false"}
          [] found = {"true"} -> {"true"}
          [] OTHER            -> found \ {"true"}

\* The value of `!query_match(..)?`
Negation(guard) ==
    CASE guard = "true"  -> "false"
      [] guard = "false" -> "true"
      [] OTHER           -> "error"

\* The outcomes one query of a check, or of a policy ("one"), may have.
QueryOutcomes(kind, query, trust, entries) ==
    CASE kind = "one"    -> FindMatch(query, trust, entries)
      [] kind = "all"    -> CheckMatchAll(query, trust, entries)
      [] kind = "reject" -> {Negation(g) : g \in FindMatch(query, trust, entries)}
==============================================================================
