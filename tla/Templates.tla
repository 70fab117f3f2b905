------------------------------ MODULE Templates ------------------------------
(* The statements of a builder and their parameters: Fact, Rule, Check and    *)
(* Policy of biscuit-auth/src/token/builder.                                  *)
(*                                                                            *)
(* An item is a statement with a table of values for the parameters in its    *)
(* terms and one for those in its scopes. Every query of a check has tables   *)
(* of its own in the code; a value is given to all queries that know the      *)
(* name, so that one table for the statement is the same.                     *)
EXTENDS Terms

Unset == <<"unset">>

\* The scopes that are not a key or a parameter.
TrustAuthority == <<"sym", "authority">>
TrustPrevious == <<"sym", "previous">>

\* The rules of a statement, and the predicates of a rule.
Queries(s) ==
    CASE s[1] = "fact" -> << >>
      [] s[1] = "rule" -> <<s[2]>>
      [] OTHER         -> s[3]
Predicates(rule) == (IF rule.head = << >> THEN << >> ELSE <<rule.head>>) \o rule.body
Facts(s) == IF s[1] = "fact" THEN <<s[2]>> ELSE << >>

\* The variables among some terms, and those that a rule's body gives a value.
Variables(terms) == {terms[i][2] : i \in {j \in DOMAIN terms : terms[j][1] = "var"}}
Bound(body) == UNION {Variables(p[3]) : p \in Range(body)}

\* Rule::validate_variables of datalog: the variables of the head are bound.
validate_head(rule) == Variables(rule.head[3]) \subseteq Bound(rule.body)

\* Term::extract_parameters, and Op::collect_parameters of the parser: the
\* parameters at any depth.
extract_parameters(x) == {y[2] : y \in {z \in Within(x) : z[1] = "param"}}

\* Op::collect_parameters of the builder: those inside of a value are not seen.
collect_parameters(op) ==
    {y[2][2] : y \in {z \in Within(op) : z[1] = "value" /\ z[2][1] = "param"}}

\* The parameters of a statement that was parsed at run time, "code", or made
\* by a macro with Rule::new of the builder, "macro".
Parameters(s, route) ==
    LET Seen(op) == IF route = "code" THEN extract_parameters(op) ELSE collect_parameters(op)
        OfPredicate(p) == UNION {extract_parameters(t) : t \in Range(p[3])}
        OfRule(rule) ==
            (UNION {OfPredicate(p) : p \in Range(Predicates(rule))})
                \cup UNION {UNION {Seen(op) : op \in Range(ops)} : ops \in Range(rule.expressions)}
    IN  (UNION {OfPredicate(p) : p \in Range(Facts(s))})
            \cup UNION {OfRule(rule) : rule \in Range(Queries(s))}

ScopeParameters(s) ==
    UNION {{sc[2] : sc \in {x \in Range(rule.scopes) : x[1] = "param"}} :
           rule \in Range(Queries(s))}

\* Fact::new, Rule::new and the conversions from the parser's statements.
Template(s, route) ==
    [statement |-> s, parameters |-> [n \in Parameters(s, route) |-> Unset],
     scope_parameters |-> [n \in ScopeParameters(s) |-> Unset]]

\* set and set_scope for every value given to code_with_params, or to a macro:
\* the names that the statement does not know are ignored.
SetAll(item, params, keys) ==
    LET Given(table, values) ==
            [n \in DOMAIN table |-> IF n \in DOMAIN values THEN values[n] ELSE table[n]]
    IN  [item EXCEPT !.parameters = Given(@, params), !.scope_parameters = Given(@, keys)]

\* Mutant of validate_parameters: the parameters of scopes are not looked at.
validate_terms(item) == Unset \notin Range(item.parameters)

\* Fact::validate, validate_parameters of rules, checks and policies
validate_parameters(item) ==
    Unset \notin Range(item.parameters) \cup Range(item.scope_parameters)

\* Term::apply_parameters. The key of a map can be replaced by an integer or a
\* string, and stays as it is for anything else; of the entries that come to
\* have the same key one is kept, one whose key was a parameter if there is any.
\* Of two parameters the code keeps the last one by name.
ApplyTerm(t, table) ==
    LET Key(e) ==
            IF e[1][1] = "param" /\ table[e[1][2]][1] \in {"int", "str"}
            THEN table[e[1][2]] ELSE e[1]
        Winner(entries) ==
            CHOOSE e \in entries :
                (\E d \in entries : d[1][1] = "param") => e[1][1] = "param"
        AtKey(entries, k) == {e \in entries : Key(e) = k}
        to[u \in Within(t)] ==
            LET All(s) == [i \in DOMAIN s |-> to[s[i]]]
                At(entries, k) == <<k, to[Winner(AtKey(entries, k))[2]]>>
            IN  CASE u[1] = "param" -> table[u[2]]
                  [] u[1] = "array" -> <<"array", All(u[2])>>
                  [] u[1] = "set"   -> <<"set", {to[v] : v \in u[2]}>>
                  [] u[1] = "map"   -> <<"map", {At(u[2], k) : k \in {Key(e) : e \in u[2]}}>>
                  [] OTHER          -> u
    IN  to[t]

\* A term of a rule, and an operation, is replaced when it is a parameter and
\* not when it holds one.
ApplyTop(t, table) ==
    IF t[1] = "param" /\ t[2] \in DOMAIN table /\ table[t[2]] # Unset THEN table[t[2]] ELSE t

ApplyOp(op, table) ==
    LET to[o \in Within(op)] ==
            LET All(ops) == [i \in DOMAIN ops |-> to[ops[i]]]
            IN  CASE o[1] = "value"   -> <<"value", ApplyTop(o[2], table)>>
                  [] o[1] = "closure" -> <<"closure", o[2], All(o[3])>>
                  [] OTHER -> o
    IN  to[op]

\* Rule::apply_parameters
ApplyRule(rule, table, keys) ==
    LET Terms(p) ==
            <<p[1], p[2], [i \in DOMAIN p[3] |-> ApplyTop(p[3][i], table)]>>
        Scope(sc) == ApplyTop(sc, keys)
        Each(ops) == [i \in DOMAIN ops |-> ApplyOp(ops[i], table)]
    IN  [head |-> IF rule.head = << >> THEN << >> ELSE Terms(rule.head),
         body |-> [i \in DOMAIN rule.body |-> Terms(rule.body[i])],
         expressions |-> [i \in DOMAIN rule.expressions |-> Each(rule.expressions[i])],
         scopes |-> [i \in DOMAIN rule.scopes |-> Scope(rule.scopes[i])]]

\* apply_parameters: the statement as it is printed and converted. Only facts
\* are replaced at any depth.
apply_parameters(item) ==
    LET s == item.statement
        table == item.parameters
        OfRule(rule) == ApplyRule(rule, table, item.scope_parameters)
    IN  CASE s[1] = "fact" ->
                <<"fact", <<"predicate", s[2][2],
                            [i \in DOMAIN s[2][3] |-> ApplyTerm(s[2][3][i], table)]>>>>
          [] s[1] = "rule" -> <<"rule", OfRule(s[2])>>
          [] OTHER -> <<s[1], s[2], [i \in DOMAIN s[3] |-> OfRule(s[3][i])]>>

\* What convert panics on.
Remains(s) ==
    \/ \E p \in Range(Facts(s)) : \E t \in Range(p[3]) : HasParameter(t)
    \/ \E rule \in Range(Queries(s)) :
          \/ \E p \in Range(Predicates(rule)) : \E t \in Range(p[3]) : HasParameter(t)
          \/ \E ops \in Range(rule.expressions) : \E op \in Range(ops) : HasParameter(op)
          \/ \E sc \in Range(rule.scopes) : sc[1] = "param"
------------------------------------------------------------------------------
\* The builders of blocks and of authorizers

Empty == [items |-> << >>, scopes |-> << >>, externs |-> [x \in {} |-> ""]]

\* The statements of a kind, in the order they were added: a builder has a list
\* for each kind.
OfKind(builder, kind) ==
    FlattenSeq([i \in DOMAIN builder.items |->
        IF builder.items[i].statement[1] = kind THEN <<builder.items[i]>> ELSE << >>])
Applied(items) == [i \in DOMAIN items |-> apply_parameters(items[i])]
InOrder(builder) ==
    Applied(FlattenSeq([k \in 1..4 |->
        OfKind(builder, <<"fact", "rule", "check", "policy">>[k])]))

Refusal(error) == [error |-> error, builder |-> Empty]
Taken(builder) == [error |-> "", builder |-> builder]

\* BuilderExt: the statement that each method adds, with terms and not a text.
Extension(method, value) ==
    LET pred(p, t) == <<"predicate", p, <<t>>>>
        Check(body, ops) ==
            <<"check", "check if",
              <<[head |-> << >>, body |-> <<body>>, expressions |-> ops, scopes |-> << >>]>>>>
        Constrained(p, op) ==
            Check(pred(p, <<"var", p>>),
                  <<<<<<"value", <<"var", p>>>>, <<"value", value>>, <<"binary", op>>>>>>)
    IN  CASE method \in {"resource", "operation", "time"} -> <<"fact", pred(method, value)>>
          [] method = "check_resource"        -> Check(pred("resource", value), << >>)
          [] method = "check_operation"       -> Check(pred("operation", value), << >>)
          [] method = "check_resource_prefix" -> Constrained("resource", "Prefix")
          [] method = "check_resource_suffix" -> Constrained("resource", "Suffix")
          [] method = "check_expiration_date" -> Constrained("time", "LessOrEqual")
extend(builder, method, value) ==
    [builder EXCEPT !.items = Append(@, Template(Extension(method, value), "code"))]

scope_with(builder, sc) == [builder EXCEPT !.scopes = Append(@, sc)]

\* Mutant of merge: the other builder's statements come first.
merge_before(builder, other) ==
    [items |-> other.items \o builder.items, scopes |-> builder.scopes,
     externs |-> other.externs @@ builder.externs]

\* BlockBuilder::merge and AuthorizerBuilder::merge: the scopes of the other
\* builder are lost, and its functions replace those of the same name.
merge(builder, other) ==
    [items |-> builder.items \o other.items, scopes |-> builder.scopes,
     externs |-> other.externs @@ builder.externs]
------------------------------------------------------------------------------
\* All the statements with names or indices in W and keys in K

CheckNames == {"check if", "check all", "reject if"}
PolicyNames == {"allow if", "deny if"}

PredicatesOver(W) == {"predicate"} \X W \X Seq(TermsOver(W))
ScopesOver(K) ==
    {TrustAuthority, TrustPrevious} \cup ({"key"} \X K) \cup ({"param"} \X STRING)
RulesWith(heads, W, K) ==
    [head : heads, body : Seq(PredicatesOver(W)), expressions : Seq(Seq(OpsOver(W))),
     scopes : Seq(ScopesOver(K))]
RulesOver(W, K) == RulesWith(PredicatesOver(W), W, K)
QueriesOver(W, K) == RulesWith({<< >>}, W, K)
StatementsOver(W, K) ==
    ({"fact"} \X PredicatesOver(W)) \cup ({"rule"} \X RulesOver(W, K))
        \cup ({"check"} \X CheckNames \X Seq(QueriesOver(W, K)))
        \cup ({"policy"} \X PolicyNames \X Seq(QueriesOver(W, K)))

\* What the types of Rust let a builder hold.
WellTyped(builder) ==
    /\ Applied(builder.items) \in Seq(StatementsOver(STRING, STRING))
    /\ builder.scopes \in Seq(ScopesOver(STRING))
==============================================================================
