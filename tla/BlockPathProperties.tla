-------------------------- MODULE BlockPathProperties --------------------------
(* What must hold of the forms of a block: its names, its indices in two      *)
(* tables and its bytes say the same thing.                                   *)
EXTENDS BlockRun

\* The values of a statement, at any depth.
Roots(s) ==
    LET rules == Range(Queries(s))
        predicates == Range(Facts(s)) \cup UNION {Range(Predicates(rule)) : rule \in rules}
        expressions == UNION {Range(rule.expressions) : rule \in rules}
    IN  (UNION {Range(p[3]) : p \in predicates}) \cup UNION {Range(e) : e \in expressions}
Values(s) == UNION {Within(x) : x \in Roots(s)}

\* A set that holds several kinds, sets or variables: parameters, or a program
\* that builds its terms, can make one.
IsOddSet(x) ==
    x[1] = "set" /\ \/ \E t, u \in x[2] : t[1] # u[1]
                    \/ \E t \in x[2] : t[1] \in {"set", "var"}
IsQuery(s) == s[1] \in {"check", "policy"}
------------------------------------------------------------------------------
\* Blocks

\* A block is received as it was built, unless a set in it holds several
\* kinds, sets or variables: such a block is built and then refused by everyone.
WireKeepsBlocks ==
    LET made == build(builder, tables[1], tables[2])
        odd == \E s \in Range(BlockStatements(builder)) : \E x \in Values(s) : IsOddSet(x)
    IN  /\ stage = "received" =>
               /\ block.statements = made.statements /\ block.scopes = made.scopes
               /\ block.symbols = made.symbols /\ block.public_keys = made.public_keys
               /\ block.version >= made.version /\ ~odd
        /\ (stage = "unreadable" /\ target # "authorizer") => odd

\* What Datalog 3.3 brought to a statement, and 3.1 before it, at any depth.
IsOfKind(s, kind) == IsQuery(s) /\ s[2] = kind
IsNewer(x) ==
    \/ x = Null \/ x[1] \in {"array", "map", "closure"}
    \/ x[1] \in {"unary", "binary"} /\ x[2] \in {"Ffi", "TypeOf", "All", "Any",
           "HeterogeneousEqual", "HeterogeneousNotEqual", "LazyAnd", "LazyOr"}
IsNew(x) ==
    x[1] = "binary" /\ x[2] \in {"BitwiseAnd", "BitwiseOr", "BitwiseXor", "NotEqual"}
Has33(s) == IsOfKind(s, "reject if") \/ \E x \in Values(s) : IsNewer(x)
Has31(s) ==
    \/ IsOfKind(s, "check all")
    \/ \E x \in Values(s) : IsNew(x)
    \/ \E rule \in Range(Queries(s)) : rule.scopes # << >>

\* An array, a map, or a null in a term that has one, or in a set of sets.
Overlooked(x, y) ==
    /\ y[1] \in {"null", "array", "map"}
    /\ \E z \in Within(x) : z[1] \in {"array", "map"} \/ IsOddSet(z)
Found33(s) ==
    \/ IsOfKind(s, "reject if")
    \/ \E x \in Roots(s) : \E y \in Within(x) : IsNewer(y) /\ ~Overlooked(x, y)

\* The version that a block declares is the one that its content asks for: not
\* below, so that an older library refuses it instead of reading something
\* else, and not above, so that one that could read it does. Arrays, maps and
\* the nulls that share a term with them are overlooked, and nothing else is
\* (DeclaresWhatItHolds says what the versions promise there).
VersionCoversFeatures ==
    stage \in {"built", "received"} =>
        LET statements == Range(block.statements)
            scoped == block.scopes # << >> \/ \E s \in statements : Has31(s)
        IN  /\ (\E s \in statements : Found33(s)) => block.version >= DATALOG_3_3
            /\ block.version = DATALOG_3_3 => \E s \in statements : Has33(s)
            /\ scoped => block.version >= DATALOG_3_1
            /\ block.version = DATALOG_3_1 => scoped
            /\ target = "third_party" => block.version >= DATALOG_3_2

\* What the comment on the version, and the error that is given to blocks below
\* it, say: arrays, maps and null are of Datalog 3.3, wherever they are.
DeclaresWhatItHolds ==
    stage = "received" =>
        \A s \in Range(block.statements) : Has33(s) => block.version >= DATALOG_3_3

\* In the tables of the authorizer a block says what its builder was told.
LoadKeepsMeaning ==
    stage = "loaded" =>
        /\ TranslateAll(loaded.statements, loaded.symbols, loaded.keys) =
               IF target = "authorizer" THEN InOrder(builder) ELSE BlockStatements(builder)
        /\ TranslateScopes(loaded.scopes, loaded.keys) = builder.scopes
------------------------------------------------------------------------------
\* A saved authorizer is restored with its statements, and a builder with its
\* scopes too. It can fail to be read only for an odd set, or for a key in what
\* was saved, whose table is not there. What an authorizer that was loaded from
\* saved policies runs are its checks and policies, from its builder; its facts
\* and rules are not in its world.
Odd(b) == \E s \in Range(InOrder(b)) : \E x \in Values(s) : IsOddSet(x)
NamesKeys(b) == AllKeys(InOrder(b), << >>) # << >>
Kept == IF stage = "saved" THEN << >> ELSE builder.scopes
ChecksAndPolicies(b) == Applied(OfKind(b, "check")) \o Policies(b)
SaidBy(from) == TranslateAll(from.statements, from.symbols, from.keys)
RestoringKeepsStatements ==
    [][(stage \in {"saved", "snapshot"}) =>
           IF stage' = "unreadable" THEN Odd(builder) \/ (stage = "saved" /\ NamesKeys(builder))
           ELSE /\ InOrder(builder') = InOrder(builder) /\ builder'.scopes = Kept
                /\ stage = "saved" => SaidBy(loaded') = ChecksAndPolicies(builder)]_way

------------------------------------------------------------------------------
\* Bindings

\* One fact for each predicate of a body, that agree on the variables.
Agree(body, chosen) ==
    /\ \A i \in DOMAIN body : match_preds(body[i], chosen[i].predicate)
    /\ \A i, j \in DOMAIN body : \A k \in DOMAIN body[i][3], l \in DOMAIN body[j][3] :
          (body[i][3][k][1] = "var" /\ body[i][3][k] = body[j][3][l]) =>
              chosen[i].predicate[3][k] = chosen[j].predicate[3][l]

\* The values that a choice of facts gives the variables, and their origins.
Binding(body, chosen) ==
    LET values(v) ==
            UNION {{chosen[i].predicate[3][k] :
                       k \in {l \in DOMAIN body[i][3] : body[i][3][l] = <<"var", v>>}} :
                   i \in DOMAIN body}
    IN  [origin |-> UNION {chosen[i].origin : i \in DOMAIN body},
         values |-> [v \in Bound(body) |-> CHOOSE value \in values(v) : TRUE]]
Bindings(rule, facts) ==
    {Binding(rule.body, chosen) :
        chosen \in {c \in [DOMAIN rule.body -> facts] : Agree(rule.body, c)}}

\* What the expressions say of each binding.
Verdicts(rule, facts) ==
    {Test(rule, b.values, Externs, loaded.symbols) : b \in Bindings(rule, facts)}
Errors(rule, facts) == Verdicts(rule, facts) \ {"true", "false"}

Expected(rule, facts) ==
    {Produced(rule, b, MyOrigin) :
        b \in {c \in Bindings(rule, facts) :
                  /\ Instantiable(rule, c.values)
                  /\ Test(rule, c.values, Externs, loaded.symbols) = "true"}}
        \cup {Error(e) : e \in Errors(rule, facts)}

\* For all bindings, or for some, and an error only if there is one.
Possible(kind, rule, facts) ==
    LET found == Verdicts(rule, facts)
        decisive == IF kind = "check all" THEN "false" ELSE "true"
    IN  IF found = {} THEN {"false"}
        ELSE IF found \ {"true", "false"} # {} THEN found \ ({"true", "false"} \ {decisive})
        ELSE IF decisive \in found THEN {decisive}
        ELSE found

\* The facts of a rule are those of all the bindings that its expressions
\* accept, each with the origins of all the facts it was made from, in whatever
\* order the facts are walked; a query holds if some binding is accepted, or if
\* all are; the order shows only when a binding fails.
AnswersCombineBindings ==
    stage = "answered" =>
        \A i \in DOMAIN loaded.statements :
            LET s == loaded.statements[i]
                facts == Range(walked)
            IN  /\ s[1] = "rule" => Range(answers[i]) = Expected(s[2], facts)
                /\ IsQuery(s) => \A q \in DOMAIN s[3] :
                                    answers[i][q] \in Possible(s[2], s[3][q], facts)
================================================================================
