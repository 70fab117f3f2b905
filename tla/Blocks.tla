-------------------------------- MODULE Blocks --------------------------------
(* A block on its way from a builder to an authorizer: the conversion of its  *)
(* names to indices (BlockBuilder::build), the schema version it declares     *)
(* (get_schema_version), its form on the wire (format/convert.rs) and its     *)
(* translation to the tables of an authorizer (load_and_translate_block).     *)
(*                                                                            *)
(* In a block a predicate's name, a variable, a string and a function are an  *)
(* index in the table of symbols, and a key in a scope is one in the table of *)
(* keys.                                                                      *)
EXTENDS Templates

\* The names that converting a statement inserts, in order, and its keys.
PredicateWords(p) == <<p[2]>> \o FlattenSeq([i \in DOMAIN p[3] |-> Words(p[3][i])])
RuleWords(rule) ==
    LET OfOps(ops) == FlattenSeq([i \in DOMAIN ops |-> Words(ops[i])])
    IN  FlattenSeq([i \in DOMAIN Predicates(rule) |-> PredicateWords(Predicates(rule)[i])])
            \o FlattenSeq([i \in DOMAIN rule.expressions |-> OfOps(rule.expressions[i])])
StatementWords(s) ==
    IF s[1] = "fact" THEN PredicateWords(s[2])
    ELSE FlattenSeq([i \in DOMAIN Queries(s) |-> RuleWords(Queries(s)[i])])

ScopeKeys(scopeList) ==
    FlattenSeq([i \in DOMAIN scopeList |->
        IF scopeList[i][1] = "key" THEN <<scopeList[i][2]>> ELSE << >>])
StatementKeys(s) ==
    FlattenSeq([i \in DOMAIN Queries(s) |-> ScopeKeys(Queries(s)[i].scopes)])

AllWords(statements) == FlattenSeq([i \in DOMAIN statements |-> StatementWords(statements[i])])
AllKeys(statements, scopeList) ==
    FlattenSeq([i \in DOMAIN statements |-> StatementKeys(statements[i])])
        \o ScopeKeys(scopeList)

\* Convert and convert_from for predicates, scopes, rules and statements: every
\* name w becomes f[w] and every key k becomes g[k].
TranslatePredicate(p, f) ==
    <<p[1], f[p[2]], [i \in DOMAIN p[3] |-> Translate(p[3][i], f)]>>
TranslateScopes(scopeList, g) ==
    [i \in DOMAIN scopeList |->
        IF scopeList[i][1] = "key" THEN <<"key", g[scopeList[i][2]]>> ELSE scopeList[i]]
TranslateRule(rule, f, g) ==
    LET Ops(ops) == [i \in DOMAIN ops |-> Translate(ops[i], f)]
    IN  [head |-> IF rule.head = << >> THEN << >> ELSE TranslatePredicate(rule.head, f),
         body |-> [i \in DOMAIN rule.body |-> TranslatePredicate(rule.body[i], f)],
         expressions |-> [i \in DOMAIN rule.expressions |-> Ops(rule.expressions[i])],
         scopes |-> TranslateScopes(rule.scopes, g)]
TranslateStatement(s, f, g) ==
    CASE s[1] = "fact" -> <<"fact", TranslatePredicate(s[2], f)>>
      [] s[1] = "rule" -> <<"rule", TranslateRule(s[2], f, g)>>
      [] OTHER -> <<s[1], s[2], [i \in DOMAIN s[3] |-> TranslateRule(s[3][i], f, g)]>>
TranslateAll(statements, f, g) ==
    [i \in DOMAIN statements |-> TranslateStatement(statements[i], f, g)]
------------------------------------------------------------------------------
\* Schema versions: 3, 4, 5 and 6 are Datalog 3.0, 3.1, 3.2 and 3.3

DATALOG_3_1 == 4
DATALOG_3_2 == 5
DATALOG_3_3 == 6
MIN_SCHEMA_VERSION == 3
MAX_SCHEMA_VERSION == 6

contains_v3_3_term(t) == t = Null \/ (t[1] = "set" /\ Null \in t[2])
contains_v3_3_predicate(p) == \E t \in Range(p[3]) : contains_v3_3_term(t)

\* Mutant of contains_v3_3_op: closures are not looked for.
contains_v3_3_value(op) ==
    CASE op[1] = "value" -> contains_v3_3_term(op[2])
      [] op[1] = "unary" -> op[2] \in {"TypeOf", "Ffi"}
      [] OTHER -> FALSE

contains_v3_3_op(op) ==
    CASE op[1] = "value"   -> contains_v3_3_term(op[2])
      [] op[1] = "closure" -> TRUE
      [] op[1] = "unary"   -> op[2] \in {"TypeOf", "Ffi"}
      [] OTHER -> op[2] \in {"HeterogeneousEqual", "HeterogeneousNotEqual", "LazyAnd",
                             "LazyOr", "All", "Any", "Ffi"}
contains_v3_1_op(op) ==
    op[1] = "binary" /\ op[2] \in {"BitwiseAnd", "BitwiseOr", "BitwiseXor", "NotEqual"}

\* get_schema_version: what the statements of a block, a set, contain.
get_schema_version(statements, scopeList) ==
    LET rules == UNION {Range(Queries(s)) : s \in statements}
        ops == UNION {UNION {Range(e) : e \in Range(rule.expressions)} : rule \in rules}
        predicates == (UNION {Range(Facts(s)) : s \in statements})
                          \cup UNION {Range(Predicates(rule)) : rule \in rules}
        checks == {s[2] : s \in {x \in statements : x[1] = "check"}}
    IN  [contains_scopes |-> scopeList # << >> \/ \E rule \in rules : rule.scopes # << >>,
         contains_v3_1 |-> \E op \in ops : contains_v3_1_op(op),
         contains_check_all |-> "check all" \in checks,
         contains_v3_3 |-> \/ "reject if" \in checks
                           \/ \E p \in predicates : contains_v3_3_predicate(p)
                           \/ \E op \in ops : contains_v3_3_op(op)]

version(detected) ==
    IF detected.contains_v3_3 THEN DATALOG_3_3
    ELSE IF detected.contains_scopes \/ detected.contains_v3_1 \/ detected.contains_check_all
         THEN DATALOG_3_1
         ELSE MIN_SCHEMA_VERSION

\* A block below 3.1 is not asked for what 3.3 brought.
check_compatibility(detected, declared) ==
    IF declared < DATALOG_3_1
    THEN ~(detected.contains_scopes \/ detected.contains_v3_1 \/ detected.contains_check_all)
    ELSE declared < DATALOG_3_3 => ~detected.contains_v3_3
------------------------------------------------------------------------------
\* Building

\* A parameter is left, in a statement of some kinds or in the scopes of the
\* block. The build of an authorizer converts neither its checks nor its
\* policies: they panic later, when they are asked or saved.
PanicsOn(builder, kinds) ==
    \/ \E s \in Range(InOrder(builder)) : s[1] \in kinds /\ Remains(s)
    \/ \E sc \in Range(builder.scopes) : sc[1] = "param"
Panics(builder) == PanicsOn(builder, {"fact", "rule", "check", "policy"})
PanicsAtBuild(builder) == PanicsOn(builder, {"fact", "rule"})

\* The statements of a block: policies are an authorizer's only.
BlockStatements(builder) ==
    Applied(FlattenSeq([k \in 1..3 |-> OfKind(builder, <<"fact", "rule", "check">>[k])]))
Policies(builder) == Applied(OfKind(builder, "policy"))

\* BlockBuilder::build, for a token whose tables are symbols and keys
build(builder, symbols, keys) ==
    LET statements == BlockStatements(builder)
        words == AllWords(statements)
        named == AllKeys(statements, builder.scopes)
        f == IndexIn(Insert(symbols, words))
        g == IndexIn(Insert(keys, named))
        converted == TranslateAll(statements, f, g)
        scopeList == TranslateScopes(builder.scopes, g)
    IN  [symbols |-> New(symbols, words), public_keys |-> New(keys, named),
         statements |-> converted, scopes |-> scopeList,
         version |-> version(get_schema_version(Range(converted), scopeList))]
------------------------------------------------------------------------------
\* The wire: sets and maps are lists, and the kind of a check is a number that
\* is not there for the first kind

ToProto(x) ==
    LET to[y \in Within(x)] ==
            LET All(s) == [i \in DOMAIN s |-> to[s[i]]]
                Entry(e) == <<e[1], to[e[2]]>>
            IN  CASE y[1] = "set"     -> <<"set", All(Listed(y[2]))>>
                  [] y[1] = "array"   -> <<"array", All(y[2])>>
                  [] y[1] = "map"     ->
                        <<"map", [i \in DOMAIN Listed(y[2]) |-> Entry(Listed(y[2])[i])]>>
                  [] y[1] = "value"   -> <<"value", to[y[2]]>>
                  [] y[1] = "closure" -> <<"closure", y[2], All(y[3])>>
                  [] y[1] \in {"unary", "binary"} ->
                        <<y[1], y[2], IF y[2] = "Ffi" THEN <<y[3]>> ELSE << >>>>
                  [] OTHER            -> y
    IN  to[x]
token_term_to_proto_id(t) == ToProto(t)
token_op_to_proto_op(op) == ToProto(op)

\* What is in a term or an operation on the wire.
ProtoParts(p) ==
    CASE p[1] \in {"set", "array"} -> p[2]
      [] p[1] = "map"     -> [i \in DOMAIN p[2] |-> p[2][i][2]]
      [] p[1] = "value"   -> <<p[2]>>
      [] p[1] = "closure" -> p[3]
      [] OTHER            -> << >>
WithinProto(p) == Reach(p, ProtoParts)

\* What proto_id_to_token_term and proto_op_to_token_op accept: the elements of
\* a set are of one kind, neither sets nor variables; a function has a name
\* beside its kind.
DecodableHere(p) ==
    CASE p[1] = "set" -> /\ \A t, u \in Range(p[2]) : t[1] = u[1]
                         /\ \A u \in Range(p[2]) : u[1] \notin {"set", "var"}
      [] p[1] \in {"unary", "binary"} -> (p[2] = "Ffi") = (p[3] # << >>)
      [] OTHER -> TRUE
Decodable(p) == \A q \in WithinProto(p) : DecodableHere(q)

FromProto(p) ==
    LET from[q \in WithinProto(p)] ==
            LET All(s) == [i \in DOMAIN s |-> from[s[i]]]
            IN  CASE q[1] = "set"     -> <<"set", Range(All(q[2]))>>
                  [] q[1] = "array"   -> <<"array", All(q[2])>>
                  [] q[1] = "map"     -> <<"map", {<<e[1], from[e[2]]>> : e \in Range(q[2])}>>
                  [] q[1] = "value"   -> <<"value", from[q[2]]>>
                  [] q[1] = "closure" -> <<"closure", q[2], All(q[3])>>
                  [] q[1] \in {"unary", "binary"} -> <<q[1], q[2]>> \o q[3]
                  [] OTHER            -> q
    IN  from[p]
proto_id_to_token_term(p) == FromProto(p)
proto_op_to_token_op(p) == FromProto(p)

token_predicate_to_proto_predicate(p) ==
    <<p[1], p[2], [i \in DOMAIN p[3] |-> token_term_to_proto_id(p[3][i])]>>
proto_predicate_to_token_predicate(p) ==
    <<p[1], p[2], [i \in DOMAIN p[3] |-> proto_id_to_token_term(p[3][i])]>>
DecodablePredicate(p) == \A t \in Range(p[3]) : Decodable(t)

\* A scope is one of two types or the index of a key.
token_scope_to_proto_scope(sc) ==
    CASE sc = TrustAuthority -> <<"type", 0>>
      [] sc = TrustPrevious  -> <<"type", 1>>
      [] OTHER -> <<"public_key", sc[2]>>
proto_scope_to_token_scope(p) ==
    CASE p = <<"type", 0>> -> TrustAuthority
      [] p = <<"type", 1>> -> TrustPrevious
      [] OTHER -> <<"key", p[2]>>

token_rule_to_proto_rule(rule) ==
    LET Ops(ops) == [i \in DOMAIN ops |-> token_op_to_proto_op(ops[i])]
        Predicate(p) == IF p = << >> THEN p ELSE token_predicate_to_proto_predicate(p)
    IN  [head |-> Predicate(rule.head),
         body |-> [i \in DOMAIN rule.body |-> Predicate(rule.body[i])],
         expressions |-> [i \in DOMAIN rule.expressions |-> Ops(rule.expressions[i])],
         scopes |-> [i \in DOMAIN rule.scopes |-> token_scope_to_proto_scope(rule.scopes[i])]]
proto_rule_to_token_rule(rule) ==
    LET Ops(ops) == [i \in DOMAIN ops |-> proto_op_to_token_op(ops[i])]
        Predicate(p) == IF p = << >> THEN p ELSE proto_predicate_to_token_predicate(p)
    IN  [head |-> Predicate(rule.head),
         body |-> [i \in DOMAIN rule.body |-> Predicate(rule.body[i])],
         expressions |-> [i \in DOMAIN rule.expressions |-> Ops(rule.expressions[i])],
         scopes |-> [i \in DOMAIN rule.scopes |-> proto_scope_to_token_scope(rule.scopes[i])]]
DecodableRule(rule, declared) ==
    /\ \A p \in Range(Predicates(rule)) : DecodablePredicate(p)
    /\ \A e \in Range(rule.expressions) : \A op \in Range(e) : Decodable(op)
    /\ declared < DATALOG_3_1 => rule.scopes = << >>

\* Mutant of CheckKinds: the kinds are numbered the other way around.
CheckKindsSwapped ==
    [kind \in CheckNames |->
        CASE kind = "check if" -> << >> [] kind = "check all" -> <<2>> [] OTHER -> <<1>>]

\* The kind of a check on the wire, and the kind that is read.
CheckKinds ==
    [kind \in CheckNames |->
        CASE kind = "check if" -> << >> [] kind = "check all" -> <<1>> [] OTHER -> <<2>>]
KindOf(number) ==
    CASE number \in {<< >>, <<0>>} -> "check if"
      [] number = <<1>> -> "check all"
      [] OTHER -> "reject if"
PolicyKinds == [kind \in PolicyNames |-> IF kind = "allow if" THEN 0 ELSE 1]
PolicyOf(number) == IF number = 0 THEN "allow if" ELSE "deny if"

Encoded(s) ==
    CASE s[1] = "fact" -> <<"fact", token_predicate_to_proto_predicate(s[2])>>
      [] s[1] = "rule" -> <<"rule", token_rule_to_proto_rule(s[2])>>
      [] OTHER ->
            <<s[1], IF s[1] = "check" THEN CheckKinds[s[2]] ELSE PolicyKinds[s[2]],
              [i \in DOMAIN s[3] |-> token_rule_to_proto_rule(s[3][i])]>>
Decoded(s) ==
    CASE s[1] = "fact" -> <<"fact", proto_predicate_to_token_predicate(s[2])>>
      [] s[1] = "rule" -> <<"rule", proto_rule_to_token_rule(s[2])>>
      [] OTHER ->
            <<s[1], IF s[1] = "check" THEN KindOf(s[2]) ELSE PolicyOf(s[2]),
              [i \in DOMAIN s[3] |-> proto_rule_to_token_rule(s[3][i])]>>
DecodableStatement(s, declared) ==
    /\ \A p \in Range(Facts(s)) : DecodablePredicate(p)
    /\ \A rule \in Range(Queries(s)) : DecodableRule(rule, declared)
\* The kinds of checks that a version knows.
DecodableCheck(s, declared) ==
    s[1] = "check" => /\ declared < DATALOG_3_1 => s[2] = << >>
                      /\ declared < DATALOG_3_3 => s[2] # <<2>>

token_block_to_proto_block(block) ==
    [block EXCEPT !.statements = [i \in DOMAIN @ |-> Encoded(@[i])],
                  !.scopes = [i \in DOMAIN @ |-> token_scope_to_proto_scope(@[i])]]
proto_block_to_token_block(proto) ==
    [proto EXCEPT !.statements = [i \in DOMAIN @ |-> Decoded(@[i])],
                  !.scopes = [i \in DOMAIN @ |-> proto_scope_to_token_scope(@[i])]]

\* proto_block_to_token_block accepts a block, external for a third-party one.
Accepts(proto, external) ==
    LET declared == proto.version
        block == proto_block_to_token_block(proto)
    IN  /\ declared \in MIN_SCHEMA_VERSION..MAX_SCHEMA_VERSION
        /\ \A s \in Range(proto.statements) :
              DecodableStatement(s, declared) /\ DecodableCheck(s, declared)
        /\ external => declared >= DATALOG_3_2
        /\ check_compatibility(get_schema_version(Range(block.statements), block.scopes), declared)
------------------------------------------------------------------------------
\* Loading

\* The predicates and scopes of a statement can be read with some tables.
ReadableAll(statements, scopeList, symbols, keys) ==
    /\ Range(AllWords(statements)) \subseteq DOMAIN symbols
    /\ Range(AllKeys(statements, scopeList)) \subseteq DOMAIN keys

\* A rule whose head has a variable of its own is refused.
HeadIsBound(s) == s[1] = "rule" => validate_head(s[2])

\* Mutant of Loaded: the checks keep the indices of the token.
LoadedKeepingChecks(statements, f, g) ==
    [i \in DOMAIN statements |->
        IF statements[i][1] = "check" THEN statements[i]
        ELSE TranslateStatement(statements[i], f, g)]

\* Every statement with the names of one table in those of another.
Loaded(statements, f, g) == TranslateAll(statements, f, g)

\* load_and_translate_block, for the tables of the token and those of the
\* authorizer. The scopes come first, then facts, rules and checks.
load_and_translate_block(block, symbols, keys, toSymbols, toKeys) ==
    LET names == AllWords(block.statements)
        words == [i \in DOMAIN names |-> symbols[names[i]]]
        named == ScopeKeys(block.scopes) \o AllKeys(block.statements, << >>)
        keyNames == [i \in DOMAIN named |-> keys[named[i]]]
        allSymbols == Insert(toSymbols, words)
        allKeys == Insert(toKeys, keyNames)
        f == [i \in DOMAIN symbols |-> IF symbols[i] \in Range(allSymbols)
                                       THEN IndexIn(allSymbols)[symbols[i]] ELSE 0]
        g == [i \in DOMAIN keys |-> IF keys[i] \in Range(allKeys)
                                    THEN IndexIn(allKeys)[keys[i]] ELSE 0]
    IN  IF ~ReadableAll(block.statements, block.scopes, symbols, keys)
        THEN [error |-> "UnknownSymbol"]
        ELSE IF \E s \in Range(block.statements) : ~HeadIsBound(s)
             THEN [error |-> "InvalidBlockRule"]
             ELSE [error |-> "", symbols |-> allSymbols, keys |-> allKeys,
                   statements |-> Loaded(block.statements, f, g),
                   scopes |-> TranslateScopes(block.scopes, g)]

\* AuthorizerBuilder::build_unauthenticated: the names of the scopes, the facts
\* and the rules; those of checks and policies are added when they are used.
build_inner(builder, symbols, keys) ==
    LET statements == InOrder(builder)
        allSymbols == Insert(symbols, AllWords(statements))
        allKeys == Insert(keys, ScopeKeys(builder.scopes) \o AllKeys(statements, << >>))
    IN  [error |-> "", symbols |-> allSymbols, keys |-> allKeys,
         statements |-> TranslateAll(statements, IndexIn(allSymbols), IndexIn(allKeys)),
         scopes |-> TranslateScopes(builder.scopes, IndexIn(allKeys))]
------------------------------------------------------------------------------
\* An authorizer that is saved: its policies (Authorizer::save and from,
\* AuthorizerPolicies), and its builder (AuthorizerBuilder::snapshot)

\* What save and serialize write: the scopes of the authorizer and the table of
\* keys are not there.
saved(builder) ==
    LET statements == InOrder(builder)
        symbols == Once(AllWords(statements))
        keys == Once(AllKeys(statements, << >>))
    IN  [symbols |-> symbols, public_keys |-> << >>, version |-> MAX_SCHEMA_VERSION,
         statements |-> [i \in DOMAIN statements |->
             Encoded(TranslateStatement(statements[i], IndexIn(symbols), IndexIn(keys)))],
         scopes |-> << >>]

\* Mutant of snapshot: the table of keys holds those of the block only.
snapshot_of_block(builder) ==
    LET policies == Policies(builder)
        symbols == Once(AllWords(policies))
        keys == Once(AllKeys(policies, << >>))
        block == build(builder, symbols, keys)
        f == IndexIn(symbols)
        g == IndexIn(keys)
    IN  [token_block_to_proto_block(block) EXCEPT
            !.symbols = symbols \o @, !.public_keys = @,
            !.statements = @ \o [i \in DOMAIN policies |->
                                    Encoded(TranslateStatement(policies[i], f, g))]]

\* AuthorizerBuilder::snapshot: the policies come first in the tables, and the
\* functions are not there.
snapshot(builder) ==
    LET policies == Policies(builder)
        symbols == Once(AllWords(policies))
        keys == Once(AllKeys(policies, << >>))
        block == build(builder, symbols, keys)
        f == IndexIn(symbols)
        g == IndexIn(keys)
    IN  [token_block_to_proto_block(block) EXCEPT
            !.symbols = symbols \o @, !.public_keys = keys \o @,
            !.statements = @ \o [i \in DOMAIN policies |->
                                    Encoded(TranslateStatement(policies[i], f, g))]]

\* proto_authorizer_to_authorizer succeeds: everything is read with the version
\* that was saved.
RestorableSaved(proto) ==
    LET read == proto_block_to_token_block(proto)
    IN  /\ proto.version \in MIN_SCHEMA_VERSION..MAX_SCHEMA_VERSION
        /\ \A s \in Range(proto.statements) : DecodableStatement(s, proto.version)
        /\ ReadableAll(read.statements, read.scopes, proto.symbols, proto.public_keys)

\* AuthorizerBuilder::from_snapshot succeeds: the block is accepted by
\* proto_snapshot_block_to_token_block, and the policies are read with the
\* version of the snapshot, the last one.
RestorableSnapshot(proto) ==
    LET read == proto_block_to_token_block(proto)
        inBlock == {s \in Range(read.statements) : s[1] # "policy"}
    IN  /\ proto.version \in MIN_SCHEMA_VERSION..MAX_SCHEMA_VERSION
        /\ \A s \in Range(proto.statements) :
              IF s[1] = "policy" THEN DecodableStatement(s, MAX_SCHEMA_VERSION)
              ELSE /\ DecodableStatement(s, proto.version)
                   /\ (s[1] = "check" /\ proto.version = MIN_SCHEMA_VERSION) => s[2] = << >>
        /\ check_compatibility(get_schema_version(inBlock, read.scopes), proto.version)
        /\ ReadableAll(read.statements, read.scopes, proto.symbols, proto.public_keys)

\* The builder they make.
restored(proto) ==
    LET read == proto_block_to_token_block(proto)
        statements == TranslateAll(read.statements, proto.symbols, proto.public_keys)
    IN  [Empty EXCEPT !.items = [i \in DOMAIN statements |-> Template(statements[i], "code")],
                      !.scopes = TranslateScopes(read.scopes, proto.public_keys)]
==============================================================================
