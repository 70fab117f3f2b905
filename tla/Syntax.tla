------------------------------- MODULE Syntax --------------------------------
(* The text of Datalog: the parser of biscuit-parser/src/parser.rs and the    *)
(* printer of biscuit-auth/src/datalog (symbol.rs, expression.rs).            *)
(*                                                                            *)
(* A token is <<"sym", s>> for a mark, an operator, a keyword or the name of  *)
(* a method, <<"name", n>>, <<"extern", n>>, <<"key", k>>, or the term that a *)
(* literal or a variable stands for.                                          *)
(*                                                                            *)
(* A tree (Expr) is <<"leaf", term>>, <<"apply", op, tree>>,                  *)
(* <<"apply", op, left, right>> or <<"fun", parameters, tree>>. A predicate is *)
(* a name with terms. A rule, and a query of a check or a policy, is a record *)
(* of a head, a body, expressions and scopes. A statement is a tuple: a kind  *)
(* ("fact", "rule", "check" or "policy"), the predicate of a fact, the rule,  *)
(* or the kind of check or policy followed by its queries.                    *)
EXTENDS Grammar, Templates

CONSTANT Quoted     \* the strings that only an escape sequence can write

\* The tokens of binary operators, and of methods, with their operations.
BinaryTokens ==
    ("||" :> "LazyOr") @@ ("&&" :> "LazyAnd") @@
    ("<=" :> "LessOrEqual") @@ (">=" :> "GreaterOrEqual") @@
    ("<" :> "LessThan") @@ (">" :> "GreaterThan") @@
    ("===" :> "Equal") @@ ("!==" :> "NotEqual") @@
    ("==" :> "HeterogeneousEqual") @@ ("!=" :> "HeterogeneousNotEqual") @@
    ("^" :> "BitwiseXor") @@ ("|" :> "BitwiseOr") @@ ("&" :> "BitwiseAnd") @@
    ("+" :> "Add") @@ ("-" :> "Sub") @@ ("*" :> "Mul") @@ ("/" :> "Div")

MethodTokens ==
    ("contains" :> "Contains") @@ ("starts_with" :> "Prefix") @@
    ("ends_with" :> "Suffix") @@ ("matches" :> "Regex") @@
    ("intersection" :> "Intersection") @@ ("union" :> "Union") @@
    ("all" :> "All") @@ ("any" :> "Any") @@ ("get" :> "Get") @@
    ("try_or" :> "TryOr") @@ ("length" :> "Length") @@ ("type" :> "TypeOf")

OneOf(tokens) == <<"one", {Sym(tokens[i]) : i \in DOMAIN tokens}>>
Between(left, parser, right) == Concat(<<Tag(left), parser, Tag(right)>>)
Comma == Tag(",")
------------------------------------------------------------------------------
\* Terms

name == Kind({"name"})
parameter == Between("{", name, "}")
variable == Kind({"var"})

\* What string, integer, bytes, boolean, null and date read.
literal == Alt(<<Kind({"str", "int", "bytes", "bool", "null"}), <<"date">>>>)

map_key == Alt(<<Rule("parameter"), Kind({"str", "int"})>>)
parse_map ==
    Between("{", Cut(List0(Comma, Concat(<<Rule("map_key"), Tag(":"),
                                           Rule("term_in_fact")>>))), "}")
array == Between("[", Cut(List0(Comma, Rule("term_in_fact"))), "]")
set_elements == Cut(List1(Comma, Rule("term_in_set")))
set == Alt(<<Rule("empty_set"), Rule("non_empty_set")>>)

term == Alt(<<Rule("parameter"), literal, variable, Rule("array"),
              Rule("parse_map"), Rule("set")>>)
term_in_fact == Alt(<<Rule("parameter"), literal, Rule("set"), Rule("array"),
                      Rule("parse_map")>>)
term_in_set == Alt(<<Rule("parameter"), literal, Rule("parse_map")>>)
------------------------------------------------------------------------------
\* Expressions: one level of operators above the other

binary_op_2 == <<"<=", ">=", "<", ">", "===", "!==", "==", "!=">>
binary_op_8 == <<"contains", "starts_with", "ends_with", "matches",
                 "intersection", "union", "get", "try_or">>

\* The operators of each level, that of the whole expression first.
binary_ops ==
    <<<<"||">>, <<"&&">>, binary_op_2, <<"^">>, <<"|">>, <<"&">>, <<"+", "-">>, <<"*", "/">>>>

\* Comparisons are not associative: one at most.
Repeats(operators) == operators # binary_op_2

\* expr, expr1 ... expr7: each reads operands of the next with its operators
\* between them. expr6 has the last two levels.
expr == Infix(binary_ops, Rule("expr8"))
expr6 == Infix(SubSeq(binary_ops, 7, 8), Rule("expr8"))
expr8 == Alt(<<Rule("unary_negate"), Rule("expr9")>>)

\* The operand of a negation goes on up to the sums.
unary_negate == Concat(<<Tag("!"), Rule("expr6")>>)

\* Methods are read as long as there is a dot.
expr9 == Concat(<<Rule("expr_term"),
                  Chain(Tag("."), Either(Rule("binary_method"), Rule("unary_method")))>>)
binary_method ==
    Alt(<<Concat(<<OneOf(<<"all", "any">>), Tag("("), variable, Tag("->"),
                   Rule("expr"), Tag(")")>>),
          Concat(<<Alt(<<OneOf(binary_op_8), Kind({"extern"})>>), Tag("("),
                   Rule("expr"), Tag(")")>>)>>)
unary_method ==
    Concat(<<Alt(<<OneOf(<<"length", "type">>), Kind({"extern"})>>), Tag("("), Tag(")")>>)

unary_parens == Between("(", Rule("expr"), ")")
expr_term == Alt(<<Rule("unary_parens"), Rule("expr_value")>>)
------------------------------------------------------------------------------
\* Statements

predicate == Concat(<<name, Between("(", Cut(List1(Comma, Cut(Rule("term")))), ")")>>)
rule_head == Concat(<<name, Between("(", Cut(List0(Comma, Cut(Rule("term")))), ")")>>)
fact_inner ==
    Concat(<<name, Between("(", Cut(List1(Comma, Cut(Rule("term_in_fact")))), ")")>>)

scope == Alt(<<OneOf(<<"authority", "previous">>), Kind({"key"}), Rule("parameter")>>)
scopes == Alt(<<Concat(<<Tag("trusting"), List1(Comma, Cut(scope))>>), Concat(<< >>)>>)

predicate_or_expression == Alt(<<Rule("predicate"), Rule("expr")>>)
rule_body ==
    Concat(<<List1(Comma, Cut(predicate_or_expression)), Rule("scopes")>>)
check_body == List1(Tag("or"), Cut(Rule("rule_body")))

rule_inner == Concat(<<Rule("rule_head"), Tag("<-"), Cut(Rule("rule_body"))>>)
check_inner == Concat(<<OneOf(<<"check if", "check all", "reject if">>), Cut(check_body)>>)
policy_inner == Concat(<<OneOf(<<"allow if", "deny if">>), Cut(check_body)>>)
comment == Tag("//")

\* The statements that parse_block_source reads, and parse_source. Each ends
\* with a semicolon or the text.
sep == Alt(<<Tag(";"), <<"eof">>>>)
Ended(rule) == Concat(<<Rule(rule), sep>>)
block_element ==
    Alt(<<Ended("rule_inner"), Ended("fact_inner"), Ended("check_inner"), Concat(<<comment>>)>>)
source_element == Alt(<<block_element, Ended("policy_inner")>>)

Productions ==
    [parameter |-> parameter, map_key |-> map_key, parse_map |-> parse_map,
     array |-> array, empty_set |-> Tag("{,}"), set_elements |-> set_elements,
     non_empty_set |-> Between("{", Rule("set_elements"), "}"),
     set |-> set, term |-> term, term_in_fact |-> term_in_fact,
     term_in_set |-> term_in_set, expr |-> expr, expr6 |-> expr6,
     expr8 |-> expr8, expr9 |-> expr9,
     unary_negate |-> unary_negate, binary_method |-> binary_method,
     unary_method |-> unary_method, unary_parens |-> unary_parens,
     expr_term |-> expr_term, expr_value |-> Rule("term"),
     predicate |-> predicate, rule_head |-> rule_head, fact_inner |-> fact_inner,
     scopes |-> scopes, rule_body |-> rule_body, rule_inner |-> rule_inner,
     check_inner |-> check_inner, policy_inner |-> policy_inner]
------------------------------------------------------------------------------
\* What the parser makes of the values it has read

\* Expr::into_opcodes: the operands, then the operation. A closure is one
\* operation that holds those of its body.
RECURSIVE Opcodes(_)
Opcodes(tree) ==
    CASE tree[1] = "leaf" -> <<<<"value", tree[2]>>>>
      [] tree[1] = "fun"  -> <<<<"closure", tree[2], Opcodes(tree[3])>>>>
      [] Len(tree) = 3    -> Append(Opcodes(tree[3]), tree[2])
      [] OTHER -> Append(Opcodes(tree[3]) \o Opcodes(tree[4]), tree[2])

\* Mutant of fold_exprs: the right side of && and || is not a closure.
FoldStrictly(initial, remainder) ==
    FoldLeft(LAMBDA left, pair :
                 <<"apply", <<"binary", BinaryTokens[pair[1][2]]>>, left, pair[2]>>,
             initial, remainder)

\* The operators of a level from left to right. The right side of the lazy ones
\* is a closure.
fold_exprs(initial, remainder) ==
    LET Right(op, tree) ==
            IF op \in {"LazyAnd", "LazyOr"} THEN <<"fun", << >>, tree>> ELSE tree
        Apply(left, pair) ==
            LET op == BinaryTokens[pair[1][2]]
            IN  <<"apply", <<"binary", op>>, left, Right(op, pair[2])>>
    IN  FoldLeft(Apply, initial, remainder)

\* The operation of a method: one of the list, or an extern function.
Method(arity, token) ==
    IF token[1] = "extern" THEN <<arity, "Ffi", token[2]>>
    ELSE <<arity, MethodTokens[token[2]]>>

\* The methods of expr9: try_or makes a closure of what it is called on.
fold_methods(initial, methods) ==
    LET Apply(left, method) ==
            IF Len(method) = 1 THEN <<"apply", method[1], left>>
            ELSE IF method[1] = <<"binary", "TryOr">> THEN
                    <<"apply", method[1], <<"fun", << >>, left>>, method[2]>>
            ELSE <<"apply", method[1], left, method[2]>>
    IN  FoldLeft(Apply, initial, methods)

\* The entries of a map: the last one for a key.
Entries(list) ==
    {<<list[i][1], list[i][3]>> :
        i \in {j \in DOMAIN list : \A k \in (j + 1)..Len(list) : list[k][1] # list[j][1]}}

\* The variables of an expression, outside of its closures.
OwnVariables(ops) ==
    Variables([i \in DOMAIN ops |-> IF ops[i][1] = "value" THEN ops[i][2] ELSE Null])

\* Mutant of validate_variables: the expressions of the rule are not looked at.
validate_head_only(rule) == Variables(rule.head[3]) \subseteq Bound(rule.body)

\* Rule::validate_variables of the parser
validate_variables(rule) ==
    Variables(rule.head[3]) \cup UNION {OwnVariables(ops) : ops \in Range(rule.expressions)}
        \subseteq Bound(rule.body)

\* What rule_body returns: the elements apart, a query without a head.
Query(elements, scopeList) ==
    [head |-> << >>,
     body |-> SelectSeq(elements, LAMBDA e : e[1] = "predicate"),
     expressions |-> LET trees == SelectSeq(elements, LAMBDA e : e[1] # "predicate")
                     IN  [i \in DOMAIN trees |-> Opcodes(trees[i])],
     scopes |-> scopeList]

\* The function that each parser maps over the values it has read.
Made(rule, v) ==
    CASE rule = "parameter"     -> <<"param", v[2][2]>>
      [] rule = "parse_map"     -> <<"map", Entries(v[2])>>
      [] rule = "array"         -> <<"array", v[2]>>
      [] rule = "empty_set"     -> <<"set", {}>>
      [] rule = "non_empty_set" -> <<"set", Range(v[2])>>
      [] rule = "unary_negate"  -> <<"apply", <<"unary", "Negate">>, v[2]>>
      [] rule = "unary_parens"  -> <<"apply", <<"unary", "Parens">>, v[2]>>
      [] rule = "expr_value"    -> <<"leaf", v>>
      [] rule = "unary_method"  -> <<Method("unary", v[1])>>
      [] rule = "binary_method" ->
            IF Len(v) = 6
            THEN <<Method("binary", v[1]), <<"fun", <<v[3][2]>>, v[5]>>>>
            ELSE <<Method("binary", v[1]), v[3]>>
      [] rule = "expr9"         -> fold_methods(v[1], v[2])
      [] rule \in {"predicate", "rule_head"} -> <<"predicate", v[1][2], v[2][2]>>
      [] rule = "fact_inner"    -> <<"fact", <<"predicate", v[1][2], v[2][2]>>>>
      [] rule = "scopes"        -> IF v = << >> THEN << >> ELSE v[2]
      [] rule = "rule_body"     -> Query(v[1], v[2])
      [] rule = "rule_inner"    -> <<"rule", [v[3] EXCEPT !.head = v[1]]>>
      [] rule = "check_inner"   -> <<"check", v[1][2], v[2]>>
      [] rule = "policy_inner"  -> <<"policy", v[1][2], v[2]>>
      [] OTHER                  -> v

\* What a parser refuses once it is read: a set of several kinds, and a rule
\* with a variable that its body does not bind.
Refused(rule, value) ==
    \/ rule = "set_elements" /\ Cardinality({value[i][1] : i \in DOMAIN value}) > 1
    \/ rule = "rule_inner" /\ ~validate_variables(value[2])
------------------------------------------------------------------------------
\* The run of a parser on a text

RECURSIVE Run(_, _), RunSeq(_, _, _), RunAlt(_, _), RunMany(_, _, _), RunList(_, _, _, _),
          RunChain(_, _, _, _), RunInfix(_, _, _), RunLevels(_, _, _, _),
          RunOperators(_, _, _, _, _, _)

\* One parser after the other.
RunSeq(parsers, i, values) ==
    IF parsers = << >> THEN Ok(values, i)
    ELSE LET r == Run(Head(parsers), i)
         IN  IF r.is # "ok" THEN r
             ELSE RunSeq(Tail(parsers), r.left, Append(values, r.value))

\* alt: only an error lets the next one try.
RunAlt(parsers, i) ==
    IF parsers = << >> THEN Err("error")
    ELSE LET r == Run(Head(parsers), i)
         IN  IF r.is = "error" THEN RunAlt(Tail(parsers), i) ELSE r

\* many0
RunMany(parser, i, values) ==
    LET r == Run(parser, i)
    IN  CASE r.is = "ok"      -> RunMany(parser, r.left, Append(values, r.value))
          [] r.is = "failure" -> r
          [] OTHER            -> Ok(values, i)

\* separated_list0 and separated_list1, once the first item has been read: a
\* separator without an item after it is left alone.
RunList(separator, item, i, values) ==
    LET r == Run(Concat(<<separator, item>>), i)
    IN  CASE r.is = "ok"      -> RunList(separator, item, r.left, Append(values, r.value[2]))
          [] r.is = "failure" -> r
          [] OTHER            -> Ok(values, i)

\* The loop of expr9.
RunChain(lead, rest, i, values) ==
    LET dot == Run(lead, i)
        r == Run(rest, dot.left)
    IN  IF dot.is # "ok" THEN Ok(values, i)
        ELSE IF r.is # "ok" THEN r
        ELSE RunChain(lead, rest, r.left, Append(values, r.value))

\* An operand, then the operators of each level, those of the last one first.
RunInfix(levels, operand, i) == RunLevels(levels, Len(levels), operand, Run(operand, i))
RunLevels(levels, k, operand, read) ==
    IF read.is # "ok" \/ k = 0 THEN read
    ELSE RunLevels(levels, k - 1, operand,
                   RunOperators(levels, k, operand, read.left, read.value, << >>))

\* The operands of a level are of the levels after it. An operator without an
\* operand after it is left alone.
RunOperators(levels, k, operand, i, first, pairs) ==
    LET More(r) ==
            IF r.is = "ok" /\ Repeats(levels[k]) THEN
                    RunOperators(levels, k, operand, r.left, first,
                                 Append(pairs, <<Head(i), r.value>>))
            ELSE IF r.is = "ok" THEN Ok(fold_exprs(first, Append(pairs, <<Head(i), r.value>>)), r.left)
            ELSE IF r.is = "failure" /\ Repeats(levels[k]) THEN r
            ELSE Ok(fold_exprs(first, pairs), i)
    IN  IF i # << >> /\ Head(i) \in {Sym(o) : o \in Range(levels[k])}
        THEN More(RunInfix(SubSeq(levels, k + 1, Len(levels)), operand, Tail(i)))
        ELSE Ok(fold_exprs(first, pairs), i)

\* A date is read up to the next space or closing mark: a dot ends no date.
DateEnds(i) == Len(i) = 1 \/ i[2] # Sym(".")

Run(parser, i) ==
    LET kind == parser[1]
        r == Run(parser[2], i)
        Reads(accepted) == IF i # << >> /\ accepted THEN Ok(Head(i), Tail(i)) ELSE Err("error")
    IN  CASE kind = "tag"   -> Reads(Head(i) = parser[2])
          [] kind = "one"   -> Reads(Head(i) \in parser[2])
          [] kind = "kind"  -> Reads(Head(i)[1] \in parser[2])
          [] kind = "eof"   -> IF i = << >> THEN Ok(<< >>, i) ELSE Err("error")
          [] kind = "date"  -> Reads(Head(i)[1] = "date" /\ DateEnds(i))
          [] kind = "seq"   -> RunSeq(parser[2], i, << >>)
          [] kind = "alt"   -> RunAlt(parser[2], i)
          [] kind = "many"  -> RunMany(parser[2], i, << >>)
          [] kind = "list"  ->
                LET one == Run(parser[3], i)
                IN  CASE one.is = "ok" -> RunList(parser[2], parser[3], one.left, <<one.value>>)
                      [] one.is = "error" /\ ~parser[4] -> Ok(<< >>, i)
                      [] OTHER -> one
          [] kind = "cut"   -> IF r.is = "error" THEN Err("failure") ELSE r
          [] kind = "try"   -> IF r.is = "ok" THEN Ok(<<r.value>>, r.left) ELSE Ok(<< >>, i)
          [] kind = "chain" -> RunChain(parser[2], parser[3], i, << >>)
          [] kind = "infix" -> RunInfix(parser[2], parser[3], i)
          [] kind = "either" -> IF r.is = "ok" THEN r ELSE Run(parser[3], i)
          [] OTHER -> LET Checked(value, left) ==
                              IF Refused(parser[2], value) THEN Err("failure") ELSE Ok(value, left)
                          Finish(body) ==
                              IF body.is # "ok" THEN body
                              ELSE Checked(Made(parser[2], body.value), body.left)
                      IN  Finish(Run(Productions[parser[2]], i))
------------------------------------------------------------------------------
\* A whole source

\* What is left after the next semicolon.
Skipped(i) ==
    LET ends == {k \in DOMAIN i : i[k] = Sym(";")}
    IN  IF ends = {} THEN << >>
        ELSE SubSeq(i, (CHOOSE k \in ends : \A l \in ends : k <= l) + 1, Len(i))

\* The loop of parse_source and parse_block_source: after an error they go on
\* behind the next semicolon, to report the errors of all statements.
RECURSIVE Statements(_, _, _)
Statements(element, i, found) ==
    LET GoOn(r) ==
            IF r.is # "ok" THEN Statements(element, Skipped(i), [found EXCEPT !.errors = @ + 1])
            ELSE IF r.value[1] = Sym("//") THEN Statements(element, r.left, found)
            ELSE Statements(element, r.left,
                                     [found EXCEPT !.statements = Append(@, r.value[1])])
    IN  IF i = << >> THEN found ELSE GoOn(Run(element, i))

Nothing == [scopes |-> << >>, statements |-> << >>, errors |-> 0]

parse_source(i) == Statements(source_element, i, Nothing)

\* The scopes of the block may come first.
parse_block_source(i) ==
    LET First(r) ==
            CASE r.is = "ok"    -> <<r.left, [Nothing EXCEPT !.scopes = r.value[1]]>>
              [] r.is = "error" -> <<i, Nothing>>
              [] OTHER          -> <<Skipped(i), [Nothing EXCEPT !.errors = 1]>>
        Rest(first) == Statements(block_element, first[1], first[2])
    IN  Rest(First(Run(Concat(<<Rule("scopes"), sep>>), i)))

\* The parsers of one statement: all of the text must be read.
parse_statement(rule, i) == Run(Concat(<<Rule(rule), <<"eof">>>>), i)
------------------------------------------------------------------------------
\* The printer

Marks(strings) == [k \in DOMAIN strings |-> Sym(strings[k])]

\* Texts with a mark between them.
Joined(texts, mark) ==
    FlattenSeq([k \in DOMAIN texts |-> IF k = 1 THEN texts[k] ELSE <<Sym(mark)>> \o texts[k]])

\* The token for an operation, as written.
TokenOf(tokens, op) == CHOOSE token \in DOMAIN tokens : tokens[token] = op

\* SymbolTable::print_term, Term::fmt. The text of a string is put between
\* quotes as it is: one that needs escapes is not read back.
RECURSIVE PrintTerm(_)
PrintTerm(t) ==
    LET All(list) == Joined([k \in DOMAIN list |-> PrintTerm(list[k])], ",")
        Entry(e) == PrintTerm(e[1]) \o Marks(<<":">>) \o PrintTerm(e[2])
    IN  IF t[1] = "str" /\ t[2] \in Quoted THEN Marks(<<"broken string">>)
        ELSE IF t[1] = "param" THEN Marks(<<"{">>) \o <<<<"name", t[2]>>>> \o Marks(<<"}">>)
        ELSE IF t[1] = "array" THEN Marks(<<"[">>) \o All(t[2]) \o Marks(<<"]">>)
        ELSE IF t = <<"set", {}>> THEN Marks(<<"{,}">>)
        ELSE IF t[1] = "set" THEN Marks(<<"{">>) \o All(Listed(t[2])) \o Marks(<<"}">>)
        ELSE IF t[1] = "map" THEN
                LET list == Listed(t[2])
                IN  Marks(<<"{">>) \o Joined([k \in DOMAIN list |-> Entry(list[k])], ",")
                        \o Marks(<<"}">>)
        ELSE <<t>>

\* The name of a method, or of an extern function.
PrintMethod(op) ==
    IF op[2] = "Ffi" THEN <<<<"extern", op[3]>>>> ELSE <<Sym(TokenOf(MethodTokens, op[2]))>>

\* Unary::print
PrintUnary(op, value) ==
    CASE op[2] = "Negate" -> Marks(<<"!">>) \o value
      [] op[2] = "Parens" -> Marks(<<"(">>) \o value \o Marks(<<")">>)
      [] OTHER -> value \o Marks(<<".">>) \o PrintMethod(op) \o Marks(<<"(", ")">>)

\* Binary::print. The strict And and Or have an operator that is not read as one.
PrintBinary(op, left, right) ==
    CASE op[2] = "And" -> left \o Marks(<<"&&", "!">>) \o right
      [] op[2] = "Or"  -> left \o Marks(<<"||", "!">>) \o right
      [] op[2] \in Range(BinaryTokens) ->
            left \o <<Sym(TokenOf(BinaryTokens, op[2]))>> \o right
      [] OTHER -> left \o Marks(<<".">>) \o PrintMethod(op) \o Marks(<<"(">>)
                       \o right \o Marks(<<")">>)

\* Mutant of PrintClosure: the parameter is left out.
PrintBody(params, body) == body

\* A closure without parameters prints as its body.
PrintClosure(params, body) ==
    IF params = << >> THEN body
    ELSE Joined([k \in DOMAIN params |-> <<<<"var", params[k]>>>>], ",")
             \o Marks(<<"->">>) \o body

\* Expression::print: a stack of texts, and no text for a stack that ends up
\* with another size.
RECURSIVE PrintExpression(_)
PrintExpression(ops) ==
    LET Step(stack, op) ==
            LET top == Len(stack)
                Push(pops, text) == Append(SubSeq(stack, 1, top - pops), text)
            IN  CASE op[1] = "value"   -> Push(0, PrintTerm(op[2]))
                  [] op[1] = "closure" -> Push(0, PrintClosure(op[2], PrintExpression(op[3])))
                  [] op[1] = "unary"   -> Push(1, PrintUnary(op, stack[top]))
                  [] OTHER -> Push(2, PrintBinary(op, stack[top - 1], stack[top]))
        Size(op) == CASE op[1] = "unary" -> 0 [] op[1] = "binary" -> -1 [] OTHER -> 1
        Height(k) == FoldLeft(LAMBDA n, op : n + Size(op), 0, SubSeq(ops, 1, k))
        valid == /\ \A k \in DOMAIN ops : Height(k) >= 1
                 /\ Height(Len(ops)) = 1
    IN  IF valid THEN Head(FoldLeft(Step, << >>, ops)) ELSE Marks(<<"invalid expression">>)

PrintPredicate(p) ==
    <<<<"name", p[2]>>>> \o Marks(<<"(">>)
        \o Joined([k \in DOMAIN p[3] |-> PrintTerm(p[3][k])], ",") \o Marks(<<")">>)

PrintScope(s) == IF s[1] = "param" THEN PrintTerm(s) ELSE <<s>>

\* print_rule_body, display_rule_body
PrintBodyOf(rule) ==
    Joined([k \in DOMAIN rule.body |-> PrintPredicate(rule.body[k])]
               \o [k \in DOMAIN rule.expressions |-> PrintExpression(rule.expressions[k])], ",")
        \o IF rule.scopes = << >> THEN << >>
           ELSE Marks(<<"trusting">>)
                    \o Joined([k \in DOMAIN rule.scopes |-> PrintScope(rule.scopes[k])], ",")

\* print_fact, print_rule, print_check and Policy::fmt
PrintStatement(s) ==
    CASE s[1] = "fact" -> PrintPredicate(s[2])
      [] s[1] = "rule" -> PrintPredicate(s[2].head) \o Marks(<<"<-">>) \o PrintBodyOf(s[2])
      [] OTHER -> <<Sym(s[2])>>
                    \o Joined([k \in DOMAIN s[3] |-> PrintBodyOf(s[3][k])], "or")

\* Block::print_source, BlockBuilder::fmt: the scopes of the block are not there.
PrintSource(statements) ==
    FlattenSeq([k \in DOMAIN statements |-> PrintStatement(statements[k]) \o Marks(<<";">>)])
==============================================================================
