------------------------------- MODULE Sources --------------------------------
(* The operations of the builders that read Datalog code (biscuit-auth/src/   *)
(* token/builder/block.rs, authorizer.rs and biscuit-quote).                  *)
EXTENDS Syntax

\* The statements of a source, and what they are with the values given.
Source(target, source) ==
    IF target = "block" THEN parse_block_source(source) ELSE parse_source(source)
Filled(statements, route, params, keys) ==
    [i \in DOMAIN statements |-> SetAll(Template(statements[i], route), params, keys)]

\* code_with_params of a block's builder and of an authorizer's. All statements
\* are taken or none, and the scopes that a block's source begins with are lost.
code_with_params(builder, target, source, params, keys) ==
    LET Take(items) ==
            IF \E i \in DOMAIN items : ~validate_parameters(items[i]) THEN Refusal("Parameters")
            ELSE Taken([builder EXCEPT !.items = @ \o items])
        From(read) ==
            IF read.errors > 0 THEN Refusal("ParseErrors")
            ELSE Take(Filled(read.statements, "code", params, keys))
    IN  From(Source(target, source))

\* The macros of biscuit-quote. The source is read when the program is compiled:
\* the names given to the macro must be parameters of the source, and the other
\* parameters are variables of the program, all given here. The values are set
\* when it runs, by set_macro_param, and the answers of fact, rule, check and
\* policy are unwrapped.
macro(builder, target, source, params, keys) ==
    LET names(read) ==
            UNION {Parameters(s, "code") \cup ScopeParameters(s) : s \in Range(read.statements)}
        From(read) ==
            IF read.errors > 0 \/ names(read) # DOMAIN params \cup DOMAIN keys
            THEN Refusal("CompileError")
            ELSE Taken([builder EXCEPT !.items =
                            @ \o Filled(read.statements, "macro", params, keys)])
    IN  From(Source(target, source))

\* fact, rule, check and policy, with the text of one statement
add(builder, kind, text) ==
    LET inner == [fact |-> "fact_inner", rule |-> "rule_inner",
                  check |-> "check_inner", policy |-> "policy_inner"][kind]
        Take(item) ==
            IF ~validate_parameters(item) THEN Refusal("Parameters")
            ELSE Taken([builder EXCEPT !.items = Append(@, item)])
        From(read) ==
            IF read.is # "ok" THEN Refusal("ParseErrors") ELSE Take(Template(read.value[1], "code"))
    IN  From(parse_statement(inner, text))
==============================================================================
