-------------------------- MODULE BlockLifeProperties --------------------------
(* What must hold of a block on its way: its text, its indices and its bytes  *)
(* say the same thing, and an authorizer answers what it says.                *)
EXTENDS BlockLife, BlockPathProperties
------------------------------------------------------------------------------
\* What an expression means, on names and without a stack, a symbol table or an
\* order of the elements of sets: the set of the values and errors it may have.
\* In a tree the right side of && and || is the expression itself.

Failed(error) == <<"error", error>>
IsFailed(x) == x[1] = "error"

\* The integer that an operation has, if there is one.
Exact(op, i, j) ==
    {n \in MinInt..MaxInt :
        CASE op = "Add" -> n = i + j
          [] op = "Sub" -> n + j = i
          [] op = "Mul" -> n = i * j
          [] OTHER -> \E r \in MinInt..MaxInt :
                         /\ i = n * j + r /\ r * i >= 0
                         /\ r * r < j * j}

\* An operation on values whose names are the only ones in the table.
Named(answer) ==
    IF answer.error # "" THEN Failed(answer.error) ELSE ConvertFrom(answer.term, answer.symbols)
Value1(op, t) ==
    LET words == Once(Words(op) \o Words(t))
        C(x) == Convert(x, words)
    IN  Named(UnaryEvaluate(C(op), C(t), Externs, words))
Value2(op, t, u) ==
    LET words == Once(Words(op) \o Words(t) \o Words(u))
        C(x) == Convert(x, words)
    IN  IF t[1] = "int" /\ u[1] = "int" /\ op[2] \in {"Add", "Sub", "Mul", "Div"}
        THEN LET n == Exact(op[2], t[2], u[2])
             IN  IF n = {} THEN Failed(IF op[2] = "Div" THEN "DivideByZero" ELSE "Overflow")
                 ELSE <<"int", CHOOSE x \in n : TRUE>>
        ELSE Named(BinaryEvaluate(C(op), C(t), C(u), Externs, words))

\* The elements of a container.
Elements(t) ==
    CASE t[1] = "set"   -> t[2]
      [] t[1] = "array" -> Range(t[2])
      [] OTHER          -> {<<"array", entry>> : entry \in t[2]}

RECURSIVE Denote(_, _)
Denote(tree, values) ==
    LET op == tree[2]
        First == Denote(tree[3], values)
        Second == Denote(tree[4], values)
        Lazy(l) ==
            IF IsFailed(l) THEN {l}
            ELSE IF l[1] # "bool" THEN {Failed("InvalidType")}
            ELSE IF l[2] = (op[2] = "LazyOr") THEN {l}
            ELSE Second
        Quantified(l) ==
            LET v == tree[4][2][1]
                each == {Denote(tree[4][3], (v :> e) @@ values) : e \in Elements(l)}
                decisive == Bool(op[2] = "Any")
                bad == {x \in UNION each : x[1] # "bool"}
            IN  IF IsFailed(l) THEN {l}
                ELSE IF v \in DOMAIN values THEN {Failed("ShadowedVariable")}
                ELSE IF l[1] \notin {"set", "array", "map"} THEN {Failed("InvalidType")}
                ELSE
                        {IF IsFailed(x) THEN x ELSE Failed("InvalidType") : x \in bad}
                            \cup ({decisive} \cap UNION each)
                            \cup {t \in {Bool(op[2] = "All")} : \A xs \in each : t \in xs}
    IN  IF tree[1] = "leaf" /\ op[1] = "var" THEN
                {IF op[2] \in DOMAIN values THEN values[op[2]] ELSE Failed("UnknownVariable")}
        ELSE IF tree[1] = "leaf" THEN {op}
        ELSE IF Len(tree) = 3 THEN {IF IsFailed(t) THEN t ELSE Value1(op, t) : t \in First}
        ELSE IF op[2] \in {"LazyAnd", "LazyOr"} THEN UNION {Lazy(l) : l \in First}
        ELSE IF op[2] \in {"All", "Any"} THEN UNION {Quantified(l) : l \in First}
          \* The value to fall back on is computed in any case.
        ELSE IF op[2] = "TryOr" THEN
                {IF IsFailed(pair[2]) \/ IsFailed(pair[1]) THEN pair[2] ELSE pair[1] :
                    pair \in First \X Second}
        ELSE
                {IF IsFailed(pair[1]) THEN pair[1]
                 ELSE IF IsFailed(pair[2]) THEN pair[2]
                 ELSE Value2(op, pair[1], pair[2]) : pair \in First \X Second}

Verdict(x) ==
    CASE x = Bool(TRUE)  -> "true"
      [] x = Bool(FALSE) -> "false"
      [] IsFailed(x)     -> x[2]
      [] OTHER           -> "InvalidType"

NoValues == [x \in {} |-> Null]

\* A check answers what its expression means, whatever was needed on the way:
\* the precedence of its operators, closures for what must not be evaluated
\* yet, a stack, indices for strings in two tables, sets in the order of those
\* indices, a new string from an operation or from a function, and integers of
\* a fixed width. The precedence is that of the functions of the parser, where
\* | binds tighter than ^; the comments on expr3 and expr4 say the converse.
ExpressionsMeanWhatTheySay ==
    (stage = "answered" /\ given # None /\ given.tree # None) =>
        \A i \in DOMAIN loaded.statements :
            loaded.statements[i][1] = "check" =>
                Head(answers[i]) \in {Verdict(x) : x \in Denote(given.tree, NoValues)}
------------------------------------------------------------------------------
\* Rules

\* A rule that the parser accepted never meets a variable without a value,
\* except inside of a closure, where no validation looks.
RulesBindTheirVariables ==
    (stage = "answered" /\ loaded # None) =>
        \A i \in DOMAIN loaded.statements :
            LET s == loaded.statements[i]
                closures == {op \in UNION {Range(e) : e \in Range(s[2].expressions)} :
                                op[1] = "closure"}
            IN  (s[1] = "rule" /\ closures = {}) =>
                    \A o \in Range(answers[i]) : o.result # "UnknownVariable"
------------------------------------------------------------------------------
\* Texts

\* Values that are printed and cannot be read: odd sets and sets of arrays,
\* strings that need escapes, and a date that a method is called on, whose dot is
\* taken for its own; and a rule with a variable that was given for a parameter
\* of its head.
Unprintable(s) ==
    \/ s[1] = "rule" /\ ~validate_variables(s[2])
    \/ \E x \in Values(s) : \/ IsOddSet(x)
                            \/ x[1] = "set" /\ \E t \in x[2] : t[1] = "array"
                            \/ x[1] = "str" /\ x[2] \in Quoted
    \/ /\ \E x \in Values(s) : x[1] = "value" /\ x[2][1] = "date"
       /\ \E x \in Values(s) : x[1] \in {"unary", "binary"}
                                 /\ (x[2] = "Ffi" \/ x[2] \in Range(MethodTokens))

\* What is printed is read back as it was.
ReadsBackAsPrinted ==
    (stage = "building" /\ \A s \in Range(InOrder(builder)) : ~Unprintable(s)) =>
        LET read == parse_source(PrintSource(InOrder(builder)))
        IN  read.errors = 0 /\ read.statements = InOrder(builder)

\* A parameter below another value.
Nested(x) == x[1] # "param" /\ \E y \in Within(x) : y[1] = "param"
Hidden(s) ==
    \E x \in Roots(s) :
        \/ x[1] \notin {"value", "closure"} /\ Nested(x)
        \/ x[1] = "value" /\ Nested(x[2])
        \/ x[1] = "closure" /\ \E o \in Within(x) : o[1] \notin {"param", "value", "closure"} /\ Nested(o)

\* Nothing that add, code and the macros let through panics when it is built,
\* but a parameter inside of another value, where rules do not replace it, and a
\* parameter among the scopes of the block.
PanicsOnlyOnNestedParameters ==
    stage = "panicked" =>
        \/ \E s \in Range(InOrder(builder)) : Hidden(s)
        \/ \E sc \in Range(builder.scopes) : sc[1] = "param"
------------------------------------------------------------------------------
\* Steps

\* What was added to a builder stays, in its place, and whatever brings
\* statements, code with scopes of its own or another builder with some, leaves
\* what they trust to the scopes of the first.
BuildersOnlyGrow ==
    [][(stage = "building" /\ stage' = "building") =>
           /\ \A kind \in {"fact", "rule", "check", "policy"} :
                 IsPrefix(OfKind(builder, kind), OfKind(builder', kind))
           /\ IsPrefix(builder.scopes, builder'.scopes)
           /\ builder'.items # builder.items => builder'.scopes = builder.scopes]_vars

\* Whatever a builder is told, and by which method, what becomes of it is what
\* BlockRun says: a builder that failed is gone, the others hold what the types
\* of Rust allow, and nothing but the steps of BlockRun touches a block.
ImplementsRun == RunSpec
================================================================================
