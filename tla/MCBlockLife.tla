----------------------------- MODULE MCBlockLife ------------------------------
(* Texts for TLC. An expression is written from its tree, with parentheses    *)
(* only where the levels of the operators ask for them.                       *)
EXTENDS BlockLifeProperties

IntT(i) == <<"int", i>>
Str(s) == <<"str", s>>
Var(v) == <<"var", v>>
Param(n) == <<"param", n>>
Leaf(t) == <<"leaf", t>>
Op(token, l, r) == <<"apply", <<"binary", (BinaryTokens @@ MethodTokens)[token]>>, l, r>>
Not(t) == <<"apply", <<"unary", "Negate">>, t>>
Get0(method, t) == <<"apply", <<"unary", MethodTokens[method]>>, t>>
Each(method, t, v, body) == Op(method, t, <<"fun", <<v>>, body>>)
Extern1(f, t) == <<"apply", <<"unary", "Ffi", f>>, t>>
Extern2(f, t, u) == <<"apply", <<"binary", "Ffi", f>>, t, u>>

Strengths == [LazyOr |-> 0, LazyAnd |-> 1, LessOrEqual |-> 2, GreaterOrEqual |-> 2,
           LessThan |-> 2, GreaterThan |-> 2, Equal |-> 2, NotEqual |-> 2,
           HeterogeneousEqual |-> 2, HeterogeneousNotEqual |-> 2, BitwiseXor |-> 3,
           BitwiseOr |-> 4, BitwiseAnd |-> 5, Add |-> 6, Sub |-> 6, Mul |-> 7,
           Div |-> 7, Negate |-> 8]
Level(tree) ==
    IF tree[1] = "apply" /\ tree[2][2] \in DOMAIN Strengths THEN Strengths[tree[2][2]] ELSE 9

RECURSIVE TextOf(_, _)
TextOf(tree, least) ==
    LET op == tree[2]
        l == Level(tree)
        chained == IF l = 2 THEN 3 ELSE l
        text == IF tree[1] = "leaf" THEN PrintTerm(op)
                ELSE IF tree[1] = "fun" THEN
                    (IF op = << >> THEN << >> ELSE <<Var(op[1]), Sym("->")>>) \o TextOf(tree[3], 0)
                ELSE IF Len(tree) = 3 THEN PrintUnary(op, TextOf(tree[3], IF l = 8 THEN 8 ELSE 9))
                ELSE IF l = 9 THEN PrintBinary(op, TextOf(tree[3], 9), TextOf(tree[4], 0))
                ELSE PrintBinary(op, TextOf(tree[3], chained),
                                                     TextOf(tree[4], l + 1))
    IN  IF l < least THEN Marks(<<"(">>) \o text \o Marks(<<")">>) ELSE text
------------------------------------------------------------------------------
Two == Leaf(IntT(2))
True == Leaf(Bool(TRUE))
False == Leaf(Bool(FALSE))
Failing == Op("===", Op("/", Two, Leaf(IntT(0))), Two)
Truths == {True, False, Failing}
Set(S) == <<"set", S>>
Array(s) == <<"array", s>>
Map(S) == <<"map", S>>
AMap == Map({<<Str("a"), IntT(2)>>, <<IntT(2), Str("b")>>})
Containers == {Set({}), Set({IntT(2), IntT(0)}), Set({Str("b"), Str("a")}), AMap,
               Array(<<IntT(2), Str("a"), Null>>)}
Terms9 == {IntT(2), Str("a"), Bool(TRUE), Null, <<"date", 1>>, <<"bytes", <<1>>>>,
           Set({IntT(2), IntT(0)}), Array(<<IntT(2)>>), AMap}
Words3 == {Str("ab"), Str("b"), Str("(")}
X == Leaf(Var("x"))

Numbers == {-8, -1, 0, 7}
Sums == {Op("<", Op(op, Leaf(IntT(i)), Leaf(IntT(j))), Two) :
            op \in {"+", "-", "*", "/"}, i \in Numbers, j \in Numbers}
BitSums == {Op(">=", Op(op, Leaf(IntT(i)), Leaf(IntT(j))), Two) :
               op \in {"&", "|", "^"}, i \in {-8, -3, 7}, j \in {-8, 2}}
Mixed == {"+", "-", "*", "&", "|", "^"}
Chains ==
    {Op("===", Op(o, Op(p, Leaf(IntT(3)), Two), Leaf(IntT(1))), Leaf(IntT(1))) : o \in Mixed, p \in Mixed}
    \cup {Op("<=", Leaf(IntT(3)), Op(o, Two, Op(p, Leaf(IntT(3)), Leaf(IntT(1))))) : o \in Mixed, p \in Mixed}
Logic ==
    {Op(o, a, b) : o \in {"&&", "||", "==", "try_or"}, a \in Truths \cup {Two}, b \in Truths}
    \cup {Op("||", Op("&&", a, b), c) : a \in Truths, b \in Truths, c \in {True, Failing}}
    \cup {Op("&&", a, Op("||", b, Not(c))) : a \in {True, False}, b \in Truths, c \in Truths}
    \cup {Op("===", Not(a), b) : a \in Truths, b \in Truths}
Equalities ==
    {Op("==", Leaf(t), Leaf(u)) : t \in Terms9, u \in {IntT(2), Null, Set({IntT(2), IntT(0)})}}
    \cup {Op(o, Leaf(t), Two) : o \in {"!==", "!=", "==="}, t \in Terms9}
    \cup {Op(o, Leaf(t), Leaf(t)) : o \in {"===", "<", ">="}, t \in Terms9}
Strings ==
    {Op(o, Leaf(t), Leaf(u)) :
        o \in {"contains", "starts_with", "ends_with", "matches"}, t \in Words3, u \in Words3}
    \cup {Op("===", Op("+", Leaf(t), Leaf(Str("b"))), Leaf(Str("ab"))) : t \in Terms9}
Methods ==
    {Op("contains", Leaf(t), Leaf(u)) :
        t \in Containers, u \in {IntT(2), Str("a"), Null, Set({IntT(2)}), AMap}}
    \cup {Op("<", Get0("length", Op(o, Leaf(t), Leaf(u))), Two) :
             o \in {"union", "intersection"}, t \in Containers, u \in {Set({IntT(2)}), Set({Str("b")})}}
    \cup {Op(o, Leaf(t), Leaf(u)) :
             o \in {"starts_with", "ends_with"},
             t \in {Array(<<IntT(2), Str("a"), Null>>)}, u \in {Array(<<IntT(2)>>), Array(<<Null>>), IntT(2)}}
    \cup {Op("===", Op("get", Leaf(t), Leaf(u)), Leaf(Str("a"))) :
             t \in Containers, u \in {IntT(-1), IntT(1), Str("a"), Null}}
    \cup {Op("===", Get0("type", Leaf(t)), Leaf(Str("integer"))) : t \in Terms9}
    \cup {Op("<", Get0("length", Leaf(t)), Two) : t \in Terms9}
    \cup {Not(Leaf(t)) : t \in Terms9}
Bodies == {Op("===", X, Two), Op("<", X, Leaf(IntT(1))), Op("===", Op("/", Two, X), Two),
           Op("==", Get0("type", X), Leaf(Str("string"))), X,
           Each("any", Leaf(Set({Str("a"), Str("c")})), "y", Op("==", X, Leaf(Var("y")))),
           Each("any", Leaf(Set({IntT(2)})), "x", True)}
Quantifiers == {Each(q, Leaf(t), "x", body) : q \in {"all", "any"}, t \in Containers, body \in Bodies}
Functions4 ==
    {Op("===", Extern2(f, Leaf(t), Two), Leaf(t)) :
        f \in {"first", "word", "none"}, t \in {IntT(2), Str("a")}}
    \cup {Op("==", Extern1("word", Leaf(t)), Leaf(Str("answer"))) : t \in Terms9}
    \cup {Op("&&", True, Op("===", Extern1("broken", Two), Two))}

Trees == Sums \cup BitSums \cup Chains \cup Logic \cup Equalities \cup Strings \cup Methods
             \cup Quantifiers \cup Functions4

NoParams == [x \in {} |-> Null]
Checks(tree) ==
    [source |-> Marks(<<"check if">>) \o TextOf(tree, 0) \o Marks(<<";">>), tree |-> tree,
     params |-> NoParams, keys |-> NoParams]
------------------------------------------------------------------------------
P(n, terms) == <<"predicate", n, terms>>
Value(t) == <<"value", t>>
Binary(o) == <<"binary", o>>
Rule4(head, body, expressions, trusted) ==
    [head |-> head, body |-> body, expressions |-> expressions, scopes |-> trusted]
Query4(body, expressions, trusted) == Rule4(<< >>, body, expressions, trusted)
Is(t, u) == <<Value(t), Value(u), Binary("Equal")>>

\* Sources with several statements, parameters, scopes and errors.
Given(statements, params, keys) ==
    [source |-> PrintSource(statements), tree |-> None, params |-> params, keys |-> keys]
Plain0(statements) == Given(statements, NoParams, NoParams)
Raw(tokens) == [source |-> tokens, tree |-> None, params |-> NoParams, keys |-> NoParams]

Grand == <<"rule", Rule4(P("r", <<Var("x"), Var("z")>>),
                         <<P("p", <<Var("x"), Var("y")>>), P("p", <<Var("y"), Var("z")>>)>>,
                         << >>, << >>)>>
Divided == <<"rule", Rule4(P("r", <<Var("x")>>), <<P("p", <<Var("x"), Var("y")>>)>>,
                 <<<<Value(IntT(2)), Value(Var("x")), Binary("Div"), Value(IntT(1)), Binary("GreaterOrEqual")>>>>,
                 <<Sym("previous")>>)>>
Same == <<"check", "check if", <<Query4(<<P("p", <<Var("x"), Var("x")>>)>>, << >>, << >>),
                                 Query4(<<P("q", <<Var("x")>>)>>, <<Is(Var("x"), Str("b"))>>,
                                        <<Sym("authority"), <<"key", "k1">>>>)>>>>
All == <<"check", "check all", <<Query4(<<P("p", <<Var("x"), Var("y")>>)>>,
             <<<<Value(IntT(2)), Value(Var("x")), Binary("Div"), Value(Var("y")), Binary("GreaterOrEqual")>>>>,
             << >>)>>>>
Reject == <<"check", "reject if", <<Query4(<<P("q", <<Str("c")>>)>>, << >>, << >>)>>>>
Unbound == <<"check", "check if", <<Query4(<<P("q", <<Var("x")>>)>>, <<Is(Var("w"), IntT(1))>>, << >>)>>>>
BadRule == <<"rule", Rule4(P("r", <<Var("x")>>), <<P("q", <<Var("x")>>)>>, <<Is(Var("w"), IntT(1))>>, << >>)>>
Closed == <<"rule", Rule4(P("r", <<Var("x")>>), <<P("q", <<Var("x")>>)>>,
    <<<<Value(Set({Str("a"), Str("b")})),
        <<"closure", <<"y">>, <<Value(Var("y")), Value(Var("x")), Binary("Equal")>>>>, Binary("Any")>>>>, << >>)>>
BadClosure == <<"rule", Rule4(P("r", <<Var("x")>>), <<P("q", <<Var("x")>>)>>,
    <<<<Value(Set({Str("a")})),
        <<"closure", <<"y">>, <<Value(Var("y")), Value(Var("w")), Binary("Equal")>>>>, Binary("Any")>>>>, << >>)>>
Allow == <<"policy", "allow if", <<Query4(<<P("q", <<Var("x")>>)>>, << >>, << >>),
                                   Query4(<< >>, <<<<Value(Bool(TRUE))>>>>, << >>)>>>>
Deny == <<"policy", "deny if", <<Query4(<<P("p", <<IntT(0), Var("x")>>)>>, << >>, <<<<"key", "k2">>>>)>>>>
ManyFacts == <<<<"fact", P("p", <<IntT(2), IntT(0)>>)>>, <<"fact", P("q", <<Str("c"), IntT(1)>>)>>,
               <<"fact", P("q", <<Set({Null})>>)>>>>
NullFact == <<<<"fact", P("q", <<Array(<<Null>>), Map({<<Str("a"), Null>>})>>)>>>>
Templated == <<<<"fact", P("q", <<Array(<<Param("n")>>),
                                  Map({<<Param("m"), Param("n")>>, <<Str("b"), IntT(1)>>})>>)>>,
               <<"rule", Rule4(P("r", <<Param("n")>>), <<P("q", <<Param("m")>>)>>,
                               <<Is(Param("m"), Str("b"))>>, <<Param("k")>>)>>>>
MixedSet == <<<<"fact", P("q", <<Set({Param("n"), Param("m")})>>)>>>>
NestedParam == <<<<"check", "check if", <<Query4(<< >>,
    <<<<Value(Array(<<Param("n")>>)), Value(IntT(2)), Binary("Contains")>>>>, << >>)>>>>>>
HeadParam == <<<<"rule", Rule4(P("r", <<Param("n")>>), <<P("q", <<Var("x")>>)>>, << >>, << >>)>>>>
NestedTerm == <<<<"rule", Rule4(P("r", <<Array(<<Param("n")>>)>>), <<P("q", <<Var("x")>>)>>, << >>, << >>)>>>>

NM == ("n" :> IntT(2)) @@ ("m" :> Str("b"))
N == "n" :> IntT(2)
M == "m" :> Str("b")
K == "k" :> <<"key", "k1">>

MCInputs ==
    {Checks(tree) : tree \in Trees}
    \cup {Plain0(statements) : statements \in
             {<<Grand>>, <<Divided>>, <<Same>>, <<All>>, <<Reject>>, <<Unbound>>, <<BadRule>>,
              <<Closed>>, <<BadClosure>>, <<Allow>>, <<Deny>>, ManyFacts, NullFact,
              <<Closed, Same>>, << >>}}
    \cup {Given(Templated, NM, K), Given(Templated, NM, NoParams), Given(Templated, N, K),
          Given(MixedSet, NM, NoParams), Given(NestedParam, N, NoParams),
          Given(NestedTerm, N, NoParams), Given(MixedSet, N @@ ("m" :> IntT(2)), NoParams),
          Given(MixedSet, ("n" :> Set({IntT(2)})) @@ ("m" :> Set({})), NoParams),
          Given(MixedSet, ("n" :> Var("x")) @@ ("m" :> Var("y")), NoParams),
          Given(MixedSet, ("n" :> Array(<<Null>>)) @@ ("m" :> Array(<<Set({AMap})>>)), NoParams),
          Given(HeadParam, "n" :> Var("w"), NoParams)}
    \cup {Raw(Marks(<<"trusting", "previous", ";">>) \o PrintSource(<<Grand>>)),
          Raw(Marks(<<"//">>) \o PrintSource(ManyFacts)),
          Raw(Tail(PrintSource(<<Grand>>)) \o PrintSource(<<Allow>>)),
          Raw(Marks(<<"check if">>) \o <<IntT(1)>> \o Marks(<<"<">>) \o <<IntT(2)>> \o Marks(<<"<">>)
              \o <<IntT(3)>> \o Marks(<<";">>))}

\* What the run that ends in a violation needs.
NullInputs == {Plain0(NullFact)}

MCLaterInputs == {Plain0(<<<<"fact", P("q", <<Str("c")>>)>>>>),
                  Given(NestedParam, N, NoParams), Plain0(<<BadRule>>)}
MCSingles == {<<"fact", PrintStatement(ManyFacts[1])>>, <<"rule", PrintStatement(Closed)>>,
              <<"check", PrintStatement(Same)>>, <<"policy", PrintStatement(Allow)>>,
              <<"check", PrintStatement(Templated[2])>>}
MCExtensions ==
    {<<method, Str("a")>> : method \in {"resource", "operation", "check_resource", "check_operation",
                                        "check_resource_prefix", "check_resource_suffix"}}
    \cup {<<"check_expiration_date", <<"date", 1>>>>, <<"time", <<"date", 1>>>>}
MCBlockScopes == {Sym("previous"), <<"key", "k2">>, Param("k")}
MCRegistered == {<<"first", "first">>, <<"first", "last">>, <<"word", "word">>,
                 <<"broken", "fails">>}
MCLoadedKeys == <<"k3">>
MCTokenTables == {<<<<"ab", "p">>, <<"k2">>>>}
MCTokenFacts == <<<<Authority, P("p", <<IntT(1), IntT(2)>>)>>, <<Authority, P("p", <<IntT(2), IntT(2)>>)>>,
                  <<Authority, P("p", <<IntT(0), IntT(1)>>)>>, <<Authority, P("q", <<Str("b")>>)>>>>
==============================================================================
