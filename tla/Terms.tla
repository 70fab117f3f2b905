-------------------------------- MODULE Terms --------------------------------
(* The values of Datalog and the operations of expressions (Term, MapKey and  *)
(* Op of biscuit-auth/src/datalog, Term, MapKey and Op of token/builder), and *)
(* the passage between names and the indices of a symbol table.               *)
(*                                                                            *)
(* A term, and an operation of a postfix expression, is a tuple whose first   *)
(* element is its kind:                                                       *)
(*    <<"var", w>>  <<"int", i>>  <<"str", w>>  <<"date", d>>  <<"bytes", b>> *)
(*    <<"bool", b>>  <<"null">>  <<"set", S>>  <<"array", seq>>               *)
(*    <<"map", S>>, S a set of pairs <<key, term>>, a key being an int, a str *)
(*    or a param, and <<"param", n>> before parameters are applied;           *)
(*    <<"value", t>>  <<"unary", name>>  <<"binary", name>>                   *)
(*    <<"unary", "Ffi", w>>  <<"binary", "Ffi", w>>  <<"closure", ws, ops>>   *)
(* where w is a name in a builder and an index in a block. The same operators *)
(* work on both.                                                              *)
EXTENDS Integers, SymbolTables, Functions, FiniteSets

CONSTANT MaxNesting     \* a bound: how deep values and closures are nested

ASSUME NestingAssumption == MaxNesting \in Nat

Null == <<"null">>
Bool(b) == <<"bool", b>>

\* The elements of a set or a map, in one fixed order: they add their names to
\* a table one after the other.
Listed(S) == SetToSeq(S)

\* The terms and the operations right below one.
Parts(x) ==
    CASE x[1] = "set"     -> Listed(x[2])
      [] x[1] = "array"   -> x[2]
      [] x[1] = "map"     -> FlattenSeq(Listed(x[2]))
      [] x[1] = "value"   -> <<x[2]>>
      [] x[1] = "closure" -> x[3]
      [] OTHER            -> << >>

\* Everything that is in x, itself included, when PartsOf is what is right below.
Reach(x, PartsOf(_)) ==
    LET near[n \in 0..MaxNesting] ==
            IF n = 0 THEN {x}
            ELSE LET nearer == near[n - 1]
                 IN  nearer \cup UNION {Range(PartsOf(y)) : y \in nearer}
    IN  near[MaxNesting]
Within(x) == Reach(x, Parts)

\* The names that converting a term or an operation inserts, in that order.
OwnWords(x) ==
    CASE x[1] \in {"var", "str"} -> <<x[2]>>
      [] x[1] = "closure" -> x[2]
      [] x[1] \in {"unary", "binary"} /\ x[2] = "Ffi" -> <<x[3]>>
      [] OTHER -> << >>
Words(x) ==
    LET words[y \in Within(x)] ==
            OwnWords(y) \o FlattenSeq([i \in DOMAIN Parts(y) |-> words[Parts(y)[i]]])
    IN  words[x]

\* Term::convert, Op::convert and the converse: every name w becomes f[w].
Translate(x, f) ==
    LET to[y \in Within(x)] ==
            LET All(s) == [i \in DOMAIN s |-> to[s[i]]]
            IN  CASE y[1] \in {"var", "str"} -> <<y[1], f[y[2]]>>
                  [] y[1] = "set"     -> <<"set", {to[t] : t \in y[2]}>>
                  [] y[1] = "array"   -> <<"array", All(y[2])>>
                  [] y[1] = "map"     -> <<"map", {<<to[e[1]], to[e[2]]>> : e \in y[2]}>>
                  [] y[1] = "value"   -> <<"value", to[y[2]]>>
                  [] y[1] = "closure" ->
                        <<"closure", [i \in DOMAIN y[2] |-> f[y[2][i]]], All(y[3])>>
                  [] y[1] \in {"unary", "binary"} /\ y[2] = "Ffi" -> <<y[1], y[2], f[y[3]]>>
                  [] OTHER            -> y
    IN  to[x]

\* A parameter is left somewhere in a term or an operation: converting it
\* panics.
HasParameter(x) == \E y \in Within(x) : y[1] = "param"

\* A sequence of names without the repetitions.
Once(names) == New(<< >>, names)

\* SymbolTable::insert of every name, TemporarySymbolTable::insert.
Insert(table, names) == table \o New(table, names)

\* The index of every name of a table.
IndexIn(table) ==
    [w \in Range(table) |-> CHOOSE p \in DOMAIN table : table[p] = w]

\* Convert::convert for one term or operation.
Convert(x, table) == Translate(x, IndexIn(Insert(table, Words(x))))

\* Convert::convert_from succeeds, and what it returns.
Readable(x, table) == Range(Words(x)) \subseteq DOMAIN table
ConvertFrom(x, table) == Translate(x, table)
------------------------------------------------------------------------------
\* All the terms and the operations with names or indices in W

UnaryNames == {"Negate", "Parens", "Length", "TypeOf"}
BinaryNames ==
    {"LessThan", "GreaterThan", "LessOrEqual", "GreaterOrEqual", "Equal", "NotEqual",
     "HeterogeneousEqual", "HeterogeneousNotEqual", "Contains", "Prefix", "Suffix", "Regex",
     "Add", "Sub", "Mul", "Div", "And", "Or", "LazyAnd", "LazyOr", "All", "Any", "Get", "TryOr",
     "Intersection", "Union", "BitwiseAnd", "BitwiseOr", "BitwiseXor"}
Operators(W) ==
    ({"unary"} \X UnaryNames) \cup ({"binary"} \X BinaryNames)
        \cup ({"unary", "binary"} \X {"Ffi"} \X W)

MapKeys(W) == ({"str"} \X W) \cup ({"int"} \X Int) \cup ({"param"} \X STRING)
Leaves(W) ==
    ({"var"} \X W) \cup MapKeys(W) \cup ({"date"} \X Int) \cup ({"bytes"} \X Seq(Int))
        \cup ({"bool"} \X BOOLEAN) \cup {Null}

FiniteSubsets(S) == {T \in SUBSET S : IsFiniteSet(T)}
FiniteMaps(K, S) == {M \in FiniteSubsets(K \X S) : \A d, e \in M : d[1] = e[1] => d = e}

\* What is made of given terms and operations, at once, and in n times at most.
Above(W, below) ==
    [terms |-> Leaves(W) \cup ({"set"} \X FiniteSubsets(below.terms))
                   \cup ({"array"} \X Seq(below.terms))
                   \cup ({"map"} \X FiniteMaps(MapKeys(W), below.terms)),
     ops |-> Operators(W) \cup ({"value"} \X below.terms)
                 \cup ({"closure"} \X Seq(W) \X Seq(below.ops))]
Levels(W) ==
    LET level[n \in 0..MaxNesting] ==
            IF n = 0 THEN [terms |-> {}, ops |-> {}] ELSE Above(W, level[n - 1])
    IN  level
TermsOver(W) == Levels(W)[MaxNesting].terms
OpsOver(W) == Levels(W)[MaxNesting].ops
==============================================================================
