----------------------------- MODULE Expressions -----------------------------
(* The evaluation of expressions: Unary, Binary and Expression of             *)
(* biscuit-auth/src/datalog/expression.rs. An expression is a sequence of     *)
(* operations in postfix order, run on a stack that holds terms and closures. *)
(*                                                                            *)
(* Strings are in the symbol table, as everywhere in a block: a term holds an *)
(* index, and an operation that makes a string adds it to the table. Every    *)
(* operation answers a record with an error ("" for none), the term and the   *)
(* table as it leaves it, for the table keeps what a failing operation added. *)
(* An environment has the values of the variables and the extern functions    *)
(* that are registered, a function from names to what they do.                *)
EXTENDS Terms

CONSTANTS MaxInt,               \* the largest i64: one less than a power of 2
          InvalidPatterns       \* the strings that are not regular expressions

ASSUME MaxIntAssumption == MaxInt \in Nat

MinInt == -MaxInt - 1
Size == MaxInt - MinInt + 1

Done(term, symbols) == [error |-> "", term |-> term, symbols |-> symbols]
Fail(error, symbols) == [error |-> error, term |-> Null, symbols |-> symbols]

Known(symbols, i) == i \in DOMAIN symbols

\* A new string: the table with it, and its index there.
DoneWord(word, symbols) ==
    LET In(all) == Done(<<"str", IndexIn(all)[word]>>, all)
    IN  In(Insert(symbols, <<word>>))

\* ExternFunc::call: the arguments leave the table and the answer enters it.
\* What a function does is not in this repository: those registered answer
\* their first argument, their last, a string of their own, or fail.
ExternCall(symbols, behaviour, arguments) ==
    LET unknown == {i \in DOMAIN arguments : ~Readable(arguments[i], symbols)}
    IN  IF unknown # {} THEN Fail("UnknownSymbol", symbols)
        ELSE IF behaviour = "first" THEN Done(Head(arguments), symbols)
        ELSE IF behaviour = "last" THEN Done(Last(arguments), symbols)
        ELSE IF behaviour = "word" THEN DoneWord("answer", symbols)
        ELSE Fail("ExternEvalError", symbols)

\* The Ffi operations: the name is read in the table, then among the functions
\* registered with the authorizer.
Ffi(symbols, i, externs, arguments) ==
    IF ~Known(symbols, i) THEN Fail("UnknownSymbol", symbols)
    ELSE IF symbols[i] \notin DOMAIN externs THEN Fail("UndefinedExtern", symbols)
    ELSE ExternCall(symbols, externs[symbols[i]], arguments)

TypeNames == [var |-> "", int |-> "integer", str |-> "string", date |-> "date",
              bytes |-> "bytes", bool |-> "bool", set |-> "set",
              null |-> "null", array |-> "array", map |-> "map"]

Length(term) ==
    IF term[1] \in {"set", "map"} THEN Cardinality(term[2]) ELSE Len(term[2])

\* Unary::evaluate
UnaryEvaluate(op, term, externs, symbols) ==
    CASE op[2] = "Negate" /\ term[1] = "bool" -> Done(Bool(~term[2]), symbols)
      [] op[2] = "Parens" -> Done(term, symbols)
      [] op[2] = "Length" /\ term[1] = "str" ->
            IF Known(symbols, term[2])
            THEN Done(<<"int", Len(symbols[term[2]])>>, symbols)
            ELSE Fail("UnknownSymbol", symbols)
      [] op[2] = "Length" /\ term[1] \in {"bytes", "set", "array", "map"} ->
            Done(<<"int", Length(term)>>, symbols)
      [] op[2] = "TypeOf" /\ term[1] # "var" ->
            DoneWord(TypeNames[term[1]], symbols)
      [] op[2] = "Ffi" -> Ffi(symbols, op[3], externs, <<term>>)
      [] OTHER -> Fail("InvalidType", symbols)
------------------------------------------------------------------------------
\* Operations on two terms

\* i64 division truncates, where \div rounds down.
Quotient(i, j) ==
    LET Abs(n) == IF n < 0 THEN -n ELSE n
        q == Abs(i) \div Abs(j)
    IN  IF (i < 0) # (j < 0) THEN -q ELSE q

\* Mutant of Arithmetic: addition wraps.
WrappingArithmetic(op, i, j, symbols) ==
    LET Wrap(n) == ((n - MinInt) % Size) + MinInt
    IN  IF op = "Add" THEN Done(<<"int", Wrap(i + j)>>, symbols)
        ELSE IF op = "Sub" THEN Done(<<"int", Wrap(i - j)>>, symbols)
        ELSE IF op = "Mul" THEN Done(<<"int", Wrap(i * j)>>, symbols)
        ELSE IF j = 0 THEN Fail("DivideByZero", symbols)
        ELSE Done(<<"int", Wrap(Quotient(i, j))>>, symbols)

\* checked_add, checked_sub, checked_mul, checked_div
Arithmetic(op, i, j, symbols) ==
    LET exact == CASE op = "Add" -> i + j
                   [] op = "Sub" -> i - j
                   [] op = "Mul" -> i * j
                   [] OTHER      -> IF j = 0 THEN MaxInt + 1 ELSE Quotient(i, j)
    IN  IF exact \in MinInt..MaxInt THEN Done(<<"int", exact>>, symbols)
        ELSE IF op = "Div" THEN Fail("DivideByZero", symbols)
        ELSE Fail("Overflow", symbols)

\* The bits of a number in two's complement, and the number that has them.
Bits(i) ==
    {k \in 0..15 : 2^k < Size /\ ((i + Size) \div 2^k) % 2 = 1}
FromBits(bits) ==
    LET n == FoldSet(LAMBDA k, sum : sum + 2^k, 0, bits)
    IN  IF n > MaxInt THEN n - Size ELSE n

Bitwise(op, i, j) ==
    CASE op = "BitwiseAnd" -> FromBits(Bits(i) \cap Bits(j))
      [] op = "BitwiseOr"  -> FromBits(Bits(i) \cup Bits(j))
      [] OTHER             -> FromBits(SymDiff(Bits(i), Bits(j)))

Compare(op, i, j) ==
    CASE op = "LessThan"    -> i < j
      [] op = "GreaterThan" -> i > j
      [] op = "LessOrEqual" -> i <= j
      [] OTHER              -> i >= j

\* One sequence, or string, starts with, ends with or contains another.
StartsWith(s, t) == Len(t) <= Len(s) /\ SubSeq(s, 1, Len(t)) = t
EndsWith(s, t) ==
    Len(t) <= Len(s) /\ SubSeq(s, Len(s) - Len(t) + 1, Len(s)) = t
Includes(s, t) == \E k \in 0..Len(s) : StartsWith(SubSeq(s, k + 1, Len(s)), t)

Part(op, s, t) ==
    CASE op = "Prefix" -> StartsWith(s, t)
      [] op = "Suffix" -> EndsWith(s, t)
      [] OTHER         -> Includes(s, t)

\* Patterns are plain strings, or not regular expressions at all.
RegexMatches(s, pattern) == pattern \notin InvalidPatterns /\ Includes(s, pattern)

\* The operations on two strings read both in the table first.
StringOperation(op, s, t, symbols) ==
    IF ~Known(symbols, s) \/ ~Known(symbols, t)
    THEN Fail("UnknownSymbol", symbols)
    ELSE CASE op = "Add"   -> DoneWord(symbols[s] \o symbols[t], symbols)
           [] op = "Regex" -> Done(Bool(RegexMatches(symbols[s], symbols[t])), symbols)
           [] OTHER        -> Done(Bool(Part(op, symbols[s], symbols[t])), symbols)

\* The four equalities. Those that are not strict accept two kinds.
Equality(op, left, right, symbols) ==
    LET same == left[1] = right[1]
        equal == same /\ left = right
    IN  IF ~same /\ op \in {"Equal", "NotEqual"} THEN Fail("InvalidType", symbols)
        ELSE IF op \in {"Equal", "HeterogeneousEqual"} THEN Done(Bool(equal), symbols)
        ELSE Done(Bool(~equal), symbols)

\* Contains on a set, an array and a map.
ContainsTerm(container, term) ==
    CASE container[1] = "set"   -> term \in container[2]
      [] container[1] = "array" -> term \in Range(container[2])
      [] OTHER -> \E entry \in container[2] : entry[1] = term

\* Get: Null for an index or a key that is not there.
GetTerm(container, key) ==
    IF container[1] = "array" THEN
            IF key[2] \in 0..(Len(container[2]) - 1)
            THEN container[2][key[2] + 1] ELSE Null
    ELSE IF \E entry \in container[2] : entry[1] = key THEN
            (CHOOSE entry \in container[2] : entry[1] = key)[2]
    ELSE Null

\* Binary::evaluate
BinaryEvaluate(op, left, right, externs, symbols) ==
    LET name == op[2]
        l == left[1]
        r == right[1]
        Both(kinds) == l \in kinds /\ r = l
    IN  CASE name \in {"Equal", "NotEqual", "HeterogeneousEqual",
                       "HeterogeneousNotEqual"} ->
                Equality(name, left, right, symbols)
          [] name = "Ffi" -> Ffi(symbols, op[3], externs, <<left, right>>)
          [] name \in {"Add", "Sub", "Mul", "Div"} /\ Both({"int"}) ->
                Arithmetic(name, left[2], right[2], symbols)
          [] name \in {"BitwiseAnd", "BitwiseOr", "BitwiseXor"} /\ Both({"int"}) ->
                Done(<<"int", Bitwise(name, left[2], right[2])>>, symbols)
          [] name \in {"LessThan", "GreaterThan", "LessOrEqual", "GreaterOrEqual"}
             /\ Both({"int", "date"}) ->
                Done(Bool(Compare(name, left[2], right[2])), symbols)
          [] name \in {"Prefix", "Suffix", "Regex", "Contains", "Add"}
             /\ Both({"str"}) ->
                StringOperation(name, left[2], right[2], symbols)
          [] name \in {"Prefix", "Suffix"} /\ Both({"array"}) ->
                Done(Bool(Part(name, left[2], right[2])), symbols)
          [] name = "Contains" /\ Both({"set"}) ->
                Done(Bool(right[2] \subseteq left[2]), symbols)
          [] name = "Contains"
             /\ \/ l \in {"array", "map"}
                \/ l = "set" /\ r \in {"int", "date", "bool", "str", "bytes"} ->
                Done(Bool(ContainsTerm(left, right)), symbols)
          [] name = "Intersection" /\ Both({"set"}) ->
                Done(<<"set", left[2] \cap right[2]>>, symbols)
          [] name = "Union" /\ Both({"set"}) ->
                Done(<<"set", left[2] \cup right[2]>>, symbols)
          [] name = "And" /\ Both({"bool"}) ->
                Done(Bool(left[2] /\ right[2]), symbols)
          [] name = "Or" /\ Both({"bool"}) ->
                Done(Bool(left[2] \/ right[2]), symbols)
          [] name = "Get" /\ \/ l = "array" /\ r = "int"
                             \/ l = "map" /\ r \in {"int", "str"} ->
                Done(GetTerm(left, right), symbols)
          [] OTHER -> Fail("InvalidType", symbols)
------------------------------------------------------------------------------
\* Closures and the stack

Kinds == <<"var", "int", "str", "date", "bytes", "bool", "set", "null",
           "array", "map">>
Rank(term) == CHOOSE k \in DOMAIN Kinds : Kinds[k] = term[1]

\* The order of a BTreeSet, for the elements a set may have. Strings are in
\* the order of their indices, whatever they say.
Before(t, u) ==
    \/ Rank(t) < Rank(u)
    \/ /\ t[1] = u[1]
       /\ CASE t[1] \in {"int", "str", "date"} -> t[2] < u[2]
            [] t[1] = "bool"                   -> ~t[2] /\ u[2]
            [] t[1] = "bytes" ->
                  \E k \in 1..Len(u[2]) :
                      /\ \A j \in 1..(k - 1) : j <= Len(t[2]) /\ t[2][j] = u[2][j]
                      /\ k <= Len(t[2]) => t[2][k] < u[2][k]
            [] OTHER -> FALSE

\* What All and Any call their closure with, in order: a pair for a map.
Items(term) ==
    LET entries == SetToSortSeq(term[2], LAMBDA e, f : Before(e[1], f[1]))
    IN  CASE term[1] = "array" -> term[2]
          [] term[1] = "set"   -> SetToSortSeq(term[2], Before)
          [] OTHER -> [i \in DOMAIN entries |-> <<"array", entries[i]>>]

\* Mutant of Shadows: a closure may rename a variable that is bound.
NeverShadows(params, values) == FALSE

\* A parameter of a closure has the name of a variable with a value.
Shadows(params, values) == Range(params) \cap DOMAIN values # {}

\* Mutant of ClosureEnds: the first true element decides All as well.
FirstTrueEnds(name, term) == term = Bool(TRUE)

\* All stops at the first false element, Any at the first true one.
ClosureEnds(name, term) == term = Bool(name = "Any")

RECURSIVE Evaluate(_, _, _), ForItems(_, _, _, _, _, _)

\* The loop of All and Any over the items that are left.
ForItems(name, items, param, ops, env, symbols) ==
    IF items = << >> THEN Done(Bool(name = "All"), symbols)
    ELSE LET After(one) ==
                 IF one.error # "" THEN one
                 ELSE IF one.term[1] # "bool" THEN Fail("InvalidType", one.symbols)
                 ELSE IF ClosureEnds(name, one.term) THEN Done(Bool(name = "Any"), one.symbols)
                 ELSE ForItems(name, Tail(items), param, ops, env, one.symbols)
         IN  After(Evaluate(ops, [env EXCEPT !.values = (param :> Head(items)) @@ @], symbols))

\* Binary::evaluate_with_closure. Only All and Any give the closure a value.
EvaluateWithClosure(name, left, params, ops, env, symbols) ==
    LET Try(body) == IF body.error = "" THEN body ELSE Done(left, body.symbols)
    IN  IF name = "TryOr" /\ params = << >> THEN Try(Evaluate(ops, env, symbols))
        ELSE IF name \in {"LazyOr", "LazyAnd"} /\ params = << >> /\ left[1] = "bool" THEN
                IF left[2] = (name = "LazyOr") THEN Done(left, symbols)
                ELSE Evaluate(ops, env, symbols)
        ELSE IF name \in {"All", "Any"} /\ Len(params) = 1
             /\ left[1] \in {"set", "array", "map"} THEN
                ForItems(name, Items(left), params[1], ops, env, symbols)
        ELSE Fail("InvalidType", symbols)

\* An operator applied to what it pops: the closure may be on either side.
ApplyBinary(op, left, right, env, symbols) ==
    LET WithClosure(term, closure) ==
            IF Shadows(closure[2], env.values)
            THEN Fail("ShadowedVariable", symbols)
            ELSE EvaluateWithClosure(op[2], term, closure[2], closure[3],
                                     env, symbols)
    IN  IF left[1] # "closure" /\ right[1] # "closure" THEN
                BinaryEvaluate(op, left, right, env.externs, symbols)
        ELSE IF left[1] # "closure" THEN WithClosure(left, right)
        ELSE IF right[1] # "closure" THEN WithClosure(right, left)
        ELSE Fail("InvalidStack", symbols)

\* One operation: how much of the stack it pops, and what it pushes.
Operate(op, stack, env, symbols) ==
    LET top == Len(stack)
    IN  CASE op[1] = "value" ->
                IF op[2][1] # "var" THEN Done(op[2], symbols)
                ELSE IF op[2][2] \in DOMAIN env.values THEN Done(env.values[op[2][2]], symbols)
                ELSE Fail("UnknownVariable", symbols)
          [] op[1] = "closure" -> Done(op, symbols)
          [] op[1] = "unary" ->
                IF top < 1 \/ stack[top][1] = "closure"
                THEN Fail("InvalidStack", symbols)
                ELSE UnaryEvaluate(op, stack[top], env.externs, symbols)
          [] OTHER ->
                IF top < 2 THEN Fail("InvalidStack", symbols)
                ELSE ApplyBinary(op, stack[top - 1], stack[top], env, symbols)

Popped(op) == CASE op[1] = "binary" -> 2 [] op[1] = "unary" -> 1 [] OTHER -> 0

\* Expression::evaluate
Evaluate(ops, env, symbols) ==
    LET Push(stack, result) ==
            [error |-> result.error, symbols |-> result.symbols,
             stack |-> Append(stack, result.term)]
        Step(state, op) ==
            IF state.error # "" THEN state
            ELSE Push(SubSeq(state.stack, 1, Len(state.stack) - Popped(op)),
                      Operate(op, state.stack, env, state.symbols))
        End(state) ==
            IF state.error # "" THEN Fail(state.error, state.symbols)
            ELSE IF Len(state.stack) # 1 \/ Head(state.stack)[1] = "closure" THEN
                    Fail("InvalidStack", state.symbols)
            ELSE Done(Head(state.stack), state.symbols)
    IN  End(FoldLeft(Step, [error |-> "", stack |-> << >>, symbols |-> symbols], ops))

\* The expressions of a rule on one solution, in order, until one is not true:
\* "true", "false" or an error. The strings they make live for this solution.
TestExpressions(rule, values, externs, symbols) ==
    LET After(one) ==
            [symbols |-> one.symbols,
             result |-> IF one.error # "" THEN one.error
                        ELSE IF one.term = Bool(TRUE) THEN "true"
                        ELSE IF one.term = Bool(FALSE) THEN "false"
                        ELSE "InvalidType"]
        Step(state, ops) ==
            IF state.result # "true" THEN state
            ELSE After(Evaluate(ops, [values |-> values, externs |-> externs], state.symbols))
    IN  FoldLeft(Step, [result |-> "true", symbols |-> symbols], rule.expressions).result

==============================================================================
