----------------------------- MODULE BlockProofs -----------------------------
(* Theorems about BlockPath and BlockRun for every builder, token and         *)
(* authorizer: what is kept of the statements on the way of a block and in a  *)
(* saved authorizer, and what the search of bindings answers.                 *)
EXTENDS TermFacts

-----------------------------------------------------------------------------
(* Tables: every name that is inserted has an index, by which it is read.      *)

LEMMA InsertFacts ==
    ASSUME NEW S, NEW table \in Seq(S), NEW names \in Seq(S)
    PROVE  /\ New(table, names) \in Seq(S)
           /\ Insert(table, names) \in Seq(S)
           /\ Range(Insert(table, names)) = Range(table) \cup Range(names)
<1>1. New(table, names) = AllAdded(table, names)
  BY DEF New, Added, AllAdded
<1>2. New(table, names) \in Seq(S) /\ Range(New(table, names)) = Range(names) \ Range(table)
  BY <1>1, AddedFacts
<1> QED BY <1>2, RangeOfConcat, ConcatProperties DEF Insert

LEMMA IndexFacts ==
    ASSUME NEW S, NEW table \in Seq(S)
    PROVE  /\ \A w \in Range(table) : /\ IndexIn(table)[w] \in DOMAIN table
                                      /\ table[IndexIn(table)[w]] = w
           /\ DOMAIN table \subseteq Nat
<1>1. ASSUME NEW w \in Range(table)
      PROVE  IndexIn(table)[w] \in DOMAIN table /\ table[IndexIn(table)[w]] = w
  <2>1. IndexIn(table)[w] = CHOOSE p \in DOMAIN table : table[p] = w
    BY DEF IndexIn
  <2>2. \E p \in DOMAIN table : table[p] = w
    BY DEF Range
  <2> QED BY <2>1, <2>2
<1>2. DOMAIN table \subseteq Nat
  BY LenProperties
<1> QED BY <1>1, <1>2

\* Sequences that are joined.
LEMMA FlattenFacts ==
    ASSUME NEW S, NEW n \in Nat, NEW s \in [1..n -> Seq(S)]
    PROVE  /\ FlattenSeq(s) \in Seq(S)
           /\ \A w : w \in Range(FlattenSeq(s)) <=> \E i \in 1..n : w \in Range(s[i])
<1>1. s \in Seq(Seq(S)) /\ Len(s) = n
  BY SeqDef, LenProperties
<1>2. FlattenSeq(s) \in Seq(S)
  BY <1>1, FlattenType
<1>3. Range(FlattenSeq(s)) = UNION {Range(s[i]) : i \in 1..n}
  BY <1>1, FlattenRange
<1> QED BY <1>2, <1>3

LEMMA JoinFacts ==
    ASSUME NEW S, NEW s \in Seq(S), NEW t \in Seq(S)
    PROVE  s \o t \in Seq(S) /\ Range(s \o t) = Range(s) \cup Range(t)
BY RangeOfConcat, ConcatProperties

\* A sequence that is made element by element.
LEMMA MappedFacts ==
    ASSUME NEW S, NEW t \in Seq(S)
    PROVE  /\ Len(t) \in Nat /\ DOMAIN t = 1..Len(t)
           /\ \A i \in DOMAIN t : t[i] \in S /\ t[i] \in Range(t)
           /\ \A x \in Range(t) : x \in S /\ \E i \in DOMAIN t : t[i] = x
           /\ \A R, u : u \in [1..Len(t) -> R] =>
                 /\ u \in Seq(R) /\ DOMAIN u = DOMAIN t /\ Len(u) = Len(t)
                 /\ \A x \in Range(u) : \E i \in DOMAIN t : u[i] = x
<1>1. /\ Len(t) \in Nat /\ DOMAIN t = 1..Len(t)
      /\ \A i \in DOMAIN t : t[i] \in S
  BY LenProperties
<1>2. /\ \A i \in DOMAIN t : t[i] \in Range(t)
      /\ \A x \in Range(t) : \E i \in DOMAIN t : t[i] = x
  BY DEF Range
<1>3. ASSUME NEW R, NEW u, u \in [1..Len(t) -> R]
      PROVE  /\ u \in Seq(R) /\ DOMAIN u = DOMAIN t /\ Len(u) = Len(t)
             /\ \A x \in Range(u) : \E i \in DOMAIN t : u[i] = x
  <2>1. u \in Seq(R)
    BY <1>1, <1>3, SeqDef
  <2>2. DOMAIN u = DOMAIN t /\ Len(u) = Len(t)
    BY <1>1, <1>3, <2>1, LenProperties
  <2> QED BY <2>1, <2>2 DEF Range
<1> QED BY <1>1, <1>2, <1>3

-----------------------------------------------------------------------------
(* What statements are made of, and the names and the keys in them.            *)

LEMMA PredicateShape ==
    ASSUME NEW W, NEW p \in PredicatesOver(W)
    PROVE  /\ p = <<"predicate", p[2], p[3]>> /\ p[2] \in W /\ p[3] \in Seq(TermsOver(W))
           /\ p # << >>
           /\ \A t \in Range(p[3]) : t \in TermsOver(W) /\ t \in Nodes(W, MaxNesting)
<1>1. p = <<"predicate", p[2], p[3]>> /\ p[2] \in W /\ p[3] \in Seq(TermsOver(W))
  BY DEF PredicatesOver
<1>2. p # << >>
  <2>1. Len(p) = 3 /\ Len(<< >>) = 0
    BY <1>1
  <2> QED BY <2>1
<1>3. \A t \in Range(p[3]) : t \in TermsOver(W)
  BY <1>1, MappedFacts
<1> QED BY <1>1, <1>2, <1>3, NodesNested

PredicateNames(p) == Range(PredicateWords(p))

LEMMA PredicateNamesAre ==
    ASSUME NEW W, NEW p \in PredicatesOver(W)
    PROVE  /\ PredicateWords(p) \in Seq(W)
           /\ \A w : w \in PredicateNames(p) <=> w = p[2] \/ \E t \in Range(p[3]) : w \in Names(t)
<1> DEFINE s == [i \in DOMAIN p[3] |-> Words(p[3][i])]
<1>1. /\ p[2] \in W /\ p[3] \in Seq(TermsOver(W))
      /\ \A t \in Range(p[3]) : t \in Nodes(W, MaxNesting)
  BY PredicateShape
<1>2. /\ Len(p[3]) \in Nat /\ DOMAIN p[3] = 1..Len(p[3])
      /\ \A i \in DOMAIN p[3] : p[3][i] \in Range(p[3])
      /\ \A t \in Range(p[3]) : \E i \in DOMAIN p[3] : p[3][i] = t
  BY <1>1, MappedFacts
<1>3. s \in [1..Len(p[3]) -> Seq(W)]
  BY <1>1, <1>2, WordsType
<1>4. /\ FlattenSeq(s) \in Seq(W)
      /\ \A w : w \in Range(FlattenSeq(s)) <=> \E i \in 1..Len(p[3]) : w \in Range(s[i])
  BY <1>2, <1>3, FlattenFacts
<1>5. <<p[2]>> \in Seq(W) /\ Range(<<p[2]>>) = {p[2]}
  <2>1. <<p[2]>> \in Seq(W)
    BY <1>1, OptionsType DEF Options
  <2>2. Range(<<p[2]>>) = {p[2]}
    BY DEF Range
  <2> QED BY <2>1, <2>2
<1>6. PredicateWords(p) = <<p[2]>> \o FlattenSeq(s)
  BY DEF PredicateWords
<1>7. PredicateWords(p) \in Seq(W) /\ Range(PredicateWords(p)) = {p[2]} \cup Range(FlattenSeq(s))
  <2> DEFINE u == <<p[2]>>
             v == FlattenSeq(s)
  <2>1. u \in Seq(W) /\ v \in Seq(W) /\ PredicateWords(p) = u \o v
    BY <1>4, <1>5, <1>6
  <2>2. Range(u) = {p[2]}
    BY <1>5
  <2> HIDE DEF u, v
  <2>3. PredicateWords(p) \in Seq(W)
    BY <2>1, JoinFacts
  <2>4. Range(PredicateWords(p)) = Range(u) \cup Range(v)
    BY <2>1, JoinFacts
  <2> QED BY <2>2, <2>3, <2>4 DEF v
<1>8. \A w : (\E i \in 1..Len(p[3]) : w \in Range(s[i])) <=> \E t \in Range(p[3]) : w \in Names(t)
  BY <1>2 DEF Names
<1> QED BY <1>4, <1>7, <1>8 DEF PredicateNames

\* The rules of statements, with a head or without.
RulesIn(W, K) == RulesOver(W, K) \cup QueriesOver(W, K)

LEMMA RuleShape ==
    ASSUME NEW W, NEW K, NEW r \in RulesIn(W, K)
    PROVE  /\ r = [head |-> r.head, body |-> r.body, expressions |-> r.expressions,
                   scopes |-> r.scopes]
           /\ r.head = << >> \/ (r.head \in PredicatesOver(W) /\ r.head # << >>)
           /\ r \in RulesOver(W, K) => r.head \in PredicatesOver(W)
           /\ r \in QueriesOver(W, K) => r.head = << >>
           /\ r.body \in Seq(PredicatesOver(W)) /\ r.expressions \in Seq(Seq(OpsOver(W)))
           /\ r.scopes \in Seq(ScopesOver(K))
           /\ Predicates(r) \in Seq(PredicatesOver(W))
           /\ Range(Predicates(r)) = (IF r.head = << >> THEN {} ELSE {r.head}) \cup Range(r.body)
           /\ \A e \in Range(r.expressions) :
                 /\ e \in Seq(OpsOver(W))
                 /\ \A op \in Range(e) : op \in OpsOver(W) /\ op \in Nodes(W, MaxNesting)
<1>1. /\ r = [head |-> r.head, body |-> r.body, expressions |-> r.expressions,
                   scopes |-> r.scopes]
      /\ r.head \in PredicatesOver(W) \/ r.head = << >>
      /\ r \in RulesOver(W, K) => r.head \in PredicatesOver(W)
      /\ r \in QueriesOver(W, K) => r.head = << >>
      /\ r.body \in Seq(PredicatesOver(W)) /\ r.expressions \in Seq(Seq(OpsOver(W)))
      /\ r.scopes \in Seq(ScopesOver(K))
  BY DEF RulesIn, RulesOver, QueriesOver, RulesWith
<1>2. r.head = << >> \/ (r.head \in PredicatesOver(W) /\ r.head # << >>)
  BY <1>1, PredicateShape
<1>3. /\ Predicates(r) \in Seq(PredicatesOver(W))
      /\ Range(Predicates(r)) = (IF r.head = << >> THEN {} ELSE {r.head}) \cup Range(r.body)
  <2>1. CASE r.head = << >>
    <3>1. Predicates(r) = << >> \o r.body
      BY <2>1 DEF Predicates
    <3>2. Predicates(r) = r.body
      BY <1>1, <3>1, ConcatEmptySeq
    <3> QED BY <1>1, <2>1, <3>2
  <2>2. CASE r.head # << >>
    <3>1. Predicates(r) = <<r.head>> \o r.body
      BY <2>2 DEF Predicates
    <3>2. <<r.head>> \in Seq(PredicatesOver(W))
      BY <1>2, <2>2, OptionsType DEF Options
    <3>3. Range(<<r.head>>) = {r.head}
      BY DEF Range
    <3> DEFINE u == <<r.head>>
    <3>4. u \in Seq(PredicatesOver(W)) /\ Range(u) = {r.head} /\ Predicates(r) = u \o r.body
      BY <3>1, <3>2, <3>3
    <3> HIDE DEF u
    <3>5. Predicates(r) \in Seq(PredicatesOver(W))
      BY <1>1, <3>4, JoinFacts
    <3>6. Range(Predicates(r)) = Range(u) \cup Range(r.body)
      BY <1>1, <3>4, JoinFacts
    <3> QED BY <2>2, <3>4, <3>5, <3>6
  <2> QED BY <2>1, <2>2
<1>4. ASSUME NEW e \in Range(r.expressions)
      PROVE  /\ e \in Seq(OpsOver(W))
             /\ \A op \in Range(e) : op \in OpsOver(W) /\ op \in Nodes(W, MaxNesting)
  <2>1. e \in Seq(OpsOver(W))
    BY <1>1, MappedFacts
  <2>2. \A op \in Range(e) : op \in OpsOver(W)
    BY <2>1, MappedFacts
  <2> QED BY <2>1, <2>2, NodesNested
<1> QED BY <1>1, <1>2, <1>3, <1>4

RuleNames(r) == Range(RuleWords(r))
OpsIn(r) == UNION {Range(e) : e \in Range(r.expressions)}

LEMMA RuleNamesAre ==
    ASSUME NEW W, NEW K, NEW r \in RulesIn(W, K)
    PROVE  /\ RuleWords(r) \in Seq(W)
           /\ \A w : w \in RuleNames(r) <=>
                 \/ \E p \in Range(Predicates(r)) : w \in PredicateNames(p)
                 \/ \E op \in OpsIn(r) : w \in Names(op)
<1> DEFINE OfOps(ops) == FlattenSeq([i \in DOMAIN ops |-> Words(ops[i])])
           P == Predicates(r)
           E == r.expressions
           a == [i \in DOMAIN P |-> PredicateWords(P[i])]
           b == [i \in DOMAIN E |-> OfOps(E[i])]
<1>1. P \in Seq(PredicatesOver(W)) /\ E \in Seq(Seq(OpsOver(W)))
  BY RuleShape
<1>2. /\ Len(P) \in Nat /\ DOMAIN P = 1..Len(P)
      /\ \A i \in DOMAIN P : P[i] \in PredicatesOver(W) /\ P[i] \in Range(P)
      /\ \A p \in Range(P) : \E i \in DOMAIN P : P[i] = p
  BY <1>1, MappedFacts
<1>3. /\ Len(E) \in Nat /\ DOMAIN E = 1..Len(E)
      /\ \A i \in DOMAIN E : E[i] \in Seq(OpsOver(W)) /\ E[i] \in Range(E)
      /\ \A e \in Range(E) : \E i \in DOMAIN E : E[i] = e
  BY <1>1, MappedFacts
<1>4. ASSUME NEW i \in DOMAIN E
      PROVE  /\ OfOps(E[i]) \in Seq(W)
             /\ \A w : w \in Range(OfOps(E[i])) <=> \E op \in Range(E[i]) : w \in Names(op)
  <2> DEFINE c == [j \in DOMAIN E[i] |-> Words(E[i][j])]
  <2>1. /\ Len(E[i]) \in Nat /\ DOMAIN E[i] = 1..Len(E[i])
        /\ \A j \in DOMAIN E[i] : E[i][j] \in Range(E[i])
        /\ \A op \in Range(E[i]) : \E j \in DOMAIN E[i] : E[i][j] = op
    BY <1>3, MappedFacts
  <2>2. \A j \in DOMAIN E[i] : E[i][j] \in Nodes(W, MaxNesting)
    BY <1>3, <2>1, RuleShape
  <2>3. c \in [1..Len(E[i]) -> Seq(W)]
    BY <2>1, <2>2, WordsType
  <2>4. /\ FlattenSeq(c) \in Seq(W)
        /\ \A w : w \in Range(FlattenSeq(c)) <=> \E j \in 1..Len(E[i]) : w \in Range(c[j])
    BY <2>1, <2>3, FlattenFacts
  <2>5. \A w : (\E j \in 1..Len(E[i]) : w \in Range(c[j])) <=> \E op \in Range(E[i]) : w \in Names(op)
    BY <2>1 DEF Names
  <2> QED BY <2>4, <2>5
<1>5. a \in [1..Len(P) -> Seq(W)]
  BY <1>2, PredicateNamesAre
<1>6. b \in [1..Len(E) -> Seq(W)]
  BY <1>3, <1>4
<1>7. /\ FlattenSeq(a) \in Seq(W)
      /\ \A w : w \in Range(FlattenSeq(a)) <=> \E i \in 1..Len(P) : w \in Range(a[i])
  BY <1>2, <1>5, FlattenFacts
<1>8. /\ FlattenSeq(b) \in Seq(W)
      /\ \A w : w \in Range(FlattenSeq(b)) <=> \E i \in 1..Len(E) : w \in Range(b[i])
  BY <1>3, <1>6, FlattenFacts, ZenonT(60)
<1>9. RuleWords(r) = FlattenSeq(a) \o FlattenSeq(b)
  BY DEF RuleWords
<1>10. RuleWords(r) \in Seq(W) /\ RuleNames(r) = Range(FlattenSeq(a)) \cup Range(FlattenSeq(b))
  <2> DEFINE u == FlattenSeq(a)
             v == FlattenSeq(b)
  <2>1. u \in Seq(W) /\ v \in Seq(W) /\ RuleWords(r) = u \o v
    BY <1>7, <1>8, <1>9
  <2> HIDE DEF u, v
  <2>2. RuleWords(r) \in Seq(W)
    BY <2>1, JoinFacts
  <2>3. Range(RuleWords(r)) = Range(u) \cup Range(v)
    BY <2>1, JoinFacts
  <2> QED BY <2>2, <2>3 DEF u, v, RuleNames
<1>11. \A w : (\E i \in 1..Len(P) : w \in Range(a[i])) <=> \E p \in Range(P) : w \in PredicateNames(p)
  BY <1>2 DEF PredicateNames
<1>12. \A w : (\E i \in 1..Len(E) : w \in Range(b[i])) <=>
                 \E op \in OpsIn(r) : w \in Names(op)
  <2>1. \A i \in 1..Len(E) : b[i] = OfOps(E[i])
    BY <1>3
  <2> HIDE DEF OfOps, b
  <2>2. \A w : (\E i \in 1..Len(E) : w \in Range(b[i])) <=>
                   \E e \in Range(E) : \E op \in Range(e) : w \in Names(op)
    BY <1>3, <1>4, <2>1
  <2>3. \A op : op \in OpsIn(r) <=> \E e \in Range(E) : op \in Range(e)
    BY DEF OpsIn
  <2> QED BY <2>2, <2>3
<1> HIDE DEF a, b
<1> QED BY <1>7, <1>8, <1>10, <1>11, <1>12

LEMMA StatementShape ==
    ASSUME NEW W, NEW K, NEW s \in StatementsOver(W, K)
    PROVE  /\ s[1] \in {"fact", "rule", "check", "policy"}
           /\ s[1] = "fact" => s = <<"fact", s[2]>> /\ s[2] \in PredicatesOver(W)
           /\ s[1] = "rule" => s = <<"rule", s[2]>> /\ s[2] \in RulesOver(W, K)
           /\ s[1] = "check" => s = <<"check", s[2], s[3]>> /\ s[2] \in CheckNames
           /\ s[1] = "policy" => s = <<"policy", s[2], s[3]>> /\ s[2] \in PolicyNames
           /\ s[1] \in {"check", "policy"} => s[3] \in Seq(QueriesOver(W, K))
           /\ Facts(s) = IF s[1] = "fact" THEN <<s[2]>> ELSE << >>
           /\ Queries(s) = CASE s[1] = "fact" -> << >> [] s[1] = "rule" -> <<s[2]>> [] OTHER -> s[3]
           /\ Queries(s) \in Seq(RulesIn(W, K))
           /\ \A p \in Range(Facts(s)) : s[1] = "fact" /\ p = s[2]
           /\ s[1] = "fact" => s[2] \in Range(Facts(s))
           /\ s[1] = "fact" => Range(Queries(s)) = {}
           /\ s[1] = "rule" => Range(Queries(s)) = {s[2]}
           /\ s[1] \in {"check", "policy"} => Range(Queries(s)) = Range(s[3])
           /\ \A r \in Range(Queries(s)) : r \in RulesIn(W, K)
<1>1. /\ s[1] \in {"fact", "rule", "check", "policy"}
      /\ s[1] = "fact" => s = <<"fact", s[2]>> /\ s[2] \in PredicatesOver(W)
      /\ s[1] = "rule" => s = <<"rule", s[2]>> /\ s[2] \in RulesOver(W, K)
      /\ s[1] = "check" => s = <<"check", s[2], s[3]>> /\ s[2] \in CheckNames
      /\ s[1] = "policy" => s = <<"policy", s[2], s[3]>> /\ s[2] \in PolicyNames
      /\ s[1] \in {"check", "policy"} => s[3] \in Seq(QueriesOver(W, K))
  BY DEF StatementsOver
<1>2. /\ Facts(s) = IF s[1] = "fact" THEN <<s[2]>> ELSE << >>
      /\ Queries(s) = CASE s[1] = "fact" -> << >> [] s[1] = "rule" -> <<s[2]>> [] OTHER -> s[3]
  BY DEF Facts, Queries
<1>3. /\ s[1] = "fact" => Queries(s) = << >> /\ Facts(s) = <<s[2]>>
      /\ s[1] = "rule" => Queries(s) = <<s[2]>> /\ Facts(s) = << >>
      /\ s[1] \in {"check", "policy"} => Queries(s) = s[3] /\ Facts(s) = << >>
  BY <1>2
<1>4. /\ << >> \in Seq(RulesIn(W, K)) /\ \A r \in RulesIn(W, K) : <<r>> \in Seq(RulesIn(W, K))
      /\ Range(<< >>) = {} /\ \A r : Range(<<r>>) = {r}
  <2>1. << >> \in Seq(RulesIn(W, K)) /\ \A r \in RulesIn(W, K) : <<r>> \in Seq(RulesIn(W, K))
    BY OptionsType DEF Options
  <2>2. Range(<< >>) = {} /\ \A r : Range(<<r>>) = {r}
    BY DEF Range
  <2> QED BY <2>1, <2>2
<1>5. Seq(QueriesOver(W, K)) \subseteq Seq(RulesIn(W, K))
  BY SeqGrows DEF RulesIn
<1>6. Queries(s) \in Seq(RulesIn(W, K))
  <2>1. CASE s[1] = "rule"
    <3>1. s[2] \in RulesIn(W, K)
      BY <1>1, <2>1 DEF RulesIn
    <3> QED BY <1>3, <1>4, <2>1, <3>1
  <2> QED BY <1>1, <1>3, <1>4, <1>5, <2>1
<1>7. /\ \A p \in Range(Facts(s)) : s[1] = "fact" /\ p = s[2]
      /\ s[1] = "fact" => s[2] \in Range(Facts(s))
      /\ s[1] = "fact" => Range(Queries(s)) = {}
      /\ s[1] = "rule" => Range(Queries(s)) = {s[2]}
      /\ s[1] \in {"check", "policy"} => Range(Queries(s)) = Range(s[3])
  BY <1>1, <1>3, <1>4
<1>8. \A r \in Range(Queries(s)) : r \in RulesIn(W, K)
  BY <1>6, MappedFacts
<1> QED BY <1>1, <1>2, <1>6, <1>7, <1>8

StatementNames(s) == Range(StatementWords(s))
StatementKeyNames(s) == Range(StatementKeys(s))

LEMMA StatementNamesAre ==
    ASSUME NEW W, NEW K, NEW s \in StatementsOver(W, K)
    PROVE  /\ StatementWords(s) \in Seq(W)
           /\ \A w : w \in StatementNames(s) <=>
                 \/ \E p \in Range(Facts(s)) : w \in PredicateNames(p)
                 \/ \E r \in Range(Queries(s)) : w \in RuleNames(r)
<1> DEFINE Q == Queries(s)
           a == [i \in DOMAIN Q |-> RuleWords(Q[i])]
<1>1. /\ Q \in Seq(RulesIn(W, K))
      /\ s[1] = "fact" => s[2] \in PredicatesOver(W) /\ Range(Facts(s)) = {s[2]} /\ Range(Q) = {}
      /\ s[1] # "fact" => Range(Facts(s)) = {}
  <2>1. /\ s[1] = "fact" => s[2] \in PredicatesOver(W) /\ s[2] \in Range(Facts(s)) /\ Range(Q) = {}
        /\ \A p \in Range(Facts(s)) : s[1] = "fact" /\ p = s[2]
    BY StatementShape
  <2>2. Q \in Seq(RulesIn(W, K))
    BY StatementShape
  <2> QED BY <2>1, <2>2
<1>2. /\ Len(Q) \in Nat /\ DOMAIN Q = 1..Len(Q)
      /\ \A i \in DOMAIN Q : Q[i] \in RulesIn(W, K) /\ Q[i] \in Range(Q)
      /\ \A r \in Range(Q) : \E i \in DOMAIN Q : Q[i] = r
  BY <1>1, MappedFacts
<1>3. CASE s[1] = "fact"
  <2>1. StatementWords(s) = PredicateWords(s[2])
    BY <1>3 DEF StatementWords
  <2> QED BY <1>1, <1>3, <2>1, PredicateNamesAre DEF StatementNames, PredicateNames
<1>4. CASE s[1] # "fact"
  <2>1. StatementWords(s) = FlattenSeq(a)
    BY <1>4 DEF StatementWords
  <2>2. a \in [1..Len(Q) -> Seq(W)]
    BY <1>2, RuleNamesAre
  <2>3. /\ FlattenSeq(a) \in Seq(W)
        /\ \A w : w \in Range(FlattenSeq(a)) <=> \E i \in 1..Len(Q) : w \in Range(a[i])
    BY <1>2, <2>2, FlattenFacts
  <2>4. \A w : (\E i \in 1..Len(Q) : w \in Range(a[i])) <=> \E r \in Range(Q) : w \in RuleNames(r)
    BY <1>2 DEF RuleNames
  <2> HIDE DEF a
  <2> QED BY <1>1, <1>4, <2>1, <2>3, <2>4 DEF StatementNames
<1> QED BY <1>3, <1>4

\* The keys of scopes.
LEMMA ScopeKeysAre ==
    ASSUME NEW K, NEW l \in Seq(ScopesOver(K))
    PROVE  /\ ScopeKeys(l) \in Seq(K)
           /\ \A k : k \in Range(ScopeKeys(l)) <=> <<"key", k>> \in Range(l)
<1> DEFINE a == [i \in DOMAIN l |-> IF l[i][1] = "key" THEN <<l[i][2]>> ELSE << >>]
<1>1. /\ Len(l) \in Nat /\ DOMAIN l = 1..Len(l)
      /\ \A i \in DOMAIN l : l[i] \in ScopesOver(K) /\ l[i] \in Range(l)
      /\ \A x \in Range(l) : \E i \in DOMAIN l : l[i] = x
  BY MappedFacts
<1>2. \A x \in ScopesOver(K) : x[1] = "key" => x = <<"key", x[2]>> /\ x[2] \in K
  BY DEF ScopesOver, TrustAuthority, TrustPrevious
<1>3. \A k \in K : <<k>> \in Seq(K)
  BY OptionsType DEF Options
<1>4. a \in [1..Len(l) -> Seq(K)]
  <2>1. ASSUME NEW i \in 1..Len(l)
        PROVE  (IF l[i][1] = "key" THEN <<l[i][2]>> ELSE << >>) \in Seq(K)
    BY <1>1, <1>2, <1>3, EmptySeq
  <2> QED BY <1>1, <2>1
<1>5. /\ FlattenSeq(a) \in Seq(K)
      /\ \A k : k \in Range(FlattenSeq(a)) <=> \E i \in 1..Len(l) : k \in Range(a[i])
  BY <1>1, <1>4, FlattenFacts
<1>6. ScopeKeys(l) = FlattenSeq(a)
  BY DEF ScopeKeys
<1>7. ASSUME NEW k
      PROVE  (\E i \in 1..Len(l) : k \in Range(a[i])) <=> <<"key", k>> \in Range(l)
  <2>1. Range(<< >>) = {} /\ \A r : Range(<<r>>) = {r}
    BY DEF Range
  <2>2. ASSUME NEW i \in 1..Len(l)
        PROVE  k \in Range(a[i]) <=> l[i] = <<"key", k>>
    <3>1. CASE l[i][1] = "key"
      <4>1. a[i] = <<l[i][2]>> /\ l[i] = <<"key", l[i][2]>>
        BY <1>1, <1>2, <3>1
      <4> QED BY <2>1, <4>1
    <3>2. CASE l[i][1] # "key"
      <4>1. a[i] = << >>
        BY <1>1, <3>2
      <4> QED BY <2>1, <3>2, <4>1
    <3> QED BY <3>1, <3>2
  <2> HIDE DEF a
  <2> QED BY <1>1, <2>2
<1> HIDE DEF a
<1> QED BY <1>5, <1>6, <1>7

LEMMA StatementKeysAre ==
    ASSUME NEW W, NEW K, NEW s \in StatementsOver(W, K)
    PROVE  /\ StatementKeys(s) \in Seq(K)
           /\ \A k : k \in StatementKeyNames(s) <=>
                 \E r \in Range(Queries(s)) : <<"key", k>> \in Range(r.scopes)
<1> DEFINE Q == Queries(s)
           a == [i \in DOMAIN Q |-> ScopeKeys(Q[i].scopes)]
<1>1. Q \in Seq(RulesIn(W, K))
  BY StatementShape
<1>2. /\ Len(Q) \in Nat /\ DOMAIN Q = 1..Len(Q)
      /\ \A i \in DOMAIN Q : Q[i] \in RulesIn(W, K) /\ Q[i] \in Range(Q)
      /\ \A r \in Range(Q) : \E i \in DOMAIN Q : Q[i] = r
  BY <1>1, MappedFacts
<1>3. \A i \in DOMAIN Q : Q[i].scopes \in Seq(ScopesOver(K))
  BY <1>2, RuleShape
<1>4. a \in [1..Len(Q) -> Seq(K)]
  BY <1>2, <1>3, ScopeKeysAre
<1>5. /\ FlattenSeq(a) \in Seq(K)
      /\ \A w : w \in Range(FlattenSeq(a)) <=> \E i \in 1..Len(Q) : w \in Range(a[i])
  BY <1>2, <1>4, FlattenFacts
<1>6. \A k : (\E i \in 1..Len(Q) : k \in Range(a[i])) <=>
                \E r \in Range(Q) : <<"key", k>> \in Range(r.scopes)
  BY <1>2, <1>3, ScopeKeysAre
<1>7. StatementKeys(s) = FlattenSeq(a)
  BY DEF StatementKeys
<1> HIDE DEF a
<1> QED BY <1>5, <1>6, <1>7 DEF StatementKeyNames

LEMMA AllNamesAre ==
    ASSUME NEW W, NEW K, NEW S \in Seq(StatementsOver(W, K)), NEW l \in Seq(ScopesOver(K))
    PROVE  /\ AllWords(S) \in Seq(W)
           /\ \A w : w \in Range(AllWords(S)) <=> \E s \in Range(S) : w \in StatementNames(s)
           /\ AllKeys(S, l) \in Seq(K)
           /\ \A k : k \in Range(AllKeys(S, l)) <=>
                 \/ \E s \in Range(S) : k \in StatementKeyNames(s)
                 \/ <<"key", k>> \in Range(l)
<1> DEFINE a == [i \in DOMAIN S |-> StatementWords(S[i])]
           b == [i \in DOMAIN S |-> StatementKeys(S[i])]
<1>1. /\ Len(S) \in Nat /\ DOMAIN S = 1..Len(S)
      /\ \A i \in DOMAIN S : S[i] \in StatementsOver(W, K) /\ S[i] \in Range(S)
      /\ \A s \in Range(S) : \E i \in DOMAIN S : S[i] = s
  BY MappedFacts
<1>2. a \in [1..Len(S) -> Seq(W)] /\ b \in [1..Len(S) -> Seq(K)]
  BY <1>1, StatementNamesAre, StatementKeysAre
<1>3. /\ FlattenSeq(a) \in Seq(W)
      /\ \A w : w \in Range(FlattenSeq(a)) <=> \E i \in 1..Len(S) : w \in Range(a[i])
  BY <1>1, <1>2, FlattenFacts
<1>4. /\ FlattenSeq(b) \in Seq(K)
      /\ \A w : w \in Range(FlattenSeq(b)) <=> \E i \in 1..Len(S) : w \in Range(b[i])
  BY <1>1, <1>2, FlattenFacts
<1>5. \A w : (\E i \in 1..Len(S) : w \in Range(a[i])) <=> \E s \in Range(S) : w \in StatementNames(s)
  BY <1>1 DEF StatementNames
<1>6. \A k : (\E i \in 1..Len(S) : k \in Range(b[i])) <=> \E s \in Range(S) : k \in StatementKeyNames(s)
  BY <1>1 DEF StatementKeyNames
<1>7. AllWords(S) = FlattenSeq(a) /\ AllKeys(S, l) = FlattenSeq(b) \o ScopeKeys(l)
  BY DEF AllWords, AllKeys
<1>8. ScopeKeys(l) \in Seq(K) /\ \A k : k \in Range(ScopeKeys(l)) <=> <<"key", k>> \in Range(l)
  BY ScopeKeysAre
<1> DEFINE c == FlattenSeq(b)
           d == ScopeKeys(l)
<1>9. c \in Seq(K) /\ d \in Seq(K) /\ AllKeys(S, l) = c \o d
  BY <1>4, <1>7, <1>8
<1>10. AllWords(S) \in Seq(W) /\ \A w : w \in Range(AllWords(S)) <=> \E s \in Range(S) : w \in StatementNames(s)
  BY <1>3, <1>5, <1>7
<1> HIDE DEF a, b, c, d
<1>11. AllKeys(S, l) \in Seq(K)
  BY <1>9, JoinFacts
<1>12. Range(AllKeys(S, l)) = Range(c) \cup Range(d)
  BY <1>9, JoinFacts
<1>13. \A k : k \in Range(AllKeys(S, l)) <=> k \in Range(c) \/ k \in Range(d)
  BY <1>12
<1>14. \A k : k \in Range(c) <=> \E s \in Range(S) : k \in StatementKeyNames(s)
  BY <1>4, <1>6 DEF c
<1>15. \A k : k \in Range(d) <=> <<"key", k>> \in Range(l)
  BY <1>8 DEF d
<1> QED BY <1>10, <1>11, <1>13, <1>14, <1>15

-----------------------------------------------------------------------------
(* Names and keys that are replaced.                                           *)

\* Every name of N has an image in V, and no other name has the same.
Suits(N, f, V) ==
    /\ \A w \in N : f[w] \in V
    /\ \A v, w \in N : f[v] = f[w] => v = w

LEMMA SuitsFits ==
    ASSUME NEW N, NEW f, NEW V, Suits(N, f, V), NEW x, Names(x) \subseteq N
    PROVE  Fits(x, f, V)
BY DEF Suits, Fits

LEMMA TranslatePredicateType ==
    ASSUME NEW W, NEW V, NEW f, NEW p \in PredicatesOver(W), Suits(PredicateNames(p), f, V)
    PROVE  /\ TranslatePredicate(p, f) \in PredicatesOver(V)
           /\ TranslatePredicate(p, f)[2] = f[p[2]]
           /\ Range(TranslatePredicate(p, f)[3]) = {Translate(t, f) : t \in Range(p[3])}
           /\ PredicateNames(TranslatePredicate(p, f)) = {f[w] : w \in PredicateNames(p)}
<1> DEFINE ts == [i \in DOMAIN p[3] |-> Translate(p[3][i], f)]
           q == TranslatePredicate(p, f)
<1>1. /\ p = <<"predicate", p[2], p[3]>> /\ p[2] \in W /\ p[3] \in Seq(TermsOver(W))
      /\ \A t \in Range(p[3]) : t \in TermsOver(W) /\ t \in Nodes(W, MaxNesting)
  BY PredicateShape
<1>2. /\ Len(p[3]) \in Nat /\ DOMAIN p[3] = 1..Len(p[3])
      /\ \A i \in DOMAIN p[3] : p[3][i] \in Range(p[3])
      /\ \A t \in Range(p[3]) : \E i \in DOMAIN p[3] : p[3][i] = t
      /\ \A R, u : u \in [1..Len(p[3]) -> R] => u \in Seq(R) /\ DOMAIN u = DOMAIN p[3]
  BY <1>1, MappedFacts
<1>3. \A w : w \in PredicateNames(p) <=> w = p[2] \/ \E t \in Range(p[3]) : w \in Names(t)
  BY PredicateNamesAre
<1>4. \A t \in Range(p[3]) : Fits(t, f, V)
  <2>1. \A t \in Range(p[3]) : Names(t) \subseteq PredicateNames(p)
    BY <1>3
  <2> QED BY <2>1, SuitsFits
<1>5. \A t \in Range(p[3]) : Translate(t, f) \in TermsOver(V)
  BY <1>1, <1>4, TranslateType
<1>6. ts \in [1..Len(p[3]) -> TermsOver(V)]
  BY <1>2, <1>5
<1>7. ts \in Seq(TermsOver(V)) /\ DOMAIN ts = DOMAIN p[3]
  BY <1>2, <1>6
<1>8. q = <<"predicate", f[p[2]], ts>>
  <2>1. p[1] = "predicate"
    BY <1>1
  <2> QED BY <2>1 DEF TranslatePredicate
<1>9. f[p[2]] \in V
  BY <1>3 DEF Suits
<1>10. q \in PredicatesOver(V)
  BY <1>7, <1>8, <1>9 DEF PredicatesOver
<1>11. Range(ts) = {Translate(t, f) : t \in Range(p[3])}
  <2>1. \A i \in DOMAIN ts : ts[i] = Translate(p[3][i], f)
    BY <1>7
  <2> HIDE DEF ts
  <2>2. \A x \in Range(ts) : \E t \in Range(p[3]) : x = Translate(t, f)
    BY <1>2, <1>7, <2>1 DEF Range
  <2>3. \A t \in Range(p[3]) : Translate(t, f) \in Range(ts)
    BY <1>2, <1>7, <2>1 DEF Range
  <2> QED BY <2>2, <2>3
<1>12. \A t \in Range(p[3]) : Names(Translate(t, f)) = {f[w] : w \in Names(t)}
  BY <1>1, <1>4, NamesOfTranslate
<1>13. q[2] = f[p[2]] /\ Range(q[3]) = {Translate(t, f) : t \in Range(p[3])}
  BY <1>8, <1>11
<1> HIDE DEF q, ts
<1>14. \A w : w \in PredicateNames(q) <=> w = q[2] \/ \E t \in Range(q[3]) : w \in Names(t)
  BY <1>10, PredicateNamesAre
<1>15. PredicateNames(q) = {f[w] : w \in PredicateNames(p)}
  <2>1. ASSUME NEW v \in PredicateNames(q) PROVE \E w \in PredicateNames(p) : v = f[w]
    <3>1. CASE v = q[2]
      BY <1>3, <1>13, <3>1
    <3>2. CASE \E t \in Range(q[3]) : v \in Names(t)
      <4>1. PICK t \in Range(p[3]) : v \in Names(Translate(t, f))
        BY <1>13, <3>2
      <4>2. PICK w \in Names(t) : v = f[w]
        BY <1>12, <4>1
      <4> QED BY <1>3, <4>2
    <3> QED BY <1>14, <2>1, <3>1, <3>2
  <2>2. ASSUME NEW w \in PredicateNames(p) PROVE f[w] \in PredicateNames(q)
    <3>1. CASE w = p[2]
      BY <1>13, <1>14, <3>1
    <3>2. CASE \E t \in Range(p[3]) : w \in Names(t)
      <4>1. PICK t \in Range(p[3]) : w \in Names(t)
        BY <3>2
      <4>2. f[w] \in Names(Translate(t, f)) /\ Translate(t, f) \in Range(q[3])
        BY <1>12, <1>13, <4>1
      <4> QED BY <1>14, <4>2
    <3> QED BY <1>3, <3>1, <3>2
  <2> QED BY <2>1, <2>2
<1> QED BY <1>10, <1>13, <1>15 DEF q

LEMMA TranslatePredicateTwice ==
    ASSUME NEW W, NEW V, NEW f, NEW g, NEW h, NEW p \in PredicatesOver(W),
           Suits(PredicateNames(p), f, V), \A w \in PredicateNames(p) : h[w] = g[f[w]]
    PROVE  TranslatePredicate(TranslatePredicate(p, f), g) = TranslatePredicate(p, h)
<1> DEFINE ts == [i \in DOMAIN p[3] |-> Translate(p[3][i], f)]
           us == [i \in DOMAIN ts |-> Translate(ts[i], g)]
           vs == [i \in DOMAIN p[3] |-> Translate(p[3][i], h)]
<1>1. /\ p[2] \in PredicateNames(p)
      /\ \A t \in Range(p[3]) : Names(t) \subseteq PredicateNames(p)
  BY PredicateNamesAre
<1>2. \A t \in Range(p[3]) : /\ t \in Nodes(W, MaxNesting) /\ Fits(t, f, V)
                             /\ \A w \in Names(t) : h[w] = g[f[w]]
  BY <1>1, SuitsFits, PredicateShape
<1>3. \A t \in Range(p[3]) : Translate(Translate(t, f), g) = Translate(t, h)
  BY <1>2, TranslateTwice
<1>4. \A i \in DOMAIN p[3] : p[3][i] \in Range(p[3])
  BY DEF Range
<1>5. us = vs
  BY <1>3, <1>4
<1>6. /\ TranslatePredicate(p, h) = <<p[1], h[p[2]], vs>>
      /\ TranslatePredicate(p, f) = <<p[1], f[p[2]], ts>>
  BY DEF TranslatePredicate
<1>7. TranslatePredicate(<<p[1], f[p[2]], ts>>, g) = <<p[1], g[f[p[2]]], us>>
  BY DEF TranslatePredicate
<1>8. h[p[2]] = g[f[p[2]]]
  BY <1>1
<1> HIDE DEF ts, us, vs
<1> QED BY <1>5, <1>6, <1>7, <1>8

LEMMA TranslatePredicateSame ==
    ASSUME NEW W, NEW f, NEW p \in PredicatesOver(W), \A w \in PredicateNames(p) : f[w] = w
    PROVE  TranslatePredicate(p, f) = p
<1> DEFINE ts == [i \in DOMAIN p[3] |-> Translate(p[3][i], f)]
<1>1. /\ p[2] \in PredicateNames(p)
      /\ \A t \in Range(p[3]) : Names(t) \subseteq PredicateNames(p)
  BY PredicateNamesAre
<1>2. /\ p = <<"predicate", p[2], p[3]>> /\ p[3] \in Seq(TermsOver(W))
      /\ \A t \in Range(p[3]) : t \in Nodes(W, MaxNesting)
  BY PredicateShape
<1>3. \A t \in Range(p[3]) : Translate(t, f) = t
  BY <1>1, <1>2, TranslateSame
<1>4. ts = p[3]
  <2>1. \A i \in DOMAIN p[3] : p[3][i] \in Range(p[3])
    BY DEF Range
  <2>2. p[3] = [i \in DOMAIN p[3] |-> p[3][i]]
    BY <1>2
  <2> QED BY <1>3, <2>1, <2>2
<1>5. TranslatePredicate(p, f) = <<p[1], f[p[2]], ts>>
  BY DEF TranslatePredicate
<1>6. f[p[2]] = p[2]
  BY <1>1
<1> QED BY <1>2, <1>4, <1>5, <1>6

LEMMA ScopeShape ==
    ASSUME NEW K
    PROVE  /\ \A sc \in ScopesOver(K) :
                 /\ sc[1] = "key" => sc = <<"key", sc[2]>> /\ sc[2] \in K
                 /\ sc[1] # "key" => sc \in ScopesOver({})
                 /\ sc[1] = "param" => sc = <<"param", sc[2]>>
                 /\ sc[1] \notin {"key", "param"} => sc \in {TrustAuthority, TrustPrevious}
           /\ \A k \in K : <<"key", k>> \in ScopesOver(K)
           /\ ScopesOver({}) \subseteq ScopesOver(K)
<1>1. \A k \in K : <<"key", k>> \in ScopesOver(K)
  BY DEF ScopesOver
<1>2. ScopesOver({}) \subseteq ScopesOver(K)
  BY DEF ScopesOver
<1>3. \A sc \in ScopesOver(K) :
         /\ sc[1] = "key" => sc = <<"key", sc[2]>> /\ sc[2] \in K
         /\ sc[1] # "key" => sc \in ScopesOver({})
         /\ sc[1] = "param" => sc = <<"param", sc[2]>>
         /\ sc[1] \notin {"key", "param"} => sc \in {TrustAuthority, TrustPrevious}
  BY DEF ScopesOver, TrustAuthority, TrustPrevious
<1> QED BY <1>1, <1>2, <1>3

LEMMA TranslateScopesFacts ==
    ASSUME NEW K, NEW L, NEW g, NEW l \in Seq(ScopesOver(K)),
           \A k : <<"key", k>> \in Range(l) => g[k] \in L
    PROVE  /\ TranslateScopes(l, g) \in Seq(ScopesOver(L))
           /\ DOMAIN TranslateScopes(l, g) = DOMAIN l
           /\ TranslateScopes(l, g) = << >> <=> l = << >>
           /\ \A v : <<"key", v>> \in Range(TranslateScopes(l, g)) <=>
                        \E k : <<"key", k>> \in Range(l) /\ v = g[k]
           /\ \A sc : sc[1] # "key" => (sc \in Range(TranslateScopes(l, g)) <=> sc \in Range(l))
<1> DEFINE F(sc) == IF sc[1] = "key" THEN <<"key", g[sc[2]]>> ELSE sc
           m == [i \in DOMAIN l |-> F(l[i])]
<1>1. /\ Len(l) \in Nat /\ DOMAIN l = 1..Len(l)
      /\ \A i \in DOMAIN l : l[i] \in ScopesOver(K) /\ l[i] \in Range(l)
      /\ \A x \in Range(l) : \E i \in DOMAIN l : l[i] = x
      /\ \A R, u : u \in [1..Len(l) -> R] =>
            u \in Seq(R) /\ DOMAIN u = DOMAIN l /\ Len(u) = Len(l)
  BY MappedFacts
<1>2. \A sc \in Range(l) : sc[1] = "key" => sc = <<"key", sc[2]>> /\ g[sc[2]] \in L
  BY <1>1, ScopeShape
<1>3. ASSUME NEW sc \in Range(l) PROVE F(sc) \in ScopesOver(L)
  <2>1. sc \in ScopesOver(K)
    BY <1>1
  <2>2. CASE sc[1] = "key"
    BY <1>2, <2>2, ScopeShape
  <2>3. CASE sc[1] # "key"
    BY <2>1, <2>3, ScopeShape
  <2> QED BY <2>2, <2>3
<1>4. m \in [1..Len(l) -> ScopesOver(L)]
  BY <1>1, <1>3
<1>5. m \in Seq(ScopesOver(L)) /\ DOMAIN m = DOMAIN l /\ Len(m) = Len(l)
  BY <1>1, <1>4
<1>6. TranslateScopes(l, g) = m
  BY DEF TranslateScopes
<1>7. m = << >> <=> l = << >>
  BY <1>1, <1>5, EmptySeq
<1>8. \A i \in DOMAIN l : m[i] = F(l[i])
  OBVIOUS
<1> HIDE DEF m
<1>9. \A x : x \in Range(m) <=> \E sc \in Range(l) : x = F(sc)
  <2>1. \A x \in Range(m) : \E sc \in Range(l) : x = F(sc)
    BY <1>1, <1>5, <1>8 DEF Range
  <2>2. ASSUME NEW sc \in Range(l)
        PROVE  F(sc) \in Range(m)
    <3>1. PICK i \in DOMAIN l : l[i] = sc
      BY DEF Range
    <3>2. i \in DOMAIN m /\ m[i] = F(sc)
      BY <1>5, <1>8, <3>1
    <3> QED BY ONLY <3>2 DEF Range
  <2> QED BY <2>1, <2>2
<1>10. ASSUME NEW v
       PROVE  <<"key", v>> \in Range(m) <=> \E k : <<"key", k>> \in Range(l) /\ v = g[k]
  <2>1. ASSUME <<"key", v>> \in Range(m)
        PROVE  \E k : <<"key", k>> \in Range(l) /\ v = g[k]
    <3>1. PICK sc \in Range(l) : <<"key", v>> = F(sc)
      BY <1>9, <2>1
    <3>2. sc[1] = "key"
      BY <3>1
    <3>3. <<"key", v>> = <<"key", g[sc[2]]>>
      BY <3>1, <3>2
    <3> QED BY <1>2, <3>2, <3>3
  <2>2. ASSUME NEW k, <<"key", k>> \in Range(l), v = g[k]
        PROVE  <<"key", v>> \in Range(m)
    <3>1. F(<<"key", k>>) = <<"key", v>>
      BY <2>2
    <3> HIDE DEF F
    <3> QED BY <1>9, <2>2, <3>1
  <2> QED BY <2>1, <2>2
<1>11. ASSUME NEW sc, sc[1] # "key"
       PROVE  sc \in Range(m) <=> sc \in Range(l)
  <2>1. \A x : F(x) = sc => x = sc
    BY <1>11
  <2>2. F(sc) = sc
    BY <1>11
  <2> HIDE DEF F
  <2> QED BY <1>9, <2>1, <2>2
<1> QED BY <1>5, <1>6, <1>7, <1>10, <1>11

LEMMA TranslateScopesTwice ==
    ASSUME NEW K, NEW f, NEW g, NEW h, NEW l \in Seq(ScopesOver(K)),
           \A k : <<"key", k>> \in Range(l) => h[k] = g[f[k]]
    PROVE  TranslateScopes(TranslateScopes(l, f), g) = TranslateScopes(l, h)
<1> DEFINE m == [i \in DOMAIN l |-> IF l[i][1] = "key" THEN <<"key", f[l[i][2]]>> ELSE l[i]]
<1>1. TranslateScopes(l, f) = m /\ DOMAIN m = DOMAIN l
  BY DEF TranslateScopes
<1>2. ASSUME NEW i \in DOMAIN l
      PROVE  (IF m[i][1] = "key" THEN <<"key", g[m[i][2]]>> ELSE m[i]) =
             (IF l[i][1] = "key" THEN <<"key", h[l[i][2]]>> ELSE l[i])
  <2>1. l[i] \in ScopesOver(K) /\ l[i] \in Range(l)
    BY MappedFacts
  <2>2. CASE l[i][1] = "key"
    <3>1. l[i] = <<"key", l[i][2]>> /\ m[i] = <<"key", f[l[i][2]]>>
      BY <2>1, <2>2, ScopeShape
    <3>2. h[l[i][2]] = g[f[l[i][2]]]
      BY <2>1, <3>1
    <3>3. m[i][1] = "key" /\ m[i][2] = f[l[i][2]]
      BY <3>1
    <3> QED BY <2>2, <3>2, <3>3
  <2>3. CASE l[i][1] # "key"
    <3>1. m[i] = l[i]
      BY <2>3
    <3> QED BY <2>3, <3>1
  <2> QED BY <2>2, <2>3
<1> HIDE DEF m
<1>3. TranslateScopes(m, g) = TranslateScopes(l, h)
  BY <1>1, <1>2 DEF TranslateScopes
<1> QED BY <1>1, <1>3

LEMMA TranslateScopesSame ==
    ASSUME NEW K, NEW f, NEW l \in Seq(ScopesOver(K)),
           \A k : <<"key", k>> \in Range(l) => f[k] = k
    PROVE  TranslateScopes(l, f) = l
<1>1. ASSUME NEW i \in DOMAIN l
      PROVE  (IF l[i][1] = "key" THEN <<"key", f[l[i][2]]>> ELSE l[i]) = l[i]
  <2>1. l[i] \in ScopesOver(K) /\ l[i] \in Range(l)
    BY MappedFacts
  <2>2. l[i][1] = "key" => l[i] = <<"key", l[i][2]>>
    BY <2>1, ScopeShape
  <2>3. l[i][1] = "key" => f[l[i][2]] = l[i][2]
    BY <2>1, <2>2
  <2> QED BY <2>2, <2>3
<1>2. TranslateScopes(l, f) = [i \in DOMAIN l |-> l[i]]
  BY <1>1 DEF TranslateScopes
<1>3. l = [i \in DOMAIN l |-> l[i]]
  OBVIOUS
<1> QED BY <1>2, <1>3

\* The predicates, and the operations, one after the other.
EachPredicate(b, f) == [i \in DOMAIN b |-> TranslatePredicate(b[i], f)]
EachOp(e, f) == [i \in DOMAIN e |-> Translate(e[i], f)]

LEMMA EachPredicateType ==
    ASSUME NEW W, NEW V, NEW f, NEW b \in Seq(PredicatesOver(W)),
           \A p \in Range(b) : Suits(PredicateNames(p), f, V)
    PROVE  /\ EachPredicate(b, f) \in Seq(PredicatesOver(V))
           /\ Range(EachPredicate(b, f)) = {TranslatePredicate(p, f) : p \in Range(b)}
<1> DEFINE m == EachPredicate(b, f)
<1>1. /\ Len(b) \in Nat /\ DOMAIN b = 1..Len(b)
      /\ \A i \in DOMAIN b : b[i] \in PredicatesOver(W) /\ b[i] \in Range(b)
      /\ \A x \in Range(b) : \E i \in DOMAIN b : b[i] = x
      /\ \A R, u : u \in [1..Len(b) -> R] => u \in Seq(R) /\ DOMAIN u = DOMAIN b
  BY MappedFacts
<1>2. \A i \in DOMAIN b : TranslatePredicate(b[i], f) \in PredicatesOver(V)
  BY <1>1, TranslatePredicateType
<1>3. m \in [1..Len(b) -> PredicatesOver(V)] /\ \A i \in DOMAIN b : m[i] = TranslatePredicate(b[i], f)
  BY <1>1, <1>2 DEF EachPredicate
<1> HIDE DEF m
<1>4. m \in Seq(PredicatesOver(V)) /\ DOMAIN m = DOMAIN b
  BY <1>1, <1>3
<1>5. \A x \in Range(m) : \E p \in Range(b) : x = TranslatePredicate(p, f)
  BY <1>1, <1>3, <1>4 DEF Range
<1>6. \A p \in Range(b) : TranslatePredicate(p, f) \in Range(m)
  BY <1>1, <1>3, <1>4 DEF Range
<1>7. Range(m) = {TranslatePredicate(p, f) : p \in Range(b)}
  BY <1>5, <1>6
<1> QED BY <1>4, <1>7 DEF m

LEMMA EachOpType ==
    ASSUME NEW W, NEW V, NEW f, NEW e \in Seq(OpsOver(W)), \A op \in Range(e) : Fits(op, f, V)
    PROVE  /\ EachOp(e, f) \in Seq(OpsOver(V))
           /\ Range(EachOp(e, f)) = {Translate(op, f) : op \in Range(e)}
<1> DEFINE m == EachOp(e, f)
<1>1. /\ Len(e) \in Nat /\ DOMAIN e = 1..Len(e)
      /\ \A i \in DOMAIN e : e[i] \in OpsOver(W) /\ e[i] \in Range(e)
      /\ \A x \in Range(e) : \E i \in DOMAIN e : e[i] = x
      /\ \A R, u : u \in [1..Len(e) -> R] => u \in Seq(R) /\ DOMAIN u = DOMAIN e
  BY MappedFacts
<1>2. \A i \in DOMAIN e : Translate(e[i], f) \in OpsOver(V)
  BY <1>1, TranslateType
<1>3. m \in [1..Len(e) -> OpsOver(V)] /\ \A i \in DOMAIN e : m[i] = Translate(e[i], f)
  BY <1>1, <1>2 DEF EachOp
<1> HIDE DEF m
<1>4. m \in Seq(OpsOver(V)) /\ DOMAIN m = DOMAIN e
  BY <1>1, <1>3
<1>5. \A x \in Range(m) : \E op \in Range(e) : x = Translate(op, f)
  BY <1>1, <1>3, <1>4 DEF Range
<1>6. \A op \in Range(e) : Translate(op, f) \in Range(m)
  BY <1>1, <1>3, <1>4 DEF Range
<1>7. Range(m) = {Translate(op, f) : op \in Range(e)}
  BY <1>5, <1>6
<1> QED BY <1>4, <1>7 DEF m

\* What is seen in a rule, and in what replaces it.
IsRuleImage(q, r, f) ==
    /\ Range(Predicates(q)) = {TranslatePredicate(p, f) : p \in Range(Predicates(r))}
    /\ OpsIn(q) = {Translate(op, f) : op \in OpsIn(r)}
    /\ RuleNames(q) = {f[w] : w \in RuleNames(r)}

LEMMA TranslateRuleType ==
    ASSUME NEW W, NEW K, NEW V, NEW L, NEW f, NEW g, NEW r \in RulesIn(W, K),
           Suits(RuleNames(r), f, V), \A k : <<"key", k>> \in Range(r.scopes) => g[k] \in L
    PROVE  /\ r \in RulesOver(W, K) => TranslateRule(r, f, g) \in RulesOver(V, L)
           /\ r \in QueriesOver(W, K) => TranslateRule(r, f, g) \in QueriesOver(V, L)
           /\ TranslateRule(r, f, g) \in RulesIn(V, L)
           /\ IsRuleImage(TranslateRule(r, f, g), r, f)
<1> DEFINE q == TranslateRule(r, f, g)
           Ops(ops) == EachOp(ops, f)
           hd == IF r.head = << >> THEN << >> ELSE TranslatePredicate(r.head, f)
           bd == EachPredicate(r.body, f)
           ex == [i \in DOMAIN r.expressions |-> Ops(r.expressions[i])]
           sc == TranslateScopes(r.scopes, g)
<1>1. q = [head |-> hd, body |-> bd, expressions |-> ex, scopes |-> sc]
  BY DEF TranslateRule, EachPredicate, EachOp
<1>2. /\ r.head = << >> \/ (r.head \in PredicatesOver(W) /\ r.head # << >>)
      /\ r \in RulesOver(W, K) => r.head \in PredicatesOver(W)
      /\ r \in QueriesOver(W, K) => r.head = << >>
      /\ r.body \in Seq(PredicatesOver(W)) /\ r.expressions \in Seq(Seq(OpsOver(W)))
      /\ r.scopes \in Seq(ScopesOver(K))
      /\ Range(Predicates(r)) = (IF r.head = << >> THEN {} ELSE {r.head}) \cup Range(r.body)
  BY RuleShape
<1>3. /\ \A p \in Range(Predicates(r)) : PredicateNames(p) \subseteq RuleNames(r)
      /\ \A op \in OpsIn(r) : Names(op) \subseteq RuleNames(r)
  BY RuleNamesAre
<1>4. /\ \A p \in Range(Predicates(r)) : Suits(PredicateNames(p), f, V)
      /\ \A op \in OpsIn(r) : Fits(op, f, V)
  BY <1>3, SuitsFits DEF Suits
<1>5. bd \in Seq(PredicatesOver(V)) /\ Range(bd) = {TranslatePredicate(p, f) : p \in Range(r.body)}
  <2>1. \A p \in Range(r.body) : Suits(PredicateNames(p), f, V)
    BY <1>2, <1>4
  <2>2. bd \in Seq(PredicatesOver(V))
    BY <1>2, <2>1, EachPredicateType
  <2>3. Range(bd) = {TranslatePredicate(p, f) : p \in Range(r.body)}
    BY <1>2, <2>1, EachPredicateType, ZenonT(60)
  <2> QED BY <2>2, <2>3
<1>6. \A e \in Range(r.expressions) :
         /\ e \in Seq(OpsOver(W)) /\ \A op \in Range(e) : op \in OpsIn(r)
         /\ Ops(e) \in Seq(OpsOver(V)) /\ Range(Ops(e)) = {Translate(op, f) : op \in Range(e)}
  <2>1. \A e \in Range(r.expressions) : e \in Seq(OpsOver(W)) /\ \A op \in Range(e) : op \in OpsIn(r)
    BY RuleShape DEF OpsIn
  <2>2. ASSUME NEW e \in Range(r.expressions)
        PROVE  Ops(e) \in Seq(OpsOver(V)) /\ Range(Ops(e)) = {Translate(op, f) : op \in Range(e)}
    <3>1. e \in Seq(OpsOver(W)) /\ \A op \in Range(e) : Fits(op, f, V)
      BY <1>4, <2>1
    <3>2. Ops(e) \in Seq(OpsOver(V))
      BY <3>1, EachOpType
    <3>3. Range(Ops(e)) = {Translate(op, f) : op \in Range(e)}
      BY <3>1, EachOpType
    <3> QED BY <3>2, <3>3
  <2> QED BY <2>1, <2>2
<1> HIDE DEF Ops
<1>7. /\ ex \in Seq(Seq(OpsOver(V)))
      /\ \A x : x \in Range(ex) <=> \E e \in Range(r.expressions) : x = Ops(e)
  <2>1. /\ Len(r.expressions) \in Nat /\ DOMAIN r.expressions = 1..Len(r.expressions)
        /\ \A i \in DOMAIN r.expressions : r.expressions[i] \in Range(r.expressions)
        /\ \A x \in Range(r.expressions) : \E i \in DOMAIN r.expressions : r.expressions[i] = x
        /\ \A R, u : u \in [1..Len(r.expressions) -> R] => u \in Seq(R) /\ DOMAIN u = DOMAIN r.expressions
    BY <1>2, MappedFacts
  <2>2. ex \in [1..Len(r.expressions) -> Seq(OpsOver(V))]
    BY <1>6, <2>1
  <2>3. \A i \in DOMAIN r.expressions : ex[i] = Ops(r.expressions[i])
    OBVIOUS
  <2> HIDE DEF ex
  <2>4. ex \in Seq(Seq(OpsOver(V))) /\ DOMAIN ex = DOMAIN r.expressions
    BY <2>1, <2>2
  <2>5. \A x \in Range(ex) : \E e \in Range(r.expressions) : x = Ops(e)
    BY <2>1, <2>3, <2>4 DEF Range
  <2>6. \A e \in Range(r.expressions) : Ops(e) \in Range(ex)
    BY <2>1, <2>3, <2>4 DEF Range
  <2> QED BY <2>4, <2>5, <2>6
<1>8. sc \in Seq(ScopesOver(L))
  BY <1>2, TranslateScopesFacts
<1>9. /\ r.head # << >> => hd = TranslatePredicate(r.head, f) /\ hd \in PredicatesOver(V) /\ hd # << >>
      /\ r.head = << >> => hd = << >>
  <2>1. ASSUME r.head # << >> PROVE hd = TranslatePredicate(r.head, f) /\ hd \in PredicatesOver(V) /\ hd # << >>
    <3>1. r.head \in PredicatesOver(W) /\ Suits(PredicateNames(r.head), f, V)
      BY <1>2, <1>4, <2>1
    <3>2. hd = TranslatePredicate(r.head, f)
      BY <2>1
    <3>3. hd \in PredicatesOver(V)
      BY <3>1, <3>2, TranslatePredicateType
    <3> QED BY <3>2, <3>3, PredicateShape
  <2> QED BY <2>1
<1>10. /\ q.head = hd /\ q.body = bd /\ q.expressions = ex /\ q.scopes = sc
  BY <1>1
<1> HIDE DEF hd, bd, ex, sc, q
<1>11. /\ r \in RulesOver(W, K) => q \in RulesOver(V, L)
       /\ r \in QueriesOver(W, K) => q \in QueriesOver(V, L)
  <2>1. ASSUME r \in RulesOver(W, K) PROVE q \in RulesOver(V, L)
    <3>1. r.head # << >>
      BY <1>2, <2>1, PredicateShape
    <3> QED BY <1>1, <1>5, <1>7, <1>8, <1>9, <3>1 DEF RulesOver, RulesWith
  <2>2. ASSUME r \in QueriesOver(W, K) PROVE q \in QueriesOver(V, L)
    BY <1>1, <1>2, <1>5, <1>7, <1>8, <1>9, <2>2 DEF QueriesOver, RulesWith
  <2> QED BY <2>1, <2>2
<1>12. q \in RulesIn(V, L)
  BY <1>11 DEF RulesIn
<1>13. Range(Predicates(q)) = {TranslatePredicate(p, f) : p \in Range(Predicates(r))}
  <2>1. Range(Predicates(q)) = (IF q.head = << >> THEN {} ELSE {q.head}) \cup Range(q.body)
    BY <1>12, RuleShape
  <2>2. CASE r.head = << >>
    BY <1>2, <1>5, <1>9, <1>10, <2>1, <2>2
  <2>3. CASE r.head # << >>
    <3>1. Range(Predicates(q)) = {TranslatePredicate(r.head, f)} \cup {TranslatePredicate(p, f) : p \in Range(r.body)}
      BY <1>5, <1>9, <1>10, <2>1, <2>3
    <3>2. Range(Predicates(r)) = {r.head} \cup Range(r.body)
      BY <1>2, <2>3
    <3> QED BY <3>1, <3>2
  <2> QED BY <2>2, <2>3
<1>14. OpsIn(q) = {Translate(op, f) : op \in OpsIn(r)}
  <2>1. \A x : x \in OpsIn(q) <=> \E e \in Range(ex) : x \in Range(e)
    BY <1>10 DEF OpsIn
  <2>2. \A x : x \in OpsIn(r) <=> \E e \in Range(r.expressions) : x \in Range(e)
    BY DEF OpsIn
  <2>3. ASSUME NEW x \in OpsIn(q) PROVE \E op \in OpsIn(r) : x = Translate(op, f)
    <3>1. PICK e \in Range(r.expressions) : x \in Range(Ops(e))
      BY <1>7, <2>1
    <3>2. PICK op \in Range(e) : x = Translate(op, f)
      BY <1>6, <3>1
    <3> QED BY <2>2, <3>2
  <2>4. ASSUME NEW op \in OpsIn(r) PROVE Translate(op, f) \in OpsIn(q)
    <3>1. PICK e \in Range(r.expressions) : op \in Range(e)
      BY <2>2
    <3>2. Translate(op, f) \in Range(Ops(e)) /\ Ops(e) \in Range(ex)
      BY <1>6, <1>7, <3>1
    <3> QED BY <2>1, <3>2
  <2> QED BY <2>3, <2>4
<1>15. RuleNames(q) = {f[w] : w \in RuleNames(r)}
  <2>1. /\ \A w : w \in RuleNames(q) <=> \/ \E p \in Range(Predicates(q)) : w \in PredicateNames(p)
                                         \/ \E op \in OpsIn(q) : w \in Names(op)
        /\ \A w : w \in RuleNames(r) <=> \/ \E p \in Range(Predicates(r)) : w \in PredicateNames(p)
                                         \/ \E op \in OpsIn(r) : w \in Names(op)
    BY <1>12, RuleNamesAre
  <2>2. \A p \in Range(Predicates(r)) : PredicateNames(TranslatePredicate(p, f)) = {f[w] : w \in PredicateNames(p)}
    <3>1. \A p \in Range(Predicates(r)) : p \in PredicatesOver(W)
      BY RuleShape, MappedFacts
    <3> QED BY <1>4, <3>1, TranslatePredicateType
  <2>3. \A op \in OpsIn(r) : Names(Translate(op, f)) = {f[w] : w \in Names(op)}
    <3>1. \A op \in OpsIn(r) : op \in Nodes(W, MaxNesting)
      BY RuleShape DEF OpsIn
    <3> QED BY <1>4, <3>1, NamesOfTranslate
  <2>4. ASSUME NEW v \in RuleNames(q) PROVE \E w \in RuleNames(r) : v = f[w]
    <3>1. CASE \E p \in Range(Predicates(q)) : v \in PredicateNames(p)
      <4>1. PICK p \in Range(Predicates(r)) : v \in PredicateNames(TranslatePredicate(p, f))
        BY <1>13, <3>1
      <4> QED BY <2>1, <2>2, <4>1
    <3>2. CASE \E op \in OpsIn(q) : v \in Names(op)
      <4>1. PICK op \in OpsIn(r) : v \in Names(Translate(op, f))
        BY <1>14, <3>2
      <4> QED BY <2>1, <2>3, <4>1
    <3> QED BY <2>1, <3>1, <3>2
  <2>5. ASSUME NEW w \in RuleNames(r) PROVE f[w] \in RuleNames(q)
    <3>1. CASE \E p \in Range(Predicates(r)) : w \in PredicateNames(p)
      BY <1>13, <2>1, <2>2, <3>1
    <3>2. CASE \E op \in OpsIn(r) : w \in Names(op)
      BY <1>14, <2>1, <2>3, <3>2
    <3> QED BY <2>1, <3>1, <3>2
  <2> QED BY <2>4, <2>5
<1>16. IsRuleImage(q, r, f)
  BY <1>13, <1>14, <1>15 DEF IsRuleImage
<1> QED BY <1>11, <1>12, <1>16 DEF q

\* A rule from its parts.
LEMMA TranslateRuleIs ==
    ASSUME NEW r, NEW f, NEW g
    PROVE  TranslateRule(r, f, g) =
              [head |-> IF r.head = << >> THEN << >> ELSE TranslatePredicate(r.head, f),
               body |-> EachPredicate(r.body, f),
               expressions |-> [i \in DOMAIN r.expressions |-> EachOp(r.expressions[i], f)],
               scopes |-> TranslateScopes(r.scopes, g)]
BY DEF TranslateRule, EachPredicate, EachOp

LEMMA RuleNamesWithin ==
    ASSUME NEW W, NEW K, NEW r \in RulesIn(W, K)
    PROVE  /\ r.head # << >> => r.head \in PredicatesOver(W) /\ PredicateNames(r.head) \subseteq RuleNames(r)
           /\ \A i \in DOMAIN r.body :
                 r.body[i] \in PredicatesOver(W) /\ PredicateNames(r.body[i]) \subseteq RuleNames(r)
           /\ \A i \in DOMAIN r.expressions : \A j \in DOMAIN r.expressions[i] :
                 /\ r.expressions[i][j] \in OpsIn(r)
                 /\ r.expressions[i][j] \in Nodes(W, MaxNesting)
                 /\ Names(r.expressions[i][j]) \subseteq RuleNames(r)
<1>1. /\ r.head = << >> \/ (r.head \in PredicatesOver(W) /\ r.head # << >>)
      /\ r.body \in Seq(PredicatesOver(W)) /\ r.expressions \in Seq(Seq(OpsOver(W)))
      /\ Range(Predicates(r)) = (IF r.head = << >> THEN {} ELSE {r.head}) \cup Range(r.body)
      /\ \A e \in Range(r.expressions) : \A op \in Range(e) : op \in Nodes(W, MaxNesting)
  BY RuleShape
<1>2. /\ \A p \in Range(Predicates(r)) : PredicateNames(p) \subseteq RuleNames(r)
      /\ \A op \in OpsIn(r) : Names(op) \subseteq RuleNames(r)
  BY RuleNamesAre
<1>3. r.head # << >> => r.head \in PredicatesOver(W) /\ PredicateNames(r.head) \subseteq RuleNames(r)
  BY <1>1, <1>2
<1>4. \A i \in DOMAIN r.body : r.body[i] \in PredicatesOver(W) /\ r.body[i] \in Range(r.body)
  BY <1>1, MappedFacts
<1>5. \A i \in DOMAIN r.expressions : r.expressions[i] \in Range(r.expressions)
  BY DEF Range
<1>6. \A i \in DOMAIN r.expressions : \A j \in DOMAIN r.expressions[i] :
         r.expressions[i][j] \in Range(r.expressions[i])
  BY DEF Range
<1>7. \A i \in DOMAIN r.expressions : \A j \in DOMAIN r.expressions[i] : r.expressions[i][j] \in OpsIn(r)
  BY <1>5, <1>6 DEF OpsIn
<1> QED BY <1>1, <1>2, <1>3, <1>4, <1>5, <1>6, <1>7

LEMMA TranslateRuleTwice ==
    ASSUME NEW W, NEW K, NEW V, NEW f, NEW g, NEW h, NEW f2, NEW g2, NEW h2,
           NEW r \in RulesIn(W, K),
           Suits(RuleNames(r), f, V), \A w \in RuleNames(r) : h[w] = g[f[w]],
           \A k : <<"key", k>> \in Range(r.scopes) => h2[k] = g2[f2[k]]
    PROVE  TranslateRule(TranslateRule(r, f, f2), g, g2) = TranslateRule(r, h, h2)
<1> DEFINE q == TranslateRule(r, f, f2)
           ex == [i \in DOMAIN r.expressions |-> EachOp(r.expressions[i], f)]
<1>1. /\ q.head = IF r.head = << >> THEN << >> ELSE TranslatePredicate(r.head, f)
      /\ q.body = EachPredicate(r.body, f) /\ q.expressions = ex
      /\ q.scopes = TranslateScopes(r.scopes, f2)
  BY TranslateRuleIs
<1>2. TranslateRule(q, g, g2) =
         [head |-> IF q.head = << >> THEN << >> ELSE TranslatePredicate(q.head, g),
          body |-> EachPredicate(q.body, g),
          expressions |-> [i \in DOMAIN q.expressions |-> EachOp(q.expressions[i], g)],
          scopes |-> TranslateScopes(q.scopes, g2)]
  BY TranslateRuleIs
<1>3. TranslateRule(r, h, h2) =
         [head |-> IF r.head = << >> THEN << >> ELSE TranslatePredicate(r.head, h),
          body |-> EachPredicate(r.body, h),
          expressions |-> [i \in DOMAIN r.expressions |-> EachOp(r.expressions[i], h)],
          scopes |-> TranslateScopes(r.scopes, h2)]
  BY TranslateRuleIs
<1> HIDE DEF q
<1>4. \A p \in PredicatesOver(W) : PredicateNames(p) \subseteq RuleNames(r) =>
         /\ TranslatePredicate(TranslatePredicate(p, f), g) = TranslatePredicate(p, h)
         /\ TranslatePredicate(p, f) # << >>
  <2> SUFFICES ASSUME NEW p \in PredicatesOver(W), PredicateNames(p) \subseteq RuleNames(r)
               PROVE  /\ TranslatePredicate(TranslatePredicate(p, f), g) = TranslatePredicate(p, h)
                      /\ TranslatePredicate(p, f) # << >>
    OBVIOUS
  <2>1. Suits(PredicateNames(p), f, V) /\ \A w \in PredicateNames(p) : h[w] = g[f[w]]
    BY DEF Suits
  <2>2. TranslatePredicate(p, f) \in PredicatesOver(V)
    BY <2>1, TranslatePredicateType
  <2> QED BY <2>1, <2>2, TranslatePredicateTwice, PredicateShape
<1>5. (IF q.head = << >> THEN << >> ELSE TranslatePredicate(q.head, g)) =
      (IF r.head = << >> THEN << >> ELSE TranslatePredicate(r.head, h))
  <2>1. CASE r.head = << >>
    BY <1>1, <2>1
  <2>2. CASE r.head # << >>
    <3>1. r.head \in PredicatesOver(W) /\ PredicateNames(r.head) \subseteq RuleNames(r)
      BY <2>2, RuleNamesWithin
    <3>2. q.head = TranslatePredicate(r.head, f) /\ q.head # << >>
      BY <1>1, <1>4, <2>2, <3>1
    <3> QED BY <1>4, <2>2, <3>1, <3>2
  <2> QED BY <2>1, <2>2
<1>6. EachPredicate(q.body, g) = EachPredicate(r.body, h)
  <2>1. DOMAIN q.body = DOMAIN r.body /\ \A i \in DOMAIN r.body : q.body[i] = TranslatePredicate(r.body[i], f)
    BY <1>1 DEF EachPredicate
  <2>2. \A i \in DOMAIN r.body : TranslatePredicate(q.body[i], g) = TranslatePredicate(r.body[i], h)
    BY <1>4, <2>1, RuleNamesWithin
  <2> QED BY <2>1, <2>2 DEF EachPredicate
<1>7. [i \in DOMAIN q.expressions |-> EachOp(q.expressions[i], g)] =
      [i \in DOMAIN r.expressions |-> EachOp(r.expressions[i], h)]
  <2>1. ASSUME NEW i \in DOMAIN r.expressions
        PROVE  EachOp(ex[i], g) = EachOp(r.expressions[i], h)
    <3>1. ex[i] = [j \in DOMAIN r.expressions[i] |-> Translate(r.expressions[i][j], f)]
      BY DEF EachOp
    <3>2. ASSUME NEW j \in DOMAIN r.expressions[i]
          PROVE  Translate(Translate(r.expressions[i][j], f), g) = Translate(r.expressions[i][j], h)
      <4> DEFINE op == r.expressions[i][j]
      <4>1. op \in Nodes(W, MaxNesting) /\ Names(op) \subseteq RuleNames(r)
        BY RuleNamesWithin
      <4> HIDE DEF op
      <4>2. Fits(op, f, V) /\ \A w \in Names(op) : h[w] = g[f[w]]
        BY <4>1, SuitsFits
      <4>3. Translate(Translate(op, f), g) = Translate(op, h)
        BY <4>1, <4>2, TranslateTwice
      <4> QED BY <4>3 DEF op
    <3> QED BY <3>1, <3>2 DEF EachOp
  <2>2. DOMAIN q.expressions = DOMAIN r.expressions /\ q.expressions = ex
    BY <1>1
  <2> HIDE DEF ex
  <2> QED BY <2>1, <2>2
<1>8. TranslateScopes(q.scopes, g2) = TranslateScopes(r.scopes, h2)
  BY <1>1, RuleShape, TranslateScopesTwice
<1> QED BY <1>2, <1>3, <1>5, <1>6, <1>7, <1>8 DEF q

LEMMA TranslateRuleSame ==
    ASSUME NEW W, NEW K, NEW f, NEW g, NEW r \in RulesIn(W, K),
           \A w \in RuleNames(r) : f[w] = w,
           \A k : <<"key", k>> \in Range(r.scopes) => g[k] = k
    PROVE  TranslateRule(r, f, g) = r
<1>1. TranslateRule(r, f, g) =
         [head |-> IF r.head = << >> THEN << >> ELSE TranslatePredicate(r.head, f),
          body |-> EachPredicate(r.body, f),
          expressions |-> [i \in DOMAIN r.expressions |-> EachOp(r.expressions[i], f)],
          scopes |-> TranslateScopes(r.scopes, g)]
  BY TranslateRuleIs
<1>2. /\ r = [head |-> r.head, body |-> r.body, expressions |-> r.expressions, scopes |-> r.scopes]
      /\ r.body \in Seq(PredicatesOver(W)) /\ r.expressions \in Seq(Seq(OpsOver(W)))
      /\ r.scopes \in Seq(ScopesOver(K))
  BY RuleShape
<1>3. \A p \in PredicatesOver(W) : PredicateNames(p) \subseteq RuleNames(r) => TranslatePredicate(p, f) = p
  BY TranslatePredicateSame
<1>4. (IF r.head = << >> THEN << >> ELSE TranslatePredicate(r.head, f)) = r.head
  BY <1>3, RuleNamesWithin
<1>5. EachPredicate(r.body, f) = r.body
  <2>1. \A i \in DOMAIN r.body : TranslatePredicate(r.body[i], f) = r.body[i]
    BY <1>3, RuleNamesWithin
  <2>2. r.body = [i \in DOMAIN r.body |-> r.body[i]]
    BY <1>2
  <2> QED BY <2>1, <2>2 DEF EachPredicate
<1>6. [i \in DOMAIN r.expressions |-> EachOp(r.expressions[i], f)] = r.expressions
  <2>1. ASSUME NEW i \in DOMAIN r.expressions
        PROVE  EachOp(r.expressions[i], f) = r.expressions[i]
    <3>1. \A j \in DOMAIN r.expressions[i] : Translate(r.expressions[i][j], f) = r.expressions[i][j]
      BY RuleNamesWithin, TranslateSame
    <3>2. r.expressions[i] \in Seq(OpsOver(W))
      BY <1>2, MappedFacts
    <3>3. r.expressions[i] = [j \in DOMAIN r.expressions[i] |-> r.expressions[i][j]]
      BY <3>2
    <3> QED BY <3>1, <3>3 DEF EachOp
  <2>2. r.expressions = [i \in DOMAIN r.expressions |-> r.expressions[i]]
    BY <1>2
  <2> QED BY <2>1, <2>2
<1>7. TranslateScopes(r.scopes, g) = r.scopes
  BY <1>2, TranslateScopesSame
<1> QED BY <1>1, <1>2, <1>4, <1>5, <1>6, <1>7

\* Statements.
LEMMA StatementNamesWithin ==
    ASSUME NEW W, NEW K, NEW s \in StatementsOver(W, K)
    PROVE  /\ s[1] = "fact" => s[2] \in PredicatesOver(W) /\ PredicateNames(s[2]) \subseteq StatementNames(s)
           /\ \A r \in Range(Queries(s)) :
                 /\ r \in RulesIn(W, K) /\ RuleNames(r) \subseteq StatementNames(s)
                 /\ \A k : <<"key", k>> \in Range(r.scopes) => k \in StatementKeyNames(s)
           /\ s[1] = "rule" => s[2] \in Range(Queries(s)) /\ s[2] \in RulesOver(W, K)
           /\ s[1] \in {"check", "policy"} =>
                 \A i \in DOMAIN s[3] : s[3][i] \in Range(Queries(s)) /\ s[3][i] \in QueriesOver(W, K)
<1>1. /\ s[1] = "fact" => s[2] \in PredicatesOver(W) /\ s[2] \in Range(Facts(s))
      /\ s[1] = "rule" => s[2] \in Range(Queries(s)) /\ s[2] \in RulesOver(W, K)
      /\ \A r \in Range(Queries(s)) : r \in RulesIn(W, K)
  BY StatementShape
<1>2. ASSUME s[1] \in {"check", "policy"}, NEW i \in DOMAIN s[3]
      PROVE  s[3][i] \in Range(Queries(s)) /\ s[3][i] \in QueriesOver(W, K)
  <2>1. s[3] \in Seq(QueriesOver(W, K)) /\ Range(Queries(s)) = Range(s[3])
    BY <1>2, StatementShape
  <2>2. s[3][i] \in QueriesOver(W, K) /\ s[3][i] \in Range(s[3])
    BY <2>1, MappedFacts
  <2> QED BY <2>1, <2>2
<1>3. /\ \A p \in Range(Facts(s)) : PredicateNames(p) \subseteq StatementNames(s)
      /\ \A r \in Range(Queries(s)) : RuleNames(r) \subseteq StatementNames(s)
  BY StatementNamesAre
<1>4. \A r \in Range(Queries(s)) :
         \A k : <<"key", k>> \in Range(r.scopes) => k \in StatementKeyNames(s)
  BY StatementKeysAre
<1> QED BY <1>1, <1>2, <1>3, <1>4

EachRule(l, f, g) == [i \in DOMAIN l |-> TranslateRule(l[i], f, g)]

LEMMA TranslateStatementIs ==
    ASSUME NEW s, NEW f, NEW g
    PROVE  /\ s[1] = "fact" => TranslateStatement(s, f, g) = <<"fact", TranslatePredicate(s[2], f)>>
           /\ s[1] = "rule" => TranslateStatement(s, f, g) = <<"rule", TranslateRule(s[2], f, g)>>
           /\ s[1] \in {"check", "policy"} =>
                 TranslateStatement(s, f, g) = <<s[1], s[2], EachRule(s[3], f, g)>>
BY DEF TranslateStatement, EachRule

\* What is seen in a statement, and in what replaces it.
IsStatementImage(q, s, f, g) ==
    /\ Range(Facts(q)) = {TranslatePredicate(p, f) : p \in Range(Facts(s))}
    /\ Range(Queries(q)) = {TranslateRule(r, f, g) : r \in Range(Queries(s))}

LEMMA TranslateStatementType ==
    ASSUME NEW W, NEW K, NEW V, NEW L, NEW f, NEW g, NEW s \in StatementsOver(W, K),
           Suits(StatementNames(s), f, V), \A k \in StatementKeyNames(s) : g[k] \in L
    PROVE  /\ TranslateStatement(s, f, g) \in StatementsOver(V, L)
           /\ TranslateStatement(s, f, g)[1] = s[1]
           /\ s[1] \in {"check", "policy"} => TranslateStatement(s, f, g)[2] = s[2]
           /\ IsStatementImage(TranslateStatement(s, f, g), s, f, g)
<1> DEFINE q == TranslateStatement(s, f, g)
<1>1. /\ s[1] \in {"fact", "rule", "check", "policy"}
      /\ s[1] = "fact" => Range(Facts(s)) = {s[2]}
      /\ s[1] # "fact" => Range(Facts(s)) = {}
      /\ s[1] = "fact" => Range(Queries(s)) = {}
      /\ s[1] = "rule" => Range(Queries(s)) = {s[2]}
      /\ s[1] \in {"check", "policy"} => Range(Queries(s)) = Range(s[3]) /\ s[3] \in Seq(QueriesOver(W, K))
      /\ s[1] = "check" => s[2] \in CheckNames
      /\ s[1] = "policy" => s[2] \in PolicyNames
  <2>1. /\ s[1] \in {"fact", "rule", "check", "policy"}
        /\ \A p \in Range(Facts(s)) : s[1] = "fact" /\ p = s[2]
        /\ s[1] = "fact" => s[2] \in Range(Facts(s))
        /\ s[1] = "fact" => Range(Queries(s)) = {}
        /\ s[1] = "rule" => Range(Queries(s)) = {s[2]}
        /\ s[1] \in {"check", "policy"} => Range(Queries(s)) = Range(s[3]) /\ s[3] \in Seq(QueriesOver(W, K))
        /\ s[1] = "check" => s[2] \in CheckNames
        /\ s[1] = "policy" => s[2] \in PolicyNames
    BY StatementShape
  <2> QED BY <2>1
<1>2. /\ s[1] = "fact" => s[2] \in PredicatesOver(W) /\ Suits(PredicateNames(s[2]), f, V)
      /\ \A r \in Range(Queries(s)) :
            /\ r \in RulesIn(W, K) /\ Suits(RuleNames(r), f, V)
            /\ \A k : <<"key", k>> \in Range(r.scopes) => g[k] \in L
  BY StatementNamesWithin DEF Suits
<1>3. \A r \in Range(Queries(s)) :
         /\ r \in RulesOver(W, K) => TranslateRule(r, f, g) \in RulesOver(V, L)
         /\ r \in QueriesOver(W, K) => TranslateRule(r, f, g) \in QueriesOver(V, L)
  BY <1>2, TranslateRuleType
<1>4. CASE s[1] = "fact"
  <2> DEFINE p == TranslatePredicate(s[2], f)
  <2>1. q = <<"fact", p>>
    BY <1>4, TranslateStatementIs
  <2>2. p \in PredicatesOver(V)
    BY <1>2, <1>4, TranslatePredicateType
  <2> HIDE DEF p, q, IsStatementImage
  <2>3. q \in StatementsOver(V, L) /\ q[1] = "fact" /\ q[2] = p
    BY <2>1, <2>2 DEF StatementsOver
  <2>4. Range(Facts(q)) = {p} /\ Range(Queries(q)) = {}
    <3>1. /\ \A x \in Range(Facts(q)) : x = q[2]
          /\ q[2] \in Range(Facts(q)) /\ Range(Queries(q)) = {}
      BY <2>3, StatementShape
    <3> QED BY <2>3, <3>1
  <2> QED BY <1>1, <1>4, <2>3, <2>4 DEF p, q, IsStatementImage
<1>5. CASE s[1] = "rule"
  <2> DEFINE r == TranslateRule(s[2], f, g)
  <2>1. q = <<"rule", r>>
    BY <1>5, TranslateStatementIs
  <2>2. r \in RulesOver(V, L)
    BY <1>3, <1>5, StatementNamesWithin
  <2> HIDE DEF r, q, IsStatementImage
  <2>3. q \in StatementsOver(V, L) /\ q[1] = "rule" /\ q[2] = r
    BY <2>1, <2>2 DEF StatementsOver
  <2>4. Range(Facts(q)) = {} /\ Range(Queries(q)) = {r}
    <3>1. /\ \A x \in Range(Facts(q)) : q[1] = "fact"
          /\ Range(Queries(q)) = {q[2]}
      BY <2>3, StatementShape
    <3> QED BY <2>3, <3>1
  <2> QED BY <1>1, <1>5, <2>3, <2>4 DEF r, q, IsStatementImage
<1>6. CASE s[1] \in {"check", "policy"}
  <2> DEFINE l == EachRule(s[3], f, g)
  <2>1. q = <<s[1], s[2], l>>
    BY <1>6, TranslateStatementIs
  <2>2. /\ Len(s[3]) \in Nat /\ DOMAIN s[3] = 1..Len(s[3])
        /\ \A i \in DOMAIN s[3] : s[3][i] \in Range(s[3])
        /\ \A x \in Range(s[3]) : \E i \in DOMAIN s[3] : s[3][i] = x
        /\ \A R, u : u \in [1..Len(s[3]) -> R] => u \in Seq(R) /\ DOMAIN u = DOMAIN s[3]
    BY <1>1, <1>6, MappedFacts
  <2>3. \A i \in DOMAIN s[3] : TranslateRule(s[3][i], f, g) \in QueriesOver(V, L)
    BY <1>3, <1>6, StatementNamesWithin
  <2>4. l \in [1..Len(s[3]) -> QueriesOver(V, L)]
    BY <2>2, <2>3 DEF EachRule
  <2>5. \A i \in DOMAIN s[3] : l[i] = TranslateRule(s[3][i], f, g)
    BY DEF EachRule
  <2> HIDE DEF l, q
  <2>6. l \in Seq(QueriesOver(V, L)) /\ DOMAIN l = DOMAIN s[3]
    BY <2>2, <2>4
  <2>7. q \in StatementsOver(V, L) /\ q[1] = s[1] /\ q[2] = s[2] /\ q[3] = l
    BY <1>1, <1>6, <2>1, <2>6 DEF StatementsOver
  <2>8. Range(Facts(q)) = {} /\ Range(Queries(q)) = Range(l)
    <3>1. /\ \A x \in Range(Facts(q)) : q[1] = "fact"
          /\ Range(Queries(q)) = Range(q[3])
      BY <1>6, <2>7, StatementShape
    <3> QED BY <1>6, <2>7, <3>1
  <2>9. Range(l) = {TranslateRule(r, f, g) : r \in Range(s[3])}
    <3>1. \A x \in Range(l) : \E r \in Range(s[3]) : x = TranslateRule(r, f, g)
      BY <2>2, <2>5, <2>6 DEF Range
    <3>2. \A r \in Range(s[3]) : TranslateRule(r, f, g) \in Range(l)
      BY <2>2, <2>5, <2>6 DEF Range
    <3> QED BY <3>1, <3>2
  <2> QED BY <1>1, <1>6, <2>7, <2>8, <2>9 DEF q, IsStatementImage
<1> QED BY <1>1, <1>4, <1>5, <1>6

LEMMA NamesOfTranslateStatement ==
    ASSUME NEW W, NEW K, NEW V, NEW L, NEW f, NEW g, NEW s \in StatementsOver(W, K),
           Suits(StatementNames(s), f, V), \A k \in StatementKeyNames(s) : g[k] \in L
    PROVE  /\ TranslateStatement(s, f, g) \in StatementsOver(V, L)
           /\ StatementNames(TranslateStatement(s, f, g)) = {f[w] : w \in StatementNames(s)}
           /\ StatementKeyNames(TranslateStatement(s, f, g)) = {g[k] : k \in StatementKeyNames(s)}
<1> DEFINE q == TranslateStatement(s, f, g)
<1>1. /\ q \in StatementsOver(V, L)
      /\ Range(Facts(q)) = {TranslatePredicate(p, f) : p \in Range(Facts(s))}
      /\ Range(Queries(q)) = {TranslateRule(r, f, g) : r \in Range(Queries(s))}
  <2>1. q \in StatementsOver(V, L)
    BY TranslateStatementType
  <2>2. IsStatementImage(q, s, f, g)
    BY <2>1, TranslateStatementType
  <2> QED BY <2>1, <2>2 DEF IsStatementImage
<1>2. /\ \A p \in Range(Facts(s)) : p \in PredicatesOver(W) /\ Suits(PredicateNames(p), f, V)
      /\ \A r \in Range(Queries(s)) :
            /\ r \in RulesIn(W, K) /\ Suits(RuleNames(r), f, V)
            /\ \A k : <<"key", k>> \in Range(r.scopes) => g[k] \in L
  <2>1. \A p \in Range(Facts(s)) : s[1] = "fact" /\ p = s[2]
    BY StatementShape
  <2>2. /\ s[1] = "fact" => s[2] \in PredicatesOver(W) /\ Suits(PredicateNames(s[2]), f, V)
        /\ \A r \in Range(Queries(s)) :
              /\ r \in RulesIn(W, K) /\ Suits(RuleNames(r), f, V)
              /\ \A k : <<"key", k>> \in Range(r.scopes) => g[k] \in L
    BY StatementNamesWithin DEF Suits
  <2> QED BY <2>1, <2>2
<1>3. \A p \in Range(Facts(s)) : PredicateNames(TranslatePredicate(p, f)) = {f[w] : w \in PredicateNames(p)}
  BY <1>2, TranslatePredicateType
<1>4. \A r \in Range(Queries(s)) : RuleNames(TranslateRule(r, f, g)) = {f[w] : w \in RuleNames(r)}
  <2> SUFFICES ASSUME NEW r \in Range(Queries(s))
               PROVE  IsRuleImage(TranslateRule(r, f, g), r, f)
    BY DEF IsRuleImage
  <2>1. /\ r \in RulesIn(W, K) /\ Suits(RuleNames(r), f, V)
        /\ \A k : <<"key", k>> \in Range(r.scopes) => g[k] \in L
    BY <1>2
  <2>2. TranslateRule(r, f, g) \in RulesIn(V, L)
    BY <2>1, TranslateRuleType
  <2> QED BY ONLY <2>1, <2>2, TranslateRuleType
<1>5. \A r \in Range(Queries(s)) : \A v :
         <<"key", v>> \in Range(TranslateRule(r, f, g).scopes) <=>
            \E k : <<"key", k>> \in Range(r.scopes) /\ v = g[k]
  <2> SUFFICES ASSUME NEW r \in Range(Queries(s)), NEW v
               PROVE  <<"key", v>> \in Range(TranslateRule(r, f, g).scopes) <=>
                         \E k : <<"key", k>> \in Range(r.scopes) /\ v = g[k]
    OBVIOUS
  <2>0. /\ r \in RulesIn(W, K) /\ Suits(RuleNames(r), f, V)
        /\ \A k : <<"key", k>> \in Range(r.scopes) => g[k] \in L
    BY <1>2
  <2>1. TranslateRule(r, f, g).scopes = TranslateScopes(r.scopes, g)
    BY TranslateRuleIs
  <2>2. r.scopes \in Seq(ScopesOver(K))
    BY <2>0, RuleShape
  <2>3. <<"key", v>> \in Range(TranslateScopes(r.scopes, g)) <=>
                         \E k : <<"key", k>> \in Range(r.scopes) /\ v = g[k]
    <3>1. TranslateScopes(r.scopes, g) \in Seq(ScopesOver(L))
      BY ONLY <2>0, <2>2, TranslateScopesFacts
    <3>2. \A x : <<"key", x>> \in Range(TranslateScopes(r.scopes, g)) <=>
                    \E k : <<"key", k>> \in Range(r.scopes) /\ x = g[k]
      BY ONLY <2>0, <2>2, <3>1, TranslateScopesFacts, ZenonT(60)
    <3> QED BY <3>2
  <2> QED BY <2>1, <2>3
<1> HIDE DEF q
<1>6. /\ \A w : w \in StatementNames(q) <=> \/ \E p \in Range(Facts(q)) : w \in PredicateNames(p)
                                            \/ \E r \in Range(Queries(q)) : w \in RuleNames(r)
      /\ \A w : w \in StatementNames(s) <=> \/ \E p \in Range(Facts(s)) : w \in PredicateNames(p)
                                            \/ \E r \in Range(Queries(s)) : w \in RuleNames(r)
      /\ \A k : k \in StatementKeyNames(q) <=> \E r \in Range(Queries(q)) : <<"key", k>> \in Range(r.scopes)
      /\ \A k : k \in StatementKeyNames(s) <=> \E r \in Range(Queries(s)) : <<"key", k>> \in Range(r.scopes)
  BY <1>1, StatementNamesAre, StatementKeysAre
<1>7. ASSUME NEW v \in StatementNames(q) PROVE \E w \in StatementNames(s) : v = f[w]
  <2>1. CASE \E p \in Range(Facts(q)) : v \in PredicateNames(p)
    <3>1. PICK p \in Range(Facts(s)) : v \in PredicateNames(TranslatePredicate(p, f))
      BY <1>1, <2>1
    <3> QED BY <1>3, <1>6, <3>1
  <2>2. CASE \E r \in Range(Queries(q)) : v \in RuleNames(r)
    <3>1. PICK r \in Range(Queries(s)) : v \in RuleNames(TranslateRule(r, f, g))
      BY <1>1, <2>2
    <3> QED BY <1>4, <1>6, <3>1
  <2> QED BY <1>6, <2>1, <2>2
<1>8. ASSUME NEW w \in StatementNames(s) PROVE f[w] \in StatementNames(q)
  <2>1. CASE \E p \in Range(Facts(s)) : w \in PredicateNames(p)
    BY <1>1, <1>3, <1>6, <2>1
  <2>2. CASE \E r \in Range(Queries(s)) : w \in RuleNames(r)
    BY <1>1, <1>4, <1>6, <2>2
  <2> QED BY <1>6, <2>1, <2>2
<1>9. ASSUME NEW v \in StatementKeyNames(q) PROVE \E k \in StatementKeyNames(s) : v = g[k]
  <2>1. PICK r \in Range(Queries(s)) : <<"key", v>> \in Range(TranslateRule(r, f, g).scopes)
    BY <1>1, <1>6
  <2>2. PICK k : <<"key", k>> \in Range(r.scopes) /\ v = g[k]
    BY <1>5, <2>1
  <2> QED BY <1>6, <2>2
<1>10. ASSUME NEW k \in StatementKeyNames(s) PROVE g[k] \in StatementKeyNames(q)
  <2>1. PICK r \in Range(Queries(s)) : <<"key", k>> \in Range(r.scopes)
    BY <1>6
  <2>2. <<"key", g[k]>> \in Range(TranslateRule(r, f, g).scopes) /\ TranslateRule(r, f, g) \in Range(Queries(q))
    BY <1>1, <1>5, <2>1
  <2> QED BY <1>6, <2>2
<1>11. StatementNames(q) = {f[w] : w \in StatementNames(s)}
  BY <1>7, <1>8
<1>12. StatementKeyNames(q) = {g[k] : k \in StatementKeyNames(s)}
  BY <1>9, <1>10
<1> QED BY <1>1, <1>11, <1>12 DEF q

LEMMA TranslateStatementTwice ==
    ASSUME NEW W, NEW K, NEW V, NEW f, NEW g, NEW h, NEW f2, NEW g2, NEW h2,
           NEW s \in StatementsOver(W, K),
           Suits(StatementNames(s), f, V), \A w \in StatementNames(s) : h[w] = g[f[w]],
           \A k \in StatementKeyNames(s) : h2[k] = g2[f2[k]]
    PROVE  TranslateStatement(TranslateStatement(s, f, f2), g, g2) = TranslateStatement(s, h, h2)
<1> DEFINE q == TranslateStatement(s, f, f2)
<1>1. s[1] \in {"fact", "rule", "check", "policy"}
  BY StatementShape
<1>2. \A r \in Range(Queries(s)) : TranslateRule(TranslateRule(r, f, f2), g, g2) = TranslateRule(r, h, h2)
  <2> SUFFICES ASSUME NEW r \in Range(Queries(s))
               PROVE  TranslateRule(TranslateRule(r, f, f2), g, g2) = TranslateRule(r, h, h2)
    OBVIOUS
  <2>1. /\ r \in RulesIn(W, K) /\ RuleNames(r) \subseteq StatementNames(s)
        /\ \A k : <<"key", k>> \in Range(r.scopes) => k \in StatementKeyNames(s)
    BY StatementNamesWithin
  <2>2. /\ Suits(RuleNames(r), f, V) /\ \A w \in RuleNames(r) : h[w] = g[f[w]]
        /\ \A k : <<"key", k>> \in Range(r.scopes) => h2[k] = g2[f2[k]]
    BY <2>1 DEF Suits
  <2> QED BY <2>1, <2>2, TranslateRuleTwice
<1>3. CASE s[1] = "fact"
  <2>1. /\ s[2] \in PredicatesOver(W) /\ Suits(PredicateNames(s[2]), f, V)
        /\ \A w \in PredicateNames(s[2]) : h[w] = g[f[w]]
    BY <1>3, StatementNamesWithin DEF Suits
  <2>2. TranslatePredicate(TranslatePredicate(s[2], f), g) = TranslatePredicate(s[2], h)
    BY <2>1, TranslatePredicateTwice
  <2>3. q = <<"fact", TranslatePredicate(s[2], f)>> /\ q[1] = "fact" /\ q[2] = TranslatePredicate(s[2], f)
    BY <1>3, TranslateStatementIs
  <2> HIDE DEF q
  <2>4. TranslateStatement(q, g, g2) = <<"fact", TranslatePredicate(q[2], g)>>
    BY <2>3, TranslateStatementIs
  <2>5. TranslateStatement(s, h, h2) = <<"fact", TranslatePredicate(s[2], h)>>
    BY <1>3, TranslateStatementIs
  <2> QED BY <2>2, <2>3, <2>4, <2>5 DEF q
<1>4. CASE s[1] = "rule"
  <2>1. TranslateRule(TranslateRule(s[2], f, f2), g, g2) = TranslateRule(s[2], h, h2)
    BY <1>2, <1>4, StatementNamesWithin
  <2>2. q = <<"rule", TranslateRule(s[2], f, f2)>> /\ q[1] = "rule" /\ q[2] = TranslateRule(s[2], f, f2)
    BY <1>4, TranslateStatementIs
  <2> HIDE DEF q
  <2>3. TranslateStatement(q, g, g2) = <<"rule", TranslateRule(q[2], g, g2)>>
    BY <2>2, TranslateStatementIs
  <2>4. TranslateStatement(s, h, h2) = <<"rule", TranslateRule(s[2], h, h2)>>
    BY <1>4, TranslateStatementIs
  <2> QED BY <2>1, <2>2, <2>3, <2>4 DEF q
<1>5. CASE s[1] \in {"check", "policy"}
  <2>1. \A i \in DOMAIN s[3] : TranslateRule(TranslateRule(s[3][i], f, f2), g, g2) = TranslateRule(s[3][i], h, h2)
    BY <1>2, <1>5, StatementNamesWithin
  <2>2. q = <<s[1], s[2], EachRule(s[3], f, f2)>> /\ q[1] = s[1] /\ q[2] = s[2] /\ q[3] = EachRule(s[3], f, f2)
    BY <1>5, TranslateStatementIs
  <2> HIDE DEF q
  <2>3. TranslateStatement(q, g, g2) = <<s[1], s[2], EachRule(q[3], g, g2)>>
    BY <1>5, <2>2, TranslateStatementIs
  <2>4. TranslateStatement(s, h, h2) = <<s[1], s[2], EachRule(s[3], h, h2)>>
    BY <1>5, TranslateStatementIs
  <2>5. EachRule(EachRule(s[3], f, f2), g, g2) = EachRule(s[3], h, h2)
    BY <2>1 DEF EachRule
  <2> QED BY <2>2, <2>3, <2>4, <2>5 DEF q
<1> QED BY <1>1, <1>3, <1>4, <1>5

LEMMA TranslateStatementSame ==
    ASSUME NEW W, NEW K, NEW f, NEW g, NEW s \in StatementsOver(W, K),
           \A w \in StatementNames(s) : f[w] = w, \A k \in StatementKeyNames(s) : g[k] = k
    PROVE  TranslateStatement(s, f, g) = s
<1>1. s[1] \in {"fact", "rule", "check", "policy"}
  BY StatementShape
<1>2. \A r \in Range(Queries(s)) : TranslateRule(r, f, g) = r
  BY StatementNamesWithin, TranslateRuleSame
<1>3. CASE s[1] = "fact"
  <2>1. TranslatePredicate(s[2], f) = s[2]
    BY <1>3, StatementNamesWithin, TranslatePredicateSame
  <2> QED BY <1>3, <2>1, TranslateStatementIs, StatementShape
<1>4. CASE s[1] = "rule"
  <2>1. TranslateRule(s[2], f, g) = s[2]
    BY <1>2, <1>4, StatementNamesWithin
  <2> QED BY <1>4, <2>1, TranslateStatementIs, StatementShape
<1>5. CASE s[1] \in {"check", "policy"}
  <2>1. \A i \in DOMAIN s[3] : TranslateRule(s[3][i], f, g) = s[3][i]
    BY <1>2, <1>5, StatementNamesWithin
  <2>2. s = <<s[1], s[2], s[3]>> /\ s[3] \in Seq(QueriesOver(W, K))
    BY <1>5, StatementShape
  <2>3. s[3] = [i \in DOMAIN s[3] |-> s[3][i]]
    BY <2>2
  <2>4. EachRule(s[3], f, g) = s[3]
    BY <2>1, <2>3 DEF EachRule
  <2>5. TranslateStatement(s, f, g) = <<s[1], s[2], EachRule(s[3], f, g)>>
    BY <1>5, TranslateStatementIs
  <2> QED BY <2>2, <2>4, <2>5
<1> QED BY <1>1, <1>3, <1>4, <1>5

-----------------------------------------------------------------------------
(* Lists of statements, and their passage through a table and back.            *)

NamesOf(S) == UNION {StatementNames(s) : s \in Range(S)}
KeyNamesOf(S) == UNION {StatementKeyNames(s) : s \in Range(S)}
ScopeKeyNames(l) == Range(ScopeKeys(l))

LEMMA NamesOfFacts ==
    ASSUME NEW W, NEW K, NEW S \in Seq(StatementsOver(W, K)), NEW l \in Seq(ScopesOver(K))
    PROVE  /\ AllWords(S) \in Seq(W) /\ Range(AllWords(S)) = NamesOf(S) /\ NamesOf(S) \subseteq W
           /\ AllKeys(S, l) \in Seq(K) /\ Range(AllKeys(S, l)) = KeyNamesOf(S) \cup ScopeKeyNames(l)
           /\ KeyNamesOf(S) \subseteq K
           /\ \A i \in DOMAIN S : /\ S[i] \in StatementsOver(W, K)
                                  /\ StatementNames(S[i]) \subseteq NamesOf(S)
                                  /\ StatementKeyNames(S[i]) \subseteq KeyNamesOf(S)
           /\ \A k : k \in ScopeKeyNames(l) <=> <<"key", k>> \in Range(l)
           /\ ScopeKeys(l) \in Seq(K)
<1>1. /\ AllWords(S) \in Seq(W) /\ AllKeys(S, l) \in Seq(K)
      /\ \A w : w \in Range(AllWords(S)) <=> \E s \in Range(S) : w \in StatementNames(s)
      /\ \A k : k \in Range(AllKeys(S, l)) <=> \/ \E s \in Range(S) : k \in StatementKeyNames(s)
                                               \/ <<"key", k>> \in Range(l)
  BY AllNamesAre
<1>2. \A k : k \in ScopeKeyNames(l) <=> <<"key", k>> \in Range(l)
  BY ScopeKeysAre DEF ScopeKeyNames
<1>3. ScopeKeys(l) \in Seq(K)
  BY ScopeKeysAre
<1>4. Range(AllWords(S)) = NamesOf(S)
  BY <1>1 DEF NamesOf
<1>5. Range(AllKeys(S, l)) = KeyNamesOf(S) \cup ScopeKeyNames(l)
  BY <1>1, <1>2 DEF KeyNamesOf
<1>6. NamesOf(S) \subseteq W /\ KeyNamesOf(S) \subseteq K
  <2>1. \A A : \A t \in Seq(A) : Range(t) \subseteq A
    BY MappedFacts
  <2> QED BY <1>1, <1>4, <1>5, <2>1
<1>7. \A i \in DOMAIN S : /\ S[i] \in StatementsOver(W, K)
                          /\ StatementNames(S[i]) \subseteq NamesOf(S)
                          /\ StatementKeyNames(S[i]) \subseteq KeyNamesOf(S)
  BY MappedFacts DEF NamesOf, KeyNamesOf
<1> QED BY <1>1, <1>2, <1>3, <1>4, <1>5, <1>6, <1>7

LEMMA NamesInList ==
    ASSUME NEW W, NEW K, NEW S \in Seq(StatementsOver(W, K)), NEW i \in DOMAIN S
    PROVE  /\ S[i] \in StatementsOver(W, K)
           /\ StatementNames(S[i]) \subseteq NamesOf(S)
           /\ StatementKeyNames(S[i]) \subseteq KeyNamesOf(S)
  BY MappedFacts DEF NamesOf, KeyNamesOf

LEMMA TranslateAllType ==
    ASSUME NEW W, NEW K, NEW V, NEW L, NEW f, NEW g, NEW S \in Seq(StatementsOver(W, K)),
           Suits(NamesOf(S), f, V), \A k \in KeyNamesOf(S) : g[k] \in L
    PROVE  /\ TranslateAll(S, f, g) \in Seq(StatementsOver(V, L))
           /\ DOMAIN TranslateAll(S, f, g) = DOMAIN S
           /\ \A i \in DOMAIN S : TranslateAll(S, f, g)[i] = TranslateStatement(S[i], f, g)
           /\ \A w \in NamesOf(S) : f[w] \in NamesOf(TranslateAll(S, f, g))
           /\ \A k \in KeyNamesOf(S) : g[k] \in KeyNamesOf(TranslateAll(S, f, g))
<1> DEFINE q == TranslateAll(S, f, g)
<1>1. \A i \in DOMAIN S : /\ S[i] \in StatementsOver(W, K)
                          /\ Suits(StatementNames(S[i]), f, V)
                          /\ \A k \in StatementKeyNames(S[i]) : g[k] \in L
  BY NamesInList DEF Suits
<1>2. ASSUME NEW i \in DOMAIN S
      PROVE  TranslateStatement(S[i], f, g) \in StatementsOver(V, L)
  BY <1>1, TranslateStatementType
<1>3. ASSUME NEW i \in DOMAIN S
      PROVE  /\ \A v : v \in StatementNames(TranslateStatement(S[i], f, g))
                         <=> \E w \in StatementNames(S[i]) : v = f[w]
             /\ \A v : v \in StatementKeyNames(TranslateStatement(S[i], f, g))
                         <=> \E k \in StatementKeyNames(S[i]) : v = g[k]
  <2>1. TranslateStatement(S[i], f, g) \in StatementsOver(V, L)
    BY <1>2
  <2> DEFINE s == S[i]
  <2>2. /\ s \in StatementsOver(W, K) /\ Suits(StatementNames(s), f, V)
        /\ \A k \in StatementKeyNames(s) : g[k] \in L
        /\ TranslateStatement(s, f, g) \in StatementsOver(V, L)
    BY <1>1, <2>1
  <2> HIDE DEF s
  <2>3. \A v : v \in StatementNames(TranslateStatement(s, f, g)) <=> \E w \in StatementNames(s) : v = f[w]
    BY ONLY <2>2, NamesOfTranslateStatement
  <2>4. \A v : v \in StatementKeyNames(TranslateStatement(s, f, g)) <=> \E k \in StatementKeyNames(s) : v = g[k]
    BY ONLY <2>2, NamesOfTranslateStatement
  <2> QED BY <2>3, <2>4 DEF s
<1>4. Len(S) \in Nat /\ DOMAIN S = 1..Len(S)
  BY MappedFacts
<1>5. q = [i \in 1..Len(S) |-> TranslateStatement(S[i], f, g)]
  BY <1>4 DEF TranslateAll
<1>6. \A i \in DOMAIN S : q[i] = TranslateStatement(S[i], f, g)
  BY <1>4, <1>5
<1>7. q \in [1..Len(S) -> StatementsOver(V, L)]
  BY <1>2, <1>4, <1>5
<1>8. q \in Seq(StatementsOver(V, L)) /\ DOMAIN q = DOMAIN S
  BY <1>7, MappedFacts
<1> HIDE DEF q
<1>9. Range(q) = {q[i] : i \in DOMAIN S} /\ Range(S) = {S[i] : i \in DOMAIN S}
  BY <1>8 DEF Range
<1>10. \A w \in NamesOf(S) : f[w] \in NamesOf(q)
  <2>1. \A i \in DOMAIN S : \A v : v \in StatementNames(q[i]) <=> \E w \in StatementNames(S[i]) : v = f[w]
    BY <1>3, <1>6
  <2>2. \A v : v \in NamesOf(q) <=> \E i \in DOMAIN S : v \in StatementNames(q[i])
    BY <1>9 DEF NamesOf
  <2>3. \A w : w \in NamesOf(S) <=> \E i \in DOMAIN S : w \in StatementNames(S[i])
    BY <1>9 DEF NamesOf
  <2>4. ASSUME NEW w \in NamesOf(S) PROVE f[w] \in NamesOf(q)
    <3>1. PICK i \in DOMAIN S : w \in StatementNames(S[i])
      BY <2>3
    <3>2. f[w] \in StatementNames(q[i])
      BY <2>1, <3>1
    <3> QED BY <2>2, <3>2
  <2> QED BY <2>4
<1>11. \A k \in KeyNamesOf(S) : g[k] \in KeyNamesOf(q)
  <2>1. \A i \in DOMAIN S : \A v : v \in StatementKeyNames(q[i]) <=> \E w \in StatementKeyNames(S[i]) : v = g[w]
    BY <1>3, <1>6
  <2>2. \A v : v \in KeyNamesOf(q) <=> \E i \in DOMAIN S : v \in StatementKeyNames(q[i])
    BY <1>9 DEF KeyNamesOf
  <2>3. \A w : w \in KeyNamesOf(S) <=> \E i \in DOMAIN S : w \in StatementKeyNames(S[i])
    BY <1>9 DEF KeyNamesOf
  <2>4. ASSUME NEW w \in KeyNamesOf(S) PROVE g[w] \in KeyNamesOf(q)
    <3>1. PICK i \in DOMAIN S : w \in StatementKeyNames(S[i])
      BY <2>3
    <3>2. g[w] \in StatementKeyNames(q[i])
      BY <2>1, <3>1
    <3> QED BY <2>2, <3>2
  <2> QED BY <2>4
<1> QED BY <1>6, <1>8, <1>10, <1>11 DEF q

LEMMA TranslateAllTwice ==
    ASSUME NEW W, NEW K, NEW V, NEW f, NEW g, NEW h, NEW f2, NEW g2, NEW h2,
           NEW S \in Seq(StatementsOver(W, K)),
           Suits(NamesOf(S), f, V), \A w \in NamesOf(S) : h[w] = g[f[w]],
           \A k \in KeyNamesOf(S) : h2[k] = g2[f2[k]]
    PROVE  TranslateAll(TranslateAll(S, f, f2), g, g2) = TranslateAll(S, h, h2)
<1>1. ASSUME NEW i \in DOMAIN S
      PROVE  TranslateStatement(TranslateStatement(S[i], f, f2), g, g2) = TranslateStatement(S[i], h, h2)
  <2>2. /\ S[i] \in StatementsOver(W, K)
        /\ StatementNames(S[i]) \subseteq NamesOf(S)
        /\ StatementKeyNames(S[i]) \subseteq KeyNamesOf(S)
    BY NamesInList
  <2>3. Suits(StatementNames(S[i]), f, V)
    BY <2>2 DEF Suits
  <2> QED BY <2>2, <2>3, TranslateStatementTwice
<1> QED BY <1>1 DEF TranslateAll

LEMMA TranslateAllSame ==
    ASSUME NEW W, NEW K, NEW f, NEW g, NEW S \in Seq(StatementsOver(W, K)),
           \A w \in NamesOf(S) : f[w] = w, \A k \in KeyNamesOf(S) : g[k] = k
    PROVE  TranslateAll(S, f, g) = S
<1>1. ASSUME NEW i \in DOMAIN S PROVE TranslateStatement(S[i], f, g) = S[i]
  <2>2. /\ S[i] \in StatementsOver(W, K)
        /\ StatementNames(S[i]) \subseteq NamesOf(S)
        /\ StatementKeyNames(S[i]) \subseteq KeyNamesOf(S)
    BY NamesInList
  <2> QED BY <2>2, TranslateStatementSame
<1>2. S = [i \in DOMAIN S |-> S[i]]
  OBVIOUS
<1> QED BY <1>1, <1>2 DEF TranslateAll

LEMMA IndexSuits ==
    ASSUME NEW A, NEW T \in Seq(A), NEW N \in SUBSET Range(T)
    PROVE  /\ Suits(N, IndexIn(T), DOMAIN T)
           /\ \A w \in N : IndexIn(T)[w] \in DOMAIN T /\ T[IndexIn(T)[w]] = w
<1>1. \A w \in N : IndexIn(T)[w] \in DOMAIN T /\ T[IndexIn(T)[w]] = w
  BY IndexFacts
<1>2. Suits(N, IndexIn(T), DOMAIN T)
  BY <1>1 DEF Suits
<1> QED BY <1>1, <1>2

\* What is written with the indices of two tables is read back with them.
LEMMA ReadBack ==
    ASSUME NEW W, NEW K, NEW A, NEW B, NEW S \in Seq(StatementsOver(W, K)),
           NEW T \in Seq(A), NEW KT \in Seq(B),
           NamesOf(S) \subseteq Range(T), KeyNamesOf(S) \subseteq Range(KT)
    PROVE  /\ Suits(NamesOf(S), IndexIn(T), DOMAIN T)
           /\ TranslateAll(S, IndexIn(T), IndexIn(KT)) \in Seq(StatementsOver(DOMAIN T, DOMAIN KT))
           /\ TranslateAll(TranslateAll(S, IndexIn(T), IndexIn(KT)), T, KT) = S
<1> DEFINE f == IndexIn(T)
           g == IndexIn(KT)
<1>1. Suits(NamesOf(S), f, DOMAIN T) /\ \A w \in NamesOf(S) : T[f[w]] = w
  BY IndexSuits
<1>2. \A k \in KeyNamesOf(S) : g[k] \in DOMAIN KT /\ KT[g[k]] = k
  BY IndexSuits
<1> DEFINE h == [w \in NamesOf(S) |-> w]
           h2 == [k \in KeyNamesOf(S) |-> k]
<1>3. /\ \A w \in NamesOf(S) : h[w] = w /\ h[w] = T[f[w]]
      /\ \A k \in KeyNamesOf(S) : h2[k] = k /\ h2[k] = KT[g[k]]
  BY <1>1, <1>2
<1> HIDE DEF f, g, h, h2
<1>4. TranslateAll(S, f, g) \in Seq(StatementsOver(DOMAIN T, DOMAIN KT))
  BY <1>1, <1>2, TranslateAllType
<1>5. TranslateAll(TranslateAll(S, f, g), T, KT) = TranslateAll(S, h, h2)
  BY <1>1, <1>3, TranslateAllTwice
<1>6. TranslateAll(S, h, h2) = S
  BY <1>3, TranslateAllSame
<1> QED BY <1>1, <1>4, <1>5, <1>6 DEF f, g

LEMMA ScopesReadBack ==
    ASSUME NEW K, NEW B, NEW l \in Seq(ScopesOver(K)), NEW KT \in Seq(B),
           ScopeKeyNames(l) \subseteq Range(KT)
    PROVE  /\ TranslateScopes(l, IndexIn(KT)) \in Seq(ScopesOver(DOMAIN KT))
           /\ TranslateScopes(TranslateScopes(l, IndexIn(KT)), KT) = l
<1> DEFINE g == IndexIn(KT)
<1>1. \A k \in ScopeKeyNames(l) : g[k] \in DOMAIN KT /\ KT[g[k]] = k
  BY IndexSuits
<1>2. \A k : k \in ScopeKeyNames(l) <=> <<"key", k>> \in Range(l)
  BY ScopeKeysAre DEF ScopeKeyNames
<1> DEFINE h == [k \in ScopeKeyNames(l) |-> k]
<1>3. /\ \A k : <<"key", k>> \in Range(l) => g[k] \in DOMAIN KT /\ h[k] = k /\ h[k] = KT[g[k]]
  BY <1>1, <1>2
<1> HIDE DEF g, h
<1>4. TranslateScopes(l, g) \in Seq(ScopesOver(DOMAIN KT))
  BY <1>3, TranslateScopesFacts
<1>5. TranslateScopes(TranslateScopes(l, g), KT) = TranslateScopes(l, h)
  BY <1>3, TranslateScopesTwice
<1>6. TranslateScopes(l, h) = l
  BY <1>3, TranslateScopesSame
<1> QED BY <1>4, <1>5, <1>6 DEF g

-----------------------------------------------------------------------------
(* The wire: what is sent is read as it was.                                   *)

NoParameters(l) == \A sc \in Range(l) : sc[1] # "param"

LEMMA PredicateOnWire ==
    ASSUME NEW W, NEW p \in PredicatesOver(W)
    PROVE  /\ proto_predicate_to_token_predicate(token_predicate_to_proto_predicate(p)) = p
           /\ token_predicate_to_proto_predicate(p) # << >>
           /\ DecodablePredicate(token_predicate_to_proto_predicate(p))
                 <=> \A t \in Range(p[3]) : Even(t)
<1> DEFINE q == token_predicate_to_proto_predicate(p)
           u == [i \in DOMAIN p[3] |-> ToProto(p[3][i])]
<1>1. /\ p = <<"predicate", p[2], p[3]>> /\ p[3] \in Seq(TermsOver(W))
      /\ \A t \in Range(p[3]) : t \in Nodes(W, MaxNesting)
  BY PredicateShape
<1>2. \A i \in DOMAIN p[3] : p[3][i] \in Range(p[3])
  BY DEF Range
<1>3. q = <<"predicate", p[2], u>>
  BY <1>1 DEF token_predicate_to_proto_predicate, token_term_to_proto_id
<1>4. \A i \in DOMAIN p[3] : FromProto(u[i]) = p[3][i]
  BY <1>1, <1>2, FromToProto
<1>5. DOMAIN u = DOMAIN p[3]
  OBVIOUS
<1>6. Range(u) = {ToProto(t) : t \in Range(p[3])}
  BY DEF Range
<1> HIDE DEF u
<1>7. q[1] = "predicate" /\ q[2] = p[2] /\ q[3] = u
  BY <1>3
<1>8. [i \in DOMAIN u |-> FromProto(u[i])] = p[3]
  <2>1. p[3] = [i \in DOMAIN p[3] |-> p[3][i]]
    BY <1>1
  <2> QED BY <1>4, <1>5, <2>1
<1>9. proto_predicate_to_token_predicate(q) = p
  BY <1>1, <1>7, <1>8 DEF proto_predicate_to_token_predicate, proto_id_to_token_term
<1>10. q # << >>
  <2>1. Len(q) = 3 /\ Len(<< >>) = 0
    BY <1>3
  <2> QED BY <2>1
<1>11. DecodablePredicate(q) <=> \A t \in Range(p[3]) : Even(t)
  <2>1. DecodablePredicate(q) <=> \A t \in Range(u) : Decodable(t)
    BY <1>7 DEF DecodablePredicate
  <2>2. \A t \in Range(p[3]) : Decodable(ToProto(t)) <=> Even(t)
    BY <1>1, DecodableIs
  <2> QED BY <1>6, <2>1, <2>2
<1> QED BY <1>9, <1>10, <1>11

EachToProto(l) == [i \in DOMAIN l |-> token_scope_to_proto_scope(l[i])]
EachFromProto(l) == [i \in DOMAIN l |-> proto_scope_to_token_scope(l[i])]

LEMMA ScopesOnWire ==
    ASSUME NEW K, NEW l \in Seq(ScopesOver(K)), NoParameters(l)
    PROVE  /\ EachFromProto(EachToProto(l)) = l
           /\ EachToProto(l) = << >> <=> l = << >>
<1>1. ASSUME NEW sc \in ScopesOver(K), sc[1] # "param"
      PROVE  proto_scope_to_token_scope(token_scope_to_proto_scope(sc)) = sc
  <2>1. CASE sc = TrustAuthority
    <3>0. TrustPrevious # TrustAuthority
      BY DEF TrustPrevious, TrustAuthority
    <3>1. token_scope_to_proto_scope(sc) = <<"type", 0>>
      BY <2>1, <3>0 DEF token_scope_to_proto_scope
    <3> QED BY <2>1, <3>1 DEF proto_scope_to_token_scope
  <2>2. CASE sc = TrustPrevious
    <3>1. TrustPrevious # TrustAuthority
      BY DEF TrustPrevious, TrustAuthority
    <3>2. token_scope_to_proto_scope(sc) = <<"type", 1>>
      BY <2>2, <3>1 DEF token_scope_to_proto_scope
    <3>3. <<"type", 1>> # <<"type", 0>>
      OBVIOUS
    <3> QED BY <2>2, <3>2, <3>3 DEF proto_scope_to_token_scope
  <2>3. CASE sc \notin {TrustAuthority, TrustPrevious}
    <3>1. sc[1] = "key" /\ sc = <<"key", sc[2]>>
      BY <1>1, <2>3, ScopeShape
    <3>2. token_scope_to_proto_scope(sc) = <<"public_key", sc[2]>>
      BY <2>3 DEF token_scope_to_proto_scope
    <3> DEFINE q == <<"public_key", sc[2]>>
    <3>3. q # <<"type", 0>> /\ q # <<"type", 1>> /\ q[2] = sc[2]
      OBVIOUS
    <3>4. proto_scope_to_token_scope(q) = <<"key", q[2]>>
      BY <3>3 DEF proto_scope_to_token_scope
    <3> QED BY <3>1, <3>2, <3>3, <3>4
  <2> QED BY <2>1, <2>2, <2>3
<1>2. \A i \in DOMAIN l : l[i] \in ScopesOver(K) /\ l[i][1] # "param"
  BY MappedFacts DEF NoParameters
<1>3. l = [i \in DOMAIN l |-> l[i]]
  OBVIOUS
<1>4. EachFromProto(EachToProto(l)) = l
  BY <1>1, <1>2, <1>3 DEF EachFromProto, EachToProto
<1>5. EachToProto(l) = << >> <=> l = << >>
  <2>1. DOMAIN EachToProto(l) = DOMAIN l
    BY DEF EachToProto
  <2>2. l = << >> <=> DOMAIN l = {}
    OBVIOUS
  <2>3. EachToProto(l) = << >> <=> DOMAIN EachToProto(l) = {}
    BY DEF EachToProto
  <2> QED BY <2>1, <2>2, <2>3
<1> QED BY <1>4, <1>5

EachSent(b) == [i \in DOMAIN b |-> token_predicate_to_proto_predicate(b[i])]
EachOpSent(e) == [i \in DOMAIN e |-> ToProto(e[i])]
EachExpressionSent(x) == [i \in DOMAIN x |-> EachOpSent(x[i])]

LEMMA SentRuleIs ==
    ASSUME NEW W, NEW K, NEW r \in RulesIn(W, K)
    PROVE  token_rule_to_proto_rule(r) =
              [head |-> IF r.head = << >> THEN << >> ELSE token_predicate_to_proto_predicate(r.head),
               body |-> EachSent(r.body), expressions |-> EachExpressionSent(r.expressions),
               scopes |-> EachToProto(r.scopes)]
<1> DEFINE Sent(p) == IF p = << >> THEN p ELSE token_predicate_to_proto_predicate(p)
<1>1. \A i \in DOMAIN r.body : r.body[i] # << >>
  <2>1. r.body \in Seq(PredicatesOver(W))
    BY RuleShape
  <2>2. \A i \in DOMAIN r.body : r.body[i] \in PredicatesOver(W)
    BY <2>1, MappedFacts
  <2> QED BY <2>2, PredicateShape
<1>2. [i \in DOMAIN r.body |-> Sent(r.body[i])] = EachSent(r.body)
  BY <1>1 DEF EachSent
<1>3. Sent(r.head) = IF r.head = << >> THEN << >> ELSE token_predicate_to_proto_predicate(r.head)
  OBVIOUS
<1>4. [i \in DOMAIN r.expressions |->
          [j \in DOMAIN r.expressions[i] |-> token_op_to_proto_op(r.expressions[i][j])]]
        = EachExpressionSent(r.expressions)
  BY DEF EachExpressionSent, EachOpSent, token_op_to_proto_op
<1>5. [i \in DOMAIN r.scopes |-> token_scope_to_proto_scope(r.scopes[i])] = EachToProto(r.scopes)
  BY DEF EachToProto
<1>6. token_rule_to_proto_rule(r) =
         [head |-> Sent(r.head), body |-> [i \in DOMAIN r.body |-> Sent(r.body[i])],
          expressions |-> [i \in DOMAIN r.expressions |->
             [j \in DOMAIN r.expressions[i] |-> token_op_to_proto_op(r.expressions[i][j])]],
          scopes |-> [i \in DOMAIN r.scopes |-> token_scope_to_proto_scope(r.scopes[i])]]
  BY DEF token_rule_to_proto_rule
<1> HIDE DEF Sent
<1> QED BY <1>2, <1>3, <1>4, <1>5, <1>6

EachRead(b) == [i \in DOMAIN b |-> proto_predicate_to_token_predicate(b[i])]
EachOpRead(e) == [i \in DOMAIN e |-> FromProto(e[i])]
EachExpressionRead(x) == [i \in DOMAIN x |-> EachOpRead(x[i])]

LEMMA ReadRuleIs ==
    ASSUME NEW q, \A i \in DOMAIN q.body : q.body[i] # << >>
    PROVE  proto_rule_to_token_rule(q) =
              [head |-> IF q.head = << >> THEN << >> ELSE proto_predicate_to_token_predicate(q.head),
               body |-> EachRead(q.body), expressions |-> EachExpressionRead(q.expressions),
               scopes |-> EachFromProto(q.scopes)]
<1> DEFINE Read1(p) == IF p = << >> THEN p ELSE proto_predicate_to_token_predicate(p)
<1>2. [i \in DOMAIN q.body |-> Read1(q.body[i])] = EachRead(q.body)
  BY DEF EachRead
<1>3. Read1(q.head) = IF q.head = << >> THEN << >> ELSE proto_predicate_to_token_predicate(q.head)
  OBVIOUS
<1>4. [i \in DOMAIN q.expressions |->
          [j \in DOMAIN q.expressions[i] |-> proto_op_to_token_op(q.expressions[i][j])]]
        = EachExpressionRead(q.expressions)
  BY DEF EachExpressionRead, EachOpRead, proto_op_to_token_op
<1>5. [i \in DOMAIN q.scopes |-> proto_scope_to_token_scope(q.scopes[i])] = EachFromProto(q.scopes)
  BY DEF EachFromProto
<1>6. proto_rule_to_token_rule(q) =
         [head |-> Read1(q.head), body |-> [i \in DOMAIN q.body |-> Read1(q.body[i])],
          expressions |-> [i \in DOMAIN q.expressions |->
             [j \in DOMAIN q.expressions[i] |-> proto_op_to_token_op(q.expressions[i][j])]],
          scopes |-> [i \in DOMAIN q.scopes |-> proto_scope_to_token_scope(q.scopes[i])]]
  BY DEF proto_rule_to_token_rule
<1> HIDE DEF Read1
<1> QED BY <1>2, <1>3, <1>4, <1>5, <1>6

RuleTerms(r) == UNION {Range(p[3]) : p \in Range(Predicates(r))}

LEMMA RuleOnWire ==
    ASSUME NEW W, NEW K, NEW r \in RulesIn(W, K), NoParameters(r.scopes)
    PROVE  /\ proto_rule_to_token_rule(token_rule_to_proto_rule(r)) = r
           /\ \A declared :
                 DecodableRule(token_rule_to_proto_rule(r), declared) <=>
                    /\ \A x \in RuleTerms(r) \cup OpsIn(r) : Even(x)
                    /\ declared < DATALOG_3_1 => r.scopes = << >>
<1> DEFINE q == token_rule_to_proto_rule(r)
           To(p) == token_predicate_to_proto_predicate(p)
           Sent == {To(p) : p \in PredicatesOver(W)}
<1>1. /\ r = [head |-> r.head, body |-> r.body, expressions |-> r.expressions, scopes |-> r.scopes]
      /\ r.head = << >> \/ (r.head \in PredicatesOver(W) /\ r.head # << >>)
      /\ r.body \in Seq(PredicatesOver(W)) /\ r.expressions \in Seq(Seq(OpsOver(W)))
      /\ r.scopes \in Seq(ScopesOver(K))
      /\ Range(Predicates(r)) = (IF r.head = << >> THEN {} ELSE {r.head}) \cup Range(r.body)
      /\ \A e \in Range(r.expressions) :
            e \in Seq(OpsOver(W)) /\ \A op \in Range(e) : op \in Nodes(W, MaxNesting)
  BY RuleShape
<1>2. /\ q.head = IF r.head = << >> THEN << >> ELSE To(r.head)
      /\ q.body = EachSent(r.body)
      /\ q.expressions = EachExpressionSent(r.expressions)
      /\ q.scopes = EachToProto(r.scopes)
  BY SentRuleIs
<1> HIDE DEF q
<1>3. \A p \in PredicatesOver(W) :
         /\ proto_predicate_to_token_predicate(To(p)) = p /\ To(p) # << >>
         /\ DecodablePredicate(To(p)) <=> \A t \in Range(p[3]) : Even(t)
  BY PredicateOnWire
<1> HIDE DEF To
<1>4. \A i \in DOMAIN r.body : r.body[i] \in PredicatesOver(W) /\ r.body[i] \in Range(r.body)
  BY <1>1, MappedFacts
<1>5. DOMAIN q.body = DOMAIN r.body /\ \A i \in DOMAIN r.body : q.body[i] = To(r.body[i])
  BY <1>2 DEF EachSent, To
<1>6. EachRead(q.body) = r.body
  <2>1. \A i \in DOMAIN r.body : proto_predicate_to_token_predicate(q.body[i]) = r.body[i]
    BY <1>3, <1>4, <1>5
  <2>2. r.body = [i \in DOMAIN r.body |-> r.body[i]]
    BY <1>1
  <2> QED BY <1>5, <2>1, <2>2 DEF EachRead
<1>7. /\ DOMAIN q.expressions = DOMAIN r.expressions
      /\ \A i \in DOMAIN r.expressions : q.expressions[i] = EachOpSent(r.expressions[i])
  BY <1>2 DEF EachExpressionSent
<1>8. \A e \in Range(r.expressions) : EachOpRead(EachOpSent(e)) = e
  <2> SUFFICES ASSUME NEW e \in Range(r.expressions) PROVE EachOpRead(EachOpSent(e)) = e
    OBVIOUS
  <2>1. e \in Seq(OpsOver(W)) /\ \A i \in DOMAIN e : e[i] \in Nodes(W, MaxNesting)
    BY <1>1 DEF Range
  <2>2. \A i \in DOMAIN e : FromProto(ToProto(e[i])) = e[i]
    BY <2>1, FromToProto
  <2>3. e = [i \in DOMAIN e |-> e[i]]
    BY <2>1
  <2> QED BY <2>2, <2>3 DEF EachOpRead, EachOpSent
<1>9. EachExpressionRead(q.expressions) = r.expressions
  <2>1. \A i \in DOMAIN r.expressions : r.expressions[i] \in Range(r.expressions)
    BY DEF Range
  <2>2. \A i \in DOMAIN r.expressions : EachOpRead(q.expressions[i]) = r.expressions[i]
    BY <1>7, <1>8, <2>1
  <2>3. r.expressions = [i \in DOMAIN r.expressions |-> r.expressions[i]]
    BY <1>1
  <2> QED BY <1>7, <2>2, <2>3 DEF EachExpressionRead
<1>10. EachFromProto(q.scopes) = r.scopes /\ (q.scopes = << >> <=> r.scopes = << >>)
  BY <1>1, <1>2, ScopesOnWire
<1>11. proto_rule_to_token_rule(q) = r
  <2>1. \A i \in DOMAIN q.body : q.body[i] # << >>
    BY <1>3, <1>4, <1>5
  <2>2. proto_rule_to_token_rule(q) =
              [head |-> IF q.head = << >> THEN << >> ELSE proto_predicate_to_token_predicate(q.head),
               body |-> EachRead(q.body), expressions |-> EachExpressionRead(q.expressions),
               scopes |-> EachFromProto(q.scopes)]
    BY <2>1, ReadRuleIs
  <2>3. (IF q.head = << >> THEN << >> ELSE proto_predicate_to_token_predicate(q.head)) = r.head
    BY <1>1, <1>2, <1>3
  <2> QED BY <1>1, <1>6, <1>9, <1>10, <2>2, <2>3
<1>12. Range(Predicates(q)) = {To(p) : p \in Range(Predicates(r))}
  <2>1. Range(q.body) = {To(p) : p \in Range(r.body)}
    BY <1>5 DEF Range
  <2>0. PICK h : h = IF q.head = << >> THEN << >> ELSE <<q.head>>
    OBVIOUS
  <2>2. q.body \in Seq(Sent) /\ h \in Seq(Sent)
    <3>1. q.body \in [1..Len(r.body) -> Sent] /\ r.body \in Seq(PredicatesOver(W))
      <4>1. q.body = [i \in DOMAIN r.body |-> To(r.body[i])]
        BY <1>2 DEF EachSent, To
      <4>2. DOMAIN r.body = 1..Len(r.body)
        BY <1>1
      <4> QED BY <1>1, <1>4, <4>1, <4>2
    <3>2. q.body \in Seq(Sent)
      BY <3>1, MappedFacts
    <3>3. CASE r.head = << >>
      <4>1. h = << >>
        BY <1>2, <2>0, <3>3
      <4>2. << >> \in Seq(Sent)
        OBVIOUS
      <4> QED BY <3>2, <4>1, <4>2
    <3>4. CASE r.head # << >>
      <4>1. q.head \in Sent /\ q.head # << >>
        BY <1>1, <1>2, <1>3, <3>4
      <4>2. h = <<q.head>> /\ <<q.head>> \in Seq(Sent)
        BY <2>0, <4>1
      <4> QED BY <3>2, <4>2
    <3> QED BY <3>2, <3>3, <3>4
  <2>3. Range(Predicates(q)) = Range(h) \cup Range(q.body)
    <3>1. Predicates(q) = h \o q.body
      BY <2>0 DEF Predicates
    <3> QED BY <2>2, <3>1, JoinFacts
  <2>4. CASE r.head = << >>
    <3>1. h = << >> /\ Range(<< >>) = {}
      BY <1>2, <2>0, <2>4 DEF Range
    <3> QED BY <1>1, <2>1, <2>3, <2>4, <3>1
  <2>5. CASE r.head # << >>
    <3>1. q.head = To(r.head) /\ q.head # << >>
      BY <1>1, <1>2, <1>3, <2>5
    <3>2. h = <<q.head>> /\ Range(<<q.head>>) = {q.head}
      BY <2>0, <3>1 DEF Range
    <3> QED BY <1>1, <2>1, <2>3, <2>5, <3>1, <3>2
  <2> QED BY <2>4, <2>5
<1>13. Range(Predicates(r)) \subseteq PredicatesOver(W)
  BY <1>1, <1>4 DEF Range
<1>14. (\A p \in Range(Predicates(q)) : DecodablePredicate(p)) <=> \A x \in RuleTerms(r) : Even(x)
  <2>1. (\A p \in Range(Predicates(q)) : DecodablePredicate(p)) <=>
        \A p \in Range(Predicates(r)) : DecodablePredicate(To(p))
    BY <1>12
  <2>2. \A p \in Range(Predicates(r)) : DecodablePredicate(To(p)) <=> \A t \in Range(p[3]) : Even(t)
    BY <1>3, <1>13
  <2> QED BY <2>1, <2>2 DEF RuleTerms
<1>15. (\A e \in Range(q.expressions) : \A op \in Range(e) : Decodable(op)) <=> \A x \in OpsIn(r) : Even(x)
  <2>1. Range(q.expressions) = {EachOpSent(e) : e \in Range(r.expressions)}
    BY <1>7 DEF Range
  <2>2. \A e : Range(EachOpSent(e)) = {ToProto(op) : op \in Range(e)}
    BY DEF Range, EachOpSent
  <2>3. \A op \in Nodes(W, MaxNesting) : Decodable(ToProto(op)) <=> Even(op)
    BY DecodableIs
  <2>4. (\A e \in Range(q.expressions) : \A op \in Range(e) : Decodable(op)) <=>
        \A e \in Range(r.expressions) : \A op \in Range(e) : Decodable(ToProto(op))
    BY <2>1, <2>2
  <2>5. \A e \in Range(r.expressions) : \A op \in Range(e) : Decodable(ToProto(op)) <=> Even(op)
    BY <1>1, <2>3
  <2> QED BY <2>4, <2>5 DEF OpsIn
<1>16. ASSUME NEW declared
       PROVE  DecodableRule(q, declared) <=>
                /\ \A x \in RuleTerms(r) \cup OpsIn(r) : Even(x)
                /\ declared < DATALOG_3_1 => r.scopes = << >>
  BY <1>10, <1>14, <1>15 DEF DecodableRule
<1> QED BY <1>11, <1>16 DEF q

LEMMA KindsOnWire ==
    /\ \A k \in CheckNames : KindOf(CheckKinds[k]) = k
    /\ CheckKinds["check if"] = << >> /\ CheckKinds["check all"] = <<1>>
    /\ CheckKinds["reject if"] = <<2>>
    /\ \A k \in PolicyNames : PolicyOf(PolicyKinds[k]) = k
<1>1. /\ CheckKinds["check if"] = << >> /\ CheckKinds["check all"] = <<1>>
      /\ CheckKinds["reject if"] = <<2>>
  BY DEF CheckKinds, CheckNames
<1>2. PolicyKinds["allow if"] = 0 /\ PolicyKinds["deny if"] = 1
  BY DEF PolicyKinds, PolicyNames
<1>3. /\ KindOf(<< >>) = "check if" /\ KindOf(<<1>>) = "check all" /\ KindOf(<<2>>) = "reject if"
  <2>1. <<1>> \notin {<< >>, <<0>>} /\ <<2>> \notin {<< >>, <<0>>} /\ <<2>> # <<1>>
    <3>1. Len(<<1>>) = 1 /\ Len(<<2>>) = 1 /\ Len(<< >>) = 0
      OBVIOUS
    <3>2. <<1>>[1] = 1 /\ <<2>>[1] = 2 /\ <<0>>[1] = 0
      OBVIOUS
    <3> QED BY <3>1, <3>2
  <2>2. << >> \in {<< >>, <<0>>} /\ << >> # <<1>>
    OBVIOUS
  <2>3. KindOf(<< >>) = "check if"
    BY <2>2 DEF KindOf
  <2>4. KindOf(<<1>>) = "check all"
    BY <2>1 DEF KindOf
  <2>5. KindOf(<<2>>) = "reject if"
    BY <2>1 DEF KindOf
  <2> QED BY <2>3, <2>4, <2>5
<1>4. PolicyOf(0) = "allow if" /\ PolicyOf(1) = "deny if"
  BY DEF PolicyOf
<1> QED BY <1>1, <1>2, <1>3, <1>4 DEF CheckNames, PolicyNames

NoScopeParameters(s) == \A r \in Range(Queries(s)) : NoParameters(r.scopes)
NoScopes(s) == \A r \in Range(Queries(s)) : r.scopes = << >>
EvenStatement(s) == \A x \in Roots(s) : Even(x)
EachRuleSent(l) == [i \in DOMAIN l |-> token_rule_to_proto_rule(l[i])]
EachRuleRead(l) == [i \in DOMAIN l |-> proto_rule_to_token_rule(l[i])]

LEMMA RootsAre ==
    ASSUME NEW s
    PROVE  \A x : x \in Roots(s) <=>
              \/ \E p \in Range(Facts(s)) : x \in Range(p[3])
              \/ \E r \in Range(Queries(s)) : x \in RuleTerms(r) \/ x \in OpsIn(r)
<1> DEFINE A == Range(Facts(s)) \cup UNION {Range(Predicates(r)) : r \in Range(Queries(s))}
           B == UNION {Range(p[3]) : p \in A}
           E == UNION {Range(r.expressions) : r \in Range(Queries(s))}
           C == UNION {Range(e) : e \in E}
<1>0. Roots(s) = B \cup C
  BY DEF Roots
<1>4. \A x : x \in C <=> \E r \in Range(Queries(s)) : x \in OpsIn(r)
  <2>1. \A x : x \in C <=> \E e \in E : x \in Range(e)
    OBVIOUS
  <2>2. \A e : e \in E <=> \E r \in Range(Queries(s)) : e \in Range(r.expressions)
    OBVIOUS
  <2>3. \A r, x : x \in OpsIn(r) <=> \E e \in Range(r.expressions) : x \in Range(e)
    BY DEF OpsIn
  <2> HIDE DEF C, E
  <2> QED BY <2>1, <2>2, <2>3
<1>5. \A p : p \in A <=> \/ p \in Range(Facts(s))
                         \/ \E r \in Range(Queries(s)) : p \in Range(Predicates(r))
  OBVIOUS
<1> HIDE DEF A, C
<1>6. \A x : x \in B <=> \E p \in A : x \in Range(p[3])
  OBVIOUS
<1> HIDE DEF B
<1>3. \A r, x : x \in RuleTerms(r) <=> \E p \in Range(Predicates(r)) : x \in Range(p[3])
  BY DEF RuleTerms
<1> QED BY <1>0, <1>3, <1>4, <1>5, <1>6

LEMMA EncodedIs ==
    ASSUME NEW W, NEW K, NEW s \in StatementsOver(W, K), NoScopeParameters(s)
    PROVE  /\ Encoded(s)[1] = s[1]
           /\ Range(Facts(Encoded(s))) = {token_predicate_to_proto_predicate(p) : p \in Range(Facts(s))}
           /\ Range(Queries(Encoded(s))) = {token_rule_to_proto_rule(r) : r \in Range(Queries(s))}
           /\ s[1] = "check" => Encoded(s)[2] = CheckKinds[s[2]]
           /\ Decoded(Encoded(s)) = s
<1> DEFINE q == Encoded(s)
<1>1. s[1] \in {"fact", "rule", "check", "policy"}
  BY StatementShape
<1>2. \A r \in Range(Queries(s)) :
         r \in RulesIn(W, K) /\ proto_rule_to_token_rule(token_rule_to_proto_rule(r)) = r
  BY StatementShape, RuleOnWire DEF NoScopeParameters
<1>3. CASE s[1] = "fact"
  <2>1. s = <<"fact", s[2]>> /\ s[2] \in PredicatesOver(W) /\ Facts(s) = <<s[2]>> /\ Queries(s) = << >>
    BY <1>3, StatementShape
  <2> DEFINE p == token_predicate_to_proto_predicate(s[2])
  <2>2. q = <<"fact", p>> /\ q[1] = "fact" /\ q[2] = p
    BY <1>3 DEF Encoded
  <2>3. proto_predicate_to_token_predicate(p) = s[2]
    BY <2>1, PredicateOnWire
  <2> HIDE DEF q, p
  <2>4. Decoded(q) = <<"fact", proto_predicate_to_token_predicate(q[2])>>
    BY <2>2 DEF Decoded
  <2>5. Decoded(q) = s
    BY <2>1, <2>2, <2>3, <2>4
  <2>6. Facts(q) = <<p>> /\ Queries(q) = << >>
    BY <2>2 DEF Facts, Queries
  <2>7. Range(<<p>>) = {p} /\ Range(<<s[2]>>) = {s[2]} /\ Range(<< >>) = {}
    BY DEF Range
  <2> QED BY <1>3, <2>1, <2>2, <2>5, <2>6, <2>7 DEF q, p
<1>4. CASE s[1] = "rule"
  <2>1. s = <<"rule", s[2]>> /\ Facts(s) = << >> /\ Queries(s) = <<s[2]>> /\ Range(Queries(s)) = {s[2]}
    BY <1>4, StatementShape
  <2> DEFINE r == token_rule_to_proto_rule(s[2])
  <2>2. q = <<"rule", r>> /\ q[1] = "rule" /\ q[2] = r
    BY <1>4 DEF Encoded
  <2>3. proto_rule_to_token_rule(r) = s[2]
    BY <1>2, <2>1
  <2> HIDE DEF q, r
  <2>4. Decoded(q) = <<"rule", proto_rule_to_token_rule(q[2])>>
    BY <2>2 DEF Decoded
  <2>5. Decoded(q) = s
    BY <2>1, <2>2, <2>3, <2>4
  <2>6. Facts(q) = << >> /\ Queries(q) = <<r>>
    BY <2>2 DEF Facts, Queries
  <2>7. Range(<<r>>) = {r} /\ Range(<< >>) = {}
    BY DEF Range
  <2> QED BY <1>4, <2>1, <2>2, <2>5, <2>6, <2>7 DEF q, r
<1>5. CASE s[1] \in {"check", "policy"}
  <2>1. /\ s = <<s[1], s[2], s[3]>> /\ Facts(s) = << >> /\ Queries(s) = s[3]
        /\ s[3] \in Seq(QueriesOver(W, K))
        /\ s[1] = "check" => s[2] \in CheckNames
        /\ s[1] = "policy" => s[2] \in PolicyNames
    BY <1>5, StatementShape
  <2> DEFINE n == IF s[1] = "check" THEN CheckKinds[s[2]] ELSE PolicyKinds[s[2]]
             l == EachRuleSent(s[3])
  <2>2. q = <<s[1], n, l>> /\ q[1] = s[1] /\ q[2] = n /\ q[3] = l
    BY <1>5 DEF Encoded, EachRuleSent
  <2>3. (IF s[1] = "check" THEN KindOf(n) ELSE PolicyOf(n)) = s[2]
    BY <1>5, <2>1, KindsOnWire
  <2>4. DOMAIN l = DOMAIN s[3] /\ \A i \in DOMAIN s[3] : l[i] = token_rule_to_proto_rule(s[3][i])
    BY DEF EachRuleSent
  <2>5. s[1] = "check" => n = CheckKinds[s[2]]
    OBVIOUS
  <2> HIDE DEF q, l, n
  <2>6. EachRuleRead(l) = s[3]
    <3>1. \A i \in DOMAIN s[3] : s[3][i] \in Range(Queries(s))
      BY <2>1 DEF Range
    <3>2. \A i \in DOMAIN s[3] : proto_rule_to_token_rule(l[i]) = s[3][i]
      BY <1>2, <2>4, <3>1
    <3>3. s[3] = [i \in DOMAIN s[3] |-> s[3][i]]
      BY <2>1
    <3> QED BY <2>4, <3>2, <3>3 DEF EachRuleRead
  <2>7. Decoded(q) = <<q[1], IF q[1] = "check" THEN KindOf(q[2]) ELSE PolicyOf(q[2]), EachRuleRead(q[3])>>
    BY <1>5, <2>2 DEF Decoded, EachRuleRead
  <2>8. Decoded(q) = s
    BY <2>1, <2>2, <2>3, <2>6, <2>7
  <2>9. Facts(q) = << >> /\ Queries(q) = l
    BY <1>5, <2>2 DEF Facts, Queries
  <2>10. Range(l) = {token_rule_to_proto_rule(r) : r \in Range(s[3])} /\ Range(<< >>) = {}
    BY <2>4 DEF Range
  <2> QED BY <1>5, <2>1, <2>2, <2>5, <2>8, <2>9, <2>10 DEF q
<1> QED BY <1>1, <1>3, <1>4, <1>5

LEMMA StatementOnWire ==
    ASSUME NEW W, NEW K, NEW s \in StatementsOver(W, K), NoScopeParameters(s)
    PROVE  /\ Encoded(s)[1] = s[1] /\ Decoded(Encoded(s)) = s
           /\ \A declared :
                 DecodableStatement(Encoded(s), declared) <=>
                    EvenStatement(s) /\ (declared < DATALOG_3_1 => NoScopes(s))
           /\ \A declared :
                 DecodableCheck(Encoded(s), declared) <=>
                    (s[1] = "check" => /\ declared < DATALOG_3_1 => s[2] = "check if"
                                       /\ declared < DATALOG_3_3 => s[2] # "reject if")
<1> DEFINE q == Encoded(s)
<1>1. q[1] = s[1] /\ Decoded(q) = s /\ (s[1] = "check" => q[2] = CheckKinds[s[2]])
  BY EncodedIs
<1>2. /\ Range(Facts(q)) = {token_predicate_to_proto_predicate(p) : p \in Range(Facts(s))}
      /\ Range(Queries(q)) = {token_rule_to_proto_rule(r) : r \in Range(Queries(s))}
  BY EncodedIs
<1> HIDE DEF q
<1>3. \A p \in Range(Facts(s)) : DecodablePredicate(token_predicate_to_proto_predicate(p))
                                   <=> \A t \in Range(p[3]) : Even(t)
  BY StatementShape, PredicateOnWire
<1>4. ASSUME NEW declared
      PROVE  DecodableStatement(q, declared) <=> EvenStatement(s) /\ (declared < DATALOG_3_1 => NoScopes(s))
  <2>1. \A r \in Range(Queries(s)) :
           DecodableRule(token_rule_to_proto_rule(r), declared) <=>
                    /\ \A x \in RuleTerms(r) \cup OpsIn(r) : Even(x)
                    /\ declared < DATALOG_3_1 => r.scopes = << >>
    BY StatementShape, RuleOnWire DEF NoScopeParameters
  <2>2. DecodableStatement(q, declared) <=>
           /\ \A p \in Range(Facts(s)) : \A t \in Range(p[3]) : Even(t)
           /\ \A r \in Range(Queries(s)) :
                    /\ \A x \in RuleTerms(r) \cup OpsIn(r) : Even(x)
                    /\ declared < DATALOG_3_1 => r.scopes = << >>
    BY <1>2, <1>3, <2>1 DEF DecodableStatement
  <2>3. EvenStatement(s) <=>
           /\ \A p \in Range(Facts(s)) : \A t \in Range(p[3]) : Even(t)
           /\ \A r \in Range(Queries(s)) : \A x \in RuleTerms(r) \cup OpsIn(r) : Even(x)
    BY RootsAre DEF EvenStatement
  <2> QED BY <2>2, <2>3 DEF NoScopes
<1>5. ASSUME NEW declared
      PROVE  DecodableCheck(q, declared) <=>
                    (s[1] = "check" => /\ declared < DATALOG_3_1 => s[2] = "check if"
                                       /\ declared < DATALOG_3_3 => s[2] # "reject if")
  <2>1. CASE s[1] = "check"
    <3>1. s[2] \in CheckNames /\ q[2] = CheckKinds[s[2]]
      BY <1>1, <2>1, StatementShape
    <3>2. q[2] = << >> <=> s[2] = "check if"
      BY <3>1, KindsOnWire DEF CheckNames
    <3>3. q[2] = <<2>> <=> s[2] = "reject if"
      <4>1. <<1>> # <<2>> /\ << >> # <<2>>
        <5>1. <<1>>[1] = 1 /\ <<2>>[1] = 2 /\ Len(<<2>>) = 1 /\ Len(<< >>) = 0
          OBVIOUS
        <5> QED BY <5>1
      <4> QED BY <3>1, <4>1, KindsOnWire DEF CheckNames
    <3> QED BY <1>1, <2>1, <3>2, <3>3 DEF DecodableCheck
  <2>2. CASE s[1] # "check"
    BY <1>1, <2>2 DEF DecodableCheck
  <2> QED BY <2>1, <2>2
<1> QED BY <1>1, <1>4, <1>5 DEF q

LEMMA OddKept ==
    ASSUME NEW W, NEW f, NEW y \in Nodes(W, MaxNesting)
    PROVE  IsOddSet(Translate(y, f)) <=> IsOddSet(y)
<1> DEFINE q == Translate(y, f)
<1>1. q[1] = y[1]
  BY KindKept
<1>2. CASE y[1] # "set"
  BY <1>1, <1>2 DEF IsOddSet
<1>3. CASE y[1] = "set"
  <2>1. q = <<"set", {Translate(t, f) : t \in y[2]}>>
    BY <1>3, TranslateIs
  <2>2. y[2] \subseteq TermsOver(W)
    BY <1>3, OverKinds
  <2>3. \A t \in y[2] : Translate(t, f)[1] = t[1]
    BY <2>2, KindKept, NodesNested
  <2>4. q[2] = {Translate(t, f) : t \in y[2]}
    BY <2>1
  <2> HIDE DEF q
  <2>5. (\E t, u \in q[2] : t[1] # u[1]) <=> \E t, u \in y[2] : t[1] # u[1]
    BY <2>3, <2>4
  <2>6. (\E t \in q[2] : t[1] \in {"set", "var"}) <=> \E t \in y[2] : t[1] \in {"set", "var"}
    BY <2>3, <2>4
  <2> QED BY <1>1, <2>5, <2>6 DEF IsOddSet, q
<1> QED BY <1>2, <1>3

LEMMA EvenKept ==
    ASSUME NEW W, NEW V, NEW f, NEW x \in Nodes(W, MaxNesting), Fits(x, f, V)
    PROVE  Even(Translate(x, f)) <=> Even(x)
<1>1. Within(Translate(x, f)) = {Translate(y, f) : y \in Within(x)}
  BY WithinTranslate
<1>2. Within(x) \subseteq Nodes(W, MaxNesting)
  BY WithinFacts
<1>3. \A y \in Within(x) : IsOddSet(Translate(y, f)) <=> IsOddSet(y)
  BY <1>2, OddKept
<1> QED BY <1>1, <1>3 DEF Even

\* The values of a statement have its names, and are translated one by one.
LEMMA RootsFacts ==
    ASSUME NEW W, NEW K, NEW s \in StatementsOver(W, K)
    PROVE  \A x \in Roots(s) : x \in Nodes(W, MaxNesting) /\ Names(x) \subseteq StatementNames(s)
<1> SUFFICES ASSUME NEW x \in Roots(s)
             PROVE  x \in Nodes(W, MaxNesting) /\ Names(x) \subseteq StatementNames(s)
  OBVIOUS
<1>1. \A p : p \in Range(Facts(s)) => p \in PredicatesOver(W) /\ PredicateNames(p) \subseteq StatementNames(s)
  BY StatementShape, StatementNamesAre
<1>2. \A r \in Range(Queries(s)) : r \in RulesIn(W, K) /\ RuleNames(r) \subseteq StatementNames(s)
  BY StatementNamesWithin
<1>3. ASSUME NEW p \in PredicatesOver(W), x \in Range(p[3])
      PROVE  x \in Nodes(W, MaxNesting) /\ Names(x) \subseteq PredicateNames(p)
  BY <1>3, PredicateShape, PredicateNamesAre
<1>4. CASE \E p \in Range(Facts(s)) : x \in Range(p[3])
  BY <1>1, <1>3, <1>4
<1>5. ASSUME NEW r \in Range(Queries(s)), x \in RuleTerms(r)
      PROVE  x \in Nodes(W, MaxNesting) /\ Names(x) \subseteq StatementNames(s)
  <2>1. PICK p \in Range(Predicates(r)) : x \in Range(p[3])
    BY <1>5 DEF RuleTerms
  <2>2. Predicates(r) \in Seq(PredicatesOver(W))
    BY <1>2, RuleShape
  <2>3. p \in PredicatesOver(W)
    BY <2>2, MappedFacts
  <2>4. PredicateNames(p) \subseteq RuleNames(r)
    BY <1>2, RuleNamesAre
  <2> QED BY <1>2, <1>3, <2>1, <2>3, <2>4
<1>6. ASSUME NEW r \in Range(Queries(s)), x \in OpsIn(r)
      PROVE  x \in Nodes(W, MaxNesting) /\ Names(x) \subseteq StatementNames(s)
  <2>1. r \in RulesIn(W, K) /\ RuleNames(r) \subseteq StatementNames(s)
    BY <1>2
  <2>2. x \in Nodes(W, MaxNesting)
    BY <1>6, <2>1, RuleShape DEF OpsIn
  <2>3. Names(x) \subseteq RuleNames(r)
    BY <1>6, <2>1, RuleNamesAre
  <2> QED BY <2>1, <2>2, <2>3
<1> QED BY <1>4, <1>5, <1>6, RootsAre

LEMMA RootsOfTranslate ==
    ASSUME NEW W, NEW K, NEW V, NEW L, NEW f, NEW g, NEW s \in StatementsOver(W, K),
           Suits(StatementNames(s), f, V), \A k \in StatementKeyNames(s) : g[k] \in L
    PROVE  /\ TranslateStatement(s, f, g) \in StatementsOver(V, L)
           /\ \A y : y \in Roots(TranslateStatement(s, f, g)) <=> \E x \in Roots(s) : y = Translate(x, f)
<1> DEFINE q == TranslateStatement(s, f, g)
<1>1. q \in StatementsOver(V, L)
  BY TranslateStatementType
<1>2. IsStatementImage(q, s, f, g)
  BY <1>1, TranslateStatementType
<1>3. /\ Range(Facts(q)) = {TranslatePredicate(p, f) : p \in Range(Facts(s))}
      /\ Range(Queries(q)) = {TranslateRule(r, f, g) : r \in Range(Queries(s))}
  BY <1>2 DEF IsStatementImage
<1> HIDE DEF q
<1>4. ASSUME NEW p \in PredicatesOver(W), PredicateNames(p) \subseteq StatementNames(s)
      PROVE  Range(TranslatePredicate(p, f)[3]) = {Translate(t, f) : t \in Range(p[3])}
  <2>1. Suits(PredicateNames(p), f, V)
    BY <1>4 DEF Suits
  <2> QED BY <2>1, TranslatePredicateType
<1>5. \A p \in Range(Facts(s)) : p \in PredicatesOver(W) /\ PredicateNames(p) \subseteq StatementNames(s)
  BY StatementShape, StatementNamesAre
<1>6. ASSUME NEW r \in Range(Queries(s))
      PROVE  /\ \A y : y \in RuleTerms(TranslateRule(r, f, g)) <=> \E x \in RuleTerms(r) : y = Translate(x, f)
             /\ \A y : y \in OpsIn(TranslateRule(r, f, g)) <=> \E x \in OpsIn(r) : y = Translate(x, f)
  <2>1. /\ r \in RulesIn(W, K) /\ RuleNames(r) \subseteq StatementNames(s)
        /\ \A k : <<"key", k>> \in Range(r.scopes) => k \in StatementKeyNames(s)
    BY StatementNamesWithin
  <2>2. Suits(RuleNames(r), f, V) /\ \A k : <<"key", k>> \in Range(r.scopes) => g[k] \in L
    BY <2>1 DEF Suits
  <2>3. TranslateRule(r, f, g) \in RulesIn(V, L)
    BY <2>1, <2>2, TranslateRuleType
  <2>4. IsRuleImage(TranslateRule(r, f, g), r, f)
    BY <2>1, <2>2, <2>3, TranslateRuleType
  <2> DEFINE u == TranslateRule(r, f, g)
  <2>5. /\ Range(Predicates(u)) = {TranslatePredicate(p, f) : p \in Range(Predicates(r))}
        /\ OpsIn(u) = {Translate(op, f) : op \in OpsIn(r)}
    BY <2>4 DEF IsRuleImage
  <2> HIDE DEF u
  <2>6. \A p \in Range(Predicates(r)) : p \in PredicatesOver(W) /\ PredicateNames(p) \subseteq StatementNames(s)
    <3>1. Predicates(r) \in Seq(PredicatesOver(W))
      BY <2>1, RuleShape
    <3>2. \A p \in Range(Predicates(r)) : p \in PredicatesOver(W)
      BY <3>1, MappedFacts
    <3>3. \A p \in Range(Predicates(r)) : PredicateNames(p) \subseteq RuleNames(r)
      BY <2>1, RuleNamesAre
    <3> QED BY <2>1, <3>2, <3>3
  <2>7. \A p \in Range(Predicates(r)) :
           Range(TranslatePredicate(p, f)[3]) = {Translate(t, f) : t \in Range(p[3])}
    BY <1>4, <2>6
  <2>8. \A y : y \in RuleTerms(u) <=> \E x \in RuleTerms(r) : y = Translate(x, f)
    <3>1. \A y : y \in RuleTerms(u) <=> \E p \in Range(Predicates(r)) : y \in Range(TranslatePredicate(p, f)[3])
      BY <2>5 DEF RuleTerms
    <3>2. \A x : x \in RuleTerms(r) <=> \E p \in Range(Predicates(r)) : x \in Range(p[3])
      BY DEF RuleTerms
    <3>3. \A y : \A p \in Range(Predicates(r)) :
             y \in Range(TranslatePredicate(p, f)[3]) <=> \E t \in Range(p[3]) : y = Translate(t, f)
      BY <2>7
    <3> QED BY <3>1, <3>2, <3>3
  <2> QED BY <2>5, <2>8 DEF u
<1>7. \A y : (\E p \in Range(Facts(q)) : y \in Range(p[3])) <=>
             \E p \in Range(Facts(s)) : \E t \in Range(p[3]) : y = Translate(t, f)
  <2>1. \A p \in Range(Facts(s)) : Range(TranslatePredicate(p, f)[3]) = {Translate(t, f) : t \in Range(p[3])}
    BY <1>4, <1>5
  <2> QED BY <1>3, <2>1
<1>8. \A y : y \in Roots(q) <=>
              \/ \E p \in Range(Facts(q)) : y \in Range(p[3])
              \/ \E r \in Range(Queries(q)) : y \in RuleTerms(r) \/ y \in OpsIn(r)
  BY RootsAre
<1>9. \A y : y \in Roots(s) <=>
              \/ \E p \in Range(Facts(s)) : y \in Range(p[3])
              \/ \E r \in Range(Queries(s)) : y \in RuleTerms(r) \/ y \in OpsIn(r)
  BY RootsAre
<1>10. ASSUME NEW y \in Roots(q) PROVE \E x \in Roots(s) : y = Translate(x, f)
  <2>1. CASE \E p \in Range(Facts(q)) : y \in Range(p[3])
    BY <1>7, <1>9, <2>1
  <2>2. CASE \E r \in Range(Queries(q)) : y \in RuleTerms(r) \/ y \in OpsIn(r)
    <3>1. PICK r \in Range(Queries(s)) : y \in RuleTerms(TranslateRule(r, f, g)) \/ y \in OpsIn(TranslateRule(r, f, g))
      BY <1>3, <2>2
    <3> QED BY <1>6, <1>9, <3>1
  <2> QED BY <1>8, <2>1, <2>2
<1>11. ASSUME NEW x \in Roots(s) PROVE Translate(x, f) \in Roots(q)
  <2>1. CASE \E p \in Range(Facts(s)) : x \in Range(p[3])
    BY <1>7, <1>8, <2>1
  <2>2. CASE \E r \in Range(Queries(s)) : x \in RuleTerms(r) \/ x \in OpsIn(r)
    <3>1. PICK r \in Range(Queries(s)) : x \in RuleTerms(r) \/ x \in OpsIn(r)
      BY <2>2
    <3>2. TranslateRule(r, f, g) \in Range(Queries(q))
      BY <1>3
    <3> QED BY <1>6, <1>8, <3>1, <3>2
  <2> QED BY <1>9, <2>1, <2>2
<1> QED BY <1>1, <1>10, <1>11 DEF q

LEMMA EvenStatementKept ==
    ASSUME NEW W, NEW K, NEW V, NEW L, NEW f, NEW g, NEW s \in StatementsOver(W, K),
           Suits(StatementNames(s), f, V), \A k \in StatementKeyNames(s) : g[k] \in L
    PROVE  /\ TranslateStatement(s, f, g) \in StatementsOver(V, L)
           /\ EvenStatement(TranslateStatement(s, f, g)) <=> EvenStatement(s)
<1> DEFINE q == TranslateStatement(s, f, g)
<1>1. q \in StatementsOver(V, L)
  BY TranslateStatementType
<1>2. \A y : y \in Roots(q) <=> \E x \in Roots(s) : y = Translate(x, f)
  BY <1>1, RootsOfTranslate
<1> HIDE DEF q
<1>3. \A x \in Roots(s) : x \in Nodes(W, MaxNesting) /\ Fits(x, f, V)
  BY RootsFacts, SuitsFits
<1>4. \A x \in Roots(s) : Even(Translate(x, f)) <=> Even(x)
  BY <1>3, EvenKept
<1> QED BY <1>1, <1>2, <1>4 DEF EvenStatement, q

-----------------------------------------------------------------------------
(* A builder has its statements kind by kind.                                  *)

Chosen(S, kind) == FlattenSeq([i \in DOMAIN S |-> IF S[i][1] = kind THEN <<S[i]>> ELSE << >>])

LEMMA ChosenOfAppend ==
    ASSUME NEW X, NEW kind, NEW S \in Seq(X), NEW x \in X
    PROVE  /\ Chosen(S, kind) \in Seq(X)
           /\ Chosen(Append(S, x), kind) =
                 IF x[1] = kind THEN Append(Chosen(S, kind), x) ELSE Chosen(S, kind)
<1> DEFINE n == Len(S)
           more == Append(S, x)
           p == [i \in DOMAIN S |-> IF S[i][1] = kind THEN <<S[i]>> ELSE << >>]
           q == [i \in DOMAIN more |-> IF more[i][1] = kind THEN <<more[i]>> ELSE << >>]
<1>1. /\ n \in Nat /\ DOMAIN S = 1..n /\ \A i \in 1..n : S[i] \in X
      /\ more \in Seq(X) /\ DOMAIN more = 1..(n + 1)
      /\ \A i \in 1..n : more[i] = S[i]
      /\ more[n + 1] = x
  BY AppendProperties, LenProperties
<1>2. << >> \in Seq(X) /\ \A y \in X : <<y>> \in Seq(X)
  OBVIOUS
<1> HIDE DEF n, more
<1>3. p \in [1..n -> Seq(X)] /\ q \in [1..(n + 1) -> Seq(X)] /\ \A i \in 1..n : q[i] = p[i]
  <2>1. \A i \in 1..(n + 1) : more[i] \in X
    BY <1>1
  <2> QED BY <1>1, <1>2, <2>1
<1>4. q[n + 1] = IF x[1] = kind THEN <<x>> ELSE << >>
  BY <1>1
<1>5. Chosen(S, kind) = FlattenSeq(p) /\ Chosen(more, kind) = FlattenSeq(q)
  BY DEF Chosen
<1> HIDE DEF p, q
<1>6. FlattenSeq(p) \in Seq(X)
  BY <1>1, <1>3, FlattenOfLonger
<1>7. FlattenSeq(q) = FlattenSeq(p) \o q[n + 1]
  BY <1>1, <1>3, FlattenOfLonger
<1>8. CASE x[1] = kind
  <2>1. FlattenSeq(p) \o <<x>> = Append(FlattenSeq(p), x)
    BY <1>6, AppendIsConcat
  <2> QED BY <1>4, <1>5, <1>6, <1>7, <1>8, <2>1 DEF more
<1>9. CASE x[1] # kind
  <2>1. FlattenSeq(p) \o << >> = FlattenSeq(p)
    BY <1>6, ConcatEmptySeq
  <2> QED BY <1>4, <1>5, <1>6, <1>7, <1>9, <2>1 DEF more
<1> QED BY <1>8, <1>9

LEMMA ChosenFacts ==
    ASSUME NEW X, NEW kind, NEW S \in Seq(X)
    PROVE  /\ Chosen(S, kind) \in Seq(X)
           /\ \A x : x \in Range(Chosen(S, kind)) <=> x \in Range(S) /\ x[1] = kind
<1> DEFINE p == [i \in 1..Len(S) |-> IF S[i][1] = kind THEN <<S[i]>> ELSE << >>]
<1>1. Len(S) \in Nat /\ DOMAIN S = 1..Len(S) /\ \A i \in 1..Len(S) : S[i] \in X
  BY MappedFacts
<1>2. << >> \in Seq(X) /\ \A y \in X : <<y>> \in Seq(X)
  OBVIOUS
<1>3. p \in [1..Len(S) -> Seq(X)]
  BY <1>1, <1>2
<1>4. Chosen(S, kind) = FlattenSeq(p)
  BY <1>1 DEF Chosen
<1>5. \A i \in 1..Len(S) : \A x : x \in Range(p[i]) <=> x = S[i] /\ x[1] = kind
  <2>1. \A y : Range(<<y>>) = {y} /\ Range(<< >>) = {}
    BY DEF Range
  <2> QED BY <2>1
<1> HIDE DEF p
<1>6. /\ FlattenSeq(p) \in Seq(X)
      /\ \A x : x \in Range(FlattenSeq(p)) <=> \E i \in 1..Len(S) : x \in Range(p[i])
  BY <1>1, <1>3, FlattenFacts
<1>7. \A x : x \in Range(S) <=> \E i \in 1..Len(S) : x = S[i]
  BY <1>1 DEF Range
<1> QED BY <1>4, <1>5, <1>6, <1>7

LEMMA ChosenOfEmpty ==
    ASSUME NEW kind
    PROVE  Chosen(<< >>, kind) = << >>
<1>1. [i \in DOMAIN << >> |-> IF << >>[i][1] = kind THEN <<<< >>[i]>> ELSE << >>] = << >>
  OBVIOUS
<1> QED BY <1>1, FlattenOfEmpty DEF Chosen

LEMMA ChosenOfConcat ==
    ASSUME NEW X, NEW kind, NEW S \in Seq(X)
    PROVE  \A t \in Seq(X) : Chosen(S \o t, kind) = Chosen(S, kind) \o Chosen(t, kind)
<1> DEFINE T == {t \in Seq(X) : Chosen(S \o t, kind) = Chosen(S, kind) \o Chosen(t, kind)}
<1>0. Chosen(S, kind) \in Seq(X)
  BY ChosenFacts
<1>1. << >> \in T
  <2>1. S \o << >> = S /\ Chosen(S, kind) \o << >> = Chosen(S, kind)
    BY <1>0, ConcatEmptySeq
  <2>2. Chosen(S \o << >>, kind) = Chosen(S, kind) \o Chosen(<< >>, kind)
    BY <2>1, ChosenOfEmpty
  <2>3. << >> \in Seq(X)
    OBVIOUS
  <2> QED BY <2>2, <2>3
<1>2. ASSUME NEW t \in Seq(X), NEW x \in X, t \in T
      PROVE  Append(t, x) \in T
  <2>1. /\ S \o t \in Seq(X) /\ Append(t, x) \in Seq(X)
        /\ S \o Append(t, x) = Append(S \o t, x)
    OBVIOUS
  <2>2. Chosen(S \o t, kind) = Chosen(S, kind) \o Chosen(t, kind)
    BY <1>2
  <2>3. Chosen(t, kind) \in Seq(X)
    BY ChosenFacts
  <2>4. CASE x[1] = kind
    <3>1. /\ Chosen(S \o Append(t, x), kind) = Append(Chosen(S \o t, kind), x)
          /\ Chosen(Append(t, x), kind) = Append(Chosen(t, kind), x)
      BY <2>1, <2>4, ChosenOfAppend
    <3>2. Append(Chosen(S, kind) \o Chosen(t, kind), x) = Chosen(S, kind) \o Append(Chosen(t, kind), x)
      <4> DEFINE a == Chosen(S, kind)
                 b == Chosen(t, kind)
      <4>1. a \in Seq(X) /\ b \in Seq(X)
        BY <1>0, <2>3
      <4> HIDE DEF a, b
      <4>2. a \o Append(b, x) = Append(a \o b, x)
        BY <4>1
      <4> QED BY <4>2 DEF a, b
    <3> QED BY <2>1, <2>2, <3>1, <3>2
  <2>5. CASE x[1] # kind
    <3> DEFINE u == S \o t
    <3>0. u \in Seq(X)
      BY <2>1
    <3> HIDE DEF u
    <3>1. Chosen(Append(u, x), kind) = Chosen(u, kind)
      BY <2>5, <3>0, ChosenOfAppend
    <3>2. Chosen(Append(t, x), kind) = Chosen(t, kind)
      BY <2>5, ChosenOfAppend
    <3> QED BY <2>1, <2>2, <3>1, <3>2 DEF u
  <2> QED BY <2>4, <2>5
<1> HIDE DEF T
<1>3. Seq(X) \subseteq T
  BY <1>1, <1>2, SequenceInduction
<1> QED BY <1>3 DEF T

LEMMA ChosenOfOneKind ==
    ASSUME NEW X, NEW kind, NEW other, \A x \in X : x[1] = other
    PROVE  \A S \in Seq(X) : Chosen(S, kind) = IF kind = other THEN S ELSE << >>
<1> DEFINE T == {S \in Seq(X) : Chosen(S, kind) = IF kind = other THEN S ELSE << >>}
<1>1. << >> \in T
  BY ChosenOfEmpty
<1>2. ASSUME NEW S \in Seq(X), NEW x \in X, S \in T
      PROVE  Append(S, x) \in T
  <2>1. Append(S, x) \in Seq(X) /\ x[1] = other
    OBVIOUS
  <2>2. Chosen(Append(S, x), kind) =
                 IF x[1] = kind THEN Append(Chosen(S, kind), x) ELSE Chosen(S, kind)
    BY ChosenOfAppend
  <2> QED BY <1>2, <2>1, <2>2
<1> HIDE DEF T
<1>3. Seq(X) \subseteq T
  BY <1>1, <1>2, SequenceInduction
<1> QED BY <1>3 DEF T

LEMMA AppliedFacts ==
    ASSUME NEW Y, NEW s \in Seq(Y)
    PROVE  /\ Applied(s) \in Seq({apply_parameters(y) : y \in Y})
           /\ Len(Applied(s)) = Len(s) /\ Len(s) \in Nat /\ DOMAIN s = 1..Len(s)
           /\ \A i \in 1..Len(s) : Applied(s)[i] = apply_parameters(s[i])
<1> DEFINE Z == {apply_parameters(y) : y \in Y}
<1>1. Len(s) \in Nat /\ DOMAIN s = 1..Len(s) /\ \A i \in 1..Len(s) : s[i] \in Y
  BY MappedFacts
<1>2. Applied(s) = [i \in 1..Len(s) |-> apply_parameters(s[i])]
  BY <1>1 DEF Applied
<1>3. \A i \in 1..Len(s) : apply_parameters(s[i]) \in Z
  BY <1>1
<1> HIDE DEF Z
<1>4. Applied(s) \in [1..Len(s) -> Z]
  BY <1>2, <1>3
<1>5. Applied(s) \in Seq(Z) /\ Len(Applied(s)) = Len(s)
  BY <1>4, MappedFacts
<1> QED BY <1>1, <1>2, <1>5 DEF Z

LEMMA AppliedOfConcat ==
    ASSUME NEW Y, NEW s \in Seq(Y), NEW t \in Seq(Y)
    PROVE  Applied(s \o t) = Applied(s) \o Applied(t)
<1> DEFINE Z == {apply_parameters(y) : y \in Y}
           a == Applied(s)
           b == Applied(t)
           c == Applied(s \o t)
<1>1. /\ a \in Seq(Z) /\ Len(a) = Len(s) /\ Len(s) \in Nat
      /\ \A i \in 1..Len(s) : a[i] = apply_parameters(s[i])
  BY AppliedFacts
<1>2. /\ b \in Seq(Z) /\ Len(b) = Len(t) /\ Len(t) \in Nat
      /\ \A i \in 1..Len(t) : b[i] = apply_parameters(t[i])
  BY AppliedFacts
<1>3. /\ s \o t \in Seq(Y) /\ Len(s \o t) = Len(s) + Len(t)
      /\ \A i \in 1..(Len(s) + Len(t)) : (s \o t)[i] = IF i <= Len(s) THEN s[i] ELSE t[i - Len(s)]
  BY <1>1, <1>2, ConcatProperties
<1>4. /\ c \in Seq(Z) /\ Len(c) = Len(s \o t)
      /\ \A i \in 1..Len(s \o t) : c[i] = apply_parameters((s \o t)[i])
  BY <1>3, AppliedFacts
<1> HIDE DEF a, b, c, Z
<1>5. /\ a \o b \in Seq(Z) /\ Len(a \o b) = Len(a) + Len(b)
      /\ \A i \in 1..(Len(a) + Len(b)) : (a \o b)[i] = IF i <= Len(a) THEN a[i] ELSE b[i - Len(a)]
  <2>1. a \in Seq(Z) /\ b \in Seq(Z)
    BY <1>1, <1>2
  <2> QED BY ONLY <2>1, ConcatProperties
<1>6. ASSUME NEW i \in 1..Len(c) PROVE c[i] = (a \o b)[i]
  <2>1. i \in 1..(Len(s) + Len(t)) /\ i \in Int
    BY <1>1, <1>2, <1>3, <1>4
  <2>2. CASE i <= Len(s)
    <3>1. c[i] = apply_parameters(s[i]) /\ (a \o b)[i] = a[i] /\ i \in 1..Len(s)
      BY <1>1, <1>2, <1>3, <1>4, <1>5, <2>1, <2>2
    <3> QED BY <1>1, <3>1
  <2>3. CASE ~(i <= Len(s))
    <3>1. /\ c[i] = apply_parameters(t[i - Len(s)]) /\ (a \o b)[i] = b[i - Len(s)]
          /\ i - Len(s) \in 1..Len(t)
      BY <1>1, <1>2, <1>3, <1>4, <1>5, <2>1, <2>3
    <3> QED BY <1>2, <3>1
  <2> QED BY <2>2, <2>3
<1>7. Len(c) = Len(a \o b)
  BY <1>1, <1>2, <1>3, <1>4, <1>5
<1>8. c = a \o b
  BY <1>4, <1>5, <1>6, <1>7, SeqEqual
<1> QED BY <1>8 DEF a, b, c

EachApplied(q) == [i \in DOMAIN q |-> Applied(q[i])]

LEMMA AppliedOfFlatten ==
    ASSUME NEW Y
    PROVE  \A q \in Seq(Seq(Y)) : Applied(FlattenSeq(q)) = FlattenSeq(EachApplied(q))
<1> DEFINE Z == {apply_parameters(y) : y \in Y}
           T == {q \in Seq(Seq(Y)) : Applied(FlattenSeq(q)) = FlattenSeq(EachApplied(q))}
<1>1. << >> \in T
  <2>1. << >> \in Seq(Seq(Y))
    OBVIOUS
  <2>2. EachApplied(<< >>) = << >> /\ Applied(<< >>) = << >>
    BY DEF EachApplied, Applied
  <2> QED BY <2>1, <2>2, FlattenOfEmpty
<1>2. ASSUME NEW q \in Seq(Seq(Y)), NEW x \in Seq(Y), q \in T
      PROVE  Append(q, x) \in T
  <2>1. Applied(FlattenSeq(q)) = FlattenSeq(EachApplied(q))
    BY <1>2
  <2>2. FlattenSeq(Append(q, x)) = FlattenSeq(q) \o x /\ FlattenSeq(q) \in Seq(Y)
    BY FlattenOfAppend, FlattenType
  <2>3. Applied(FlattenSeq(q) \o x) = Applied(FlattenSeq(q)) \o Applied(x)
    BY <2>2, AppliedOfConcat
  <2>4. EachApplied(q) \in Seq(Seq(Z)) /\ Applied(x) \in Seq(Z)
    <3>1. Len(q) \in Nat /\ DOMAIN q = 1..Len(q) /\ \A i \in 1..Len(q) : q[i] \in Seq(Y)
      BY MappedFacts
    <3>2. \A s \in Seq(Y) : Applied(s) \in Seq(Z)
      BY AppliedFacts
    <3>3. EachApplied(q) \in [1..Len(q) -> Seq(Z)]
      BY <3>1, <3>2 DEF EachApplied
    <3> HIDE DEF Z
    <3>4. EachApplied(q) \in Seq(Seq(Z))
      BY <3>3, MappedFacts
    <3> QED BY <3>2, <3>4
  <2>5. EachApplied(Append(q, x)) = Append(EachApplied(q), Applied(x))
    <3>1. /\ Len(q) \in Nat /\ DOMAIN q = 1..Len(q) /\ DOMAIN Append(q, x) = 1..(Len(q) + 1)
          /\ \A i \in 1..Len(q) : Append(q, x)[i] = q[i]
          /\ Append(q, x)[Len(q) + 1] = x
      BY AppendProperties, LenProperties
    <3>2. Len(EachApplied(q)) = Len(q)
      BY <2>4, <3>1 DEF EachApplied
    <3> QED BY <2>4, <3>1, <3>2 DEF EachApplied
  <2>6. FlattenSeq(Append(EachApplied(q), Applied(x))) = FlattenSeq(EachApplied(q)) \o Applied(x)
    BY <2>4, FlattenOfAppend
  <2>7. Append(q, x) \in Seq(Seq(Y))
    OBVIOUS
  <2> QED BY <2>1, <2>2, <2>3, <2>5, <2>6, <2>7
<1> HIDE DEF T
<1>3. Seq(Seq(Y)) \subseteq T
  BY <1>1, <1>2, SequenceInduction
<1> QED BY <1>3 DEF T

LEMMA KindOfApplied ==
    ASSUME NEW item
    PROVE  apply_parameters(item)[1] = item.statement[1]
<1>1. CASE item.statement[1] = "fact"
  BY <1>1 DEF apply_parameters
<1>2. CASE item.statement[1] = "rule"
  BY <1>2 DEF apply_parameters
<1>3. CASE item.statement[1] \notin {"fact", "rule"}
  BY <1>3 DEF apply_parameters
<1> QED BY <1>1, <1>2, <1>3

LEMMA AppliedOfKind ==
    ASSUME NEW X, NEW b, Applied(b.items) \in Seq(X), NEW kind
    PROVE  /\ OfKind(b, kind) \in Seq({b.items[i] : i \in DOMAIN b.items})
           /\ Applied(OfKind(b, kind)) = Chosen(Applied(b.items), kind)
<1> DEFINE n == Len(Applied(b.items))
           Y == {b.items[i] : i \in DOMAIN b.items}
           q == [i \in 1..n |-> IF b.items[i].statement[1] = kind THEN <<b.items[i]>> ELSE << >>]
<1>1. n \in Nat /\ DOMAIN Applied(b.items) = 1..n
  BY MappedFacts
<1>2. DOMAIN b.items = 1..n /\ \A i \in 1..n : Applied(b.items)[i] = apply_parameters(b.items[i])
  BY <1>1 DEF Applied
<1>3. OfKind(b, kind) = FlattenSeq(q)
  BY <1>2 DEF OfKind
<1> HIDE DEF n
<1>4. q \in [1..n -> Seq(Y)]
  <2>1. \A i \in 1..n : b.items[i] \in Y
    BY <1>2
  <2> HIDE DEF Y
  <2>2. << >> \in Seq(Y) /\ \A y \in Y : <<y>> \in Seq(Y)
    OBVIOUS
  <2> QED BY <2>1, <2>2
<1>5. EachApplied(q) = [i \in DOMAIN Applied(b.items) |->
                           IF Applied(b.items)[i][1] = kind THEN <<Applied(b.items)[i]>> ELSE << >>]
  <2>1. \A i \in 1..n : Applied(q[i]) =
           IF Applied(b.items)[i][1] = kind THEN <<Applied(b.items)[i]>> ELSE << >>
    <3> SUFFICES ASSUME NEW i \in 1..n
                 PROVE  Applied(q[i]) = IF Applied(b.items)[i][1] = kind
                                        THEN <<Applied(b.items)[i]>> ELSE << >>
      OBVIOUS
    <3>1. q[i] = IF b.items[i].statement[1] = kind THEN <<b.items[i]>> ELSE << >>
      OBVIOUS
    <3> HIDE DEF q
    <3>2. Applied(b.items)[i] = apply_parameters(b.items[i])
          /\ Applied(b.items)[i][1] = b.items[i].statement[1]
      BY <1>2, KindOfApplied, SMTT(60)
    <3>3. Applied(<< >>) = << >>
      BY DEF Applied
    <3>4. \A y : Applied(<<y>>) = <<apply_parameters(y)>>
      BY DEF Applied
    <3> QED BY <3>1, <3>2, <3>3, <3>4
  <2>2. DOMAIN q = 1..n
    OBVIOUS
  <2> HIDE DEF q
  <2> QED BY <1>1, <1>2, <2>1, <2>2 DEF EachApplied, n
<1> HIDE DEF q, Y
<1>6. q \in Seq(Seq(Y)) /\ FlattenSeq(q) \in Seq(Y)
  BY <1>1, <1>4, MappedFacts, FlattenFacts
<1>7. Applied(FlattenSeq(q)) = FlattenSeq(EachApplied(q))
  BY <1>6, AppliedOfFlatten
<1> QED BY <1>3, <1>5, <1>6, <1>7 DEF Chosen, Y

LEMMA FlattenOfFour ==
    ASSUME NEW X, NEW q, q \in [1..4 -> Seq(X)]
    PROVE  /\ FlattenSeq([k \in 1..3 |-> q[k]]) = (q[1] \o q[2]) \o q[3]
           /\ FlattenSeq(q) = ((q[1] \o q[2]) \o q[3]) \o q[4]
<1> DEFINE p1 == <<q[1]>>
           p2 == [k \in 1..2 |-> q[k]]
           p3 == [k \in 1..3 |-> q[k]]
<1>0. q[1] \in Seq(X) /\ q[2] \in Seq(X) /\ q[3] \in Seq(X) /\ q[4] \in Seq(X)
  OBVIOUS
<1>1. FlattenSeq(p1) = q[1]
  BY <1>0, FlattenOfOne
<1>2. p1 \in [1..1 -> Seq(X)] /\ p1[1] = q[1]
  BY <1>0
<1>3. p2 \in [1..(1 + 1) -> Seq(X)] /\ p2[1] = q[1] /\ p2[1 + 1] = q[2]
  BY <1>0
<1>4. p3 \in [1..(2 + 1) -> Seq(X)] /\ (\A i \in 1..2 : p3[i] = p2[i]) /\ p3[2 + 1] = q[3]
  BY <1>0
<1>5. q \in [1..(3 + 1) -> Seq(X)] /\ (\A i \in 1..3 : q[i] = p3[i]) /\ q[3 + 1] = q[4]
  BY <1>0
<1>6. p2 \in [1..2 -> Seq(X)] /\ p3 \in [1..3 -> Seq(X)] /\ 1 \in Nat /\ 2 \in Nat /\ 3 \in Nat
  BY <1>3, <1>4
<1> HIDE DEF p1, p2, p3
<1>7. FlattenSeq(p2) = FlattenSeq(p1) \o p2[1 + 1]
  <2>1. \A i \in 1..1 : p2[i] = p1[i]
    BY <1>2, <1>3
  <2> QED BY ONLY <1>2, <1>3, <1>6, <2>1, FlattenOfLonger
<1>8. FlattenSeq(p3) = FlattenSeq(p2) \o p3[2 + 1]
  BY ONLY <1>4, <1>6, FlattenOfLonger
<1>9. FlattenSeq(q) = FlattenSeq(p3) \o q[3 + 1]
  BY ONLY <1>5, <1>6, FlattenOfLonger
<1>10. FlattenSeq(p3) = (q[1] \o q[2]) \o q[3]
  BY <1>1, <1>3, <1>4, <1>7, <1>8
<1> QED BY <1>5, <1>9, <1>10 DEF p3

SortedBlock(S) == (Chosen(S, "fact") \o Chosen(S, "rule")) \o Chosen(S, "check")
Sorted(S) == SortedBlock(S) \o Chosen(S, "policy")

LEMMA SortedFacts ==
    ASSUME NEW X, NEW S \in Seq(X)
    PROVE  /\ SortedBlock(S) \in Seq(X) /\ Sorted(S) \in Seq(X)
           /\ Sorted(S) = SortedBlock(S) \o Chosen(S, "policy")
           /\ \A x : x \in Range(SortedBlock(S)) <=> x \in Range(S) /\ x[1] \in {"fact", "rule", "check"}
           /\ \A x : x \in Range(Sorted(S)) <=>
                        x \in Range(SortedBlock(S)) \/ x \in Range(Chosen(S, "policy"))
<1> DEFINE f == Chosen(S, "fact")
           r == Chosen(S, "rule")
           c == Chosen(S, "check")
           p == Chosen(S, "policy")
<1>1. f \in Seq(X) /\ r \in Seq(X) /\ c \in Seq(X) /\ p \in Seq(X)
  BY ChosenFacts
<1>2. /\ \A x : x \in Range(f) <=> x \in Range(S) /\ x[1] = "fact"
      /\ \A x : x \in Range(r) <=> x \in Range(S) /\ x[1] = "rule"
      /\ \A x : x \in Range(c) <=> x \in Range(S) /\ x[1] = "check"
  BY ChosenFacts
<1> HIDE DEF f, r, c, p
<1>3. f \o r \in Seq(X) /\ Range(f \o r) = Range(f) \cup Range(r)
  BY <1>1, JoinFacts
<1> DEFINE fr == f \o r
<1>4. fr \in Seq(X) /\ Range(fr) = Range(f) \cup Range(r)
  BY <1>3
<1> HIDE DEF fr
<1>5. fr \o c \in Seq(X) /\ Range(fr \o c) = Range(fr) \cup Range(c)
  BY <1>1, <1>4, JoinFacts
<1> DEFINE frc == fr \o c
<1>6. frc \in Seq(X) /\ Range(frc) = Range(fr) \cup Range(c)
  BY <1>5
<1>7. SortedBlock(S) = frc
  BY DEF SortedBlock, fr, f, r, c
<1> HIDE DEF frc
<1>8. frc \o p \in Seq(X) /\ Range(frc \o p) = Range(frc) \cup Range(p)
  BY <1>1, <1>6, JoinFacts
<1> DEFINE all == frc \o p
<1>9. all \in Seq(X) /\ Range(all) = Range(frc) \cup Range(p)
  BY <1>8
<1>10. Sorted(S) = all
  BY <1>7 DEF Sorted, p
<1> HIDE DEF all
<1> QED
  <2>1. \A x : x \in Range(frc) <=> x \in Range(S) /\ x[1] \in {"fact", "rule", "check"}
    BY <1>2, <1>4, <1>6
  <2>2. SortedBlock(S) \in Seq(X) /\ Sorted(S) \in Seq(X)
    BY <1>6, <1>7, <1>9, <1>10
  <2>3. \A x : x \in Range(SortedBlock(S)) <=> x \in Range(S) /\ x[1] \in {"fact", "rule", "check"}
    BY <1>7, <2>1
  <2>4. \A x : x \in Range(Sorted(S)) <=> x \in Range(SortedBlock(S)) \/ x \in Range(Chosen(S, "policy"))
    BY <1>7, <1>9, <1>10 DEF p
  <2> QED BY <2>2, <2>3, <2>4 DEF Sorted

\* Statements that are kind by kind are found again in that order.
LEMMA SortedKinds ==
    ASSUME NEW X, NEW S \in Seq(X)
    PROVE  /\ Chosen(Sorted(S), "fact") = Chosen(S, "fact")
           /\ Chosen(Sorted(S), "rule") = Chosen(S, "rule")
           /\ Chosen(Sorted(S), "check") = Chosen(S, "check")
           /\ Chosen(Sorted(S), "policy") = Chosen(S, "policy")
<1> DEFINE Of(kind) == {x \in X : x[1] = kind}
           f == Chosen(S, "fact")
           r == Chosen(S, "rule")
           c == Chosen(S, "check")
           p == Chosen(S, "policy")
<1>1. ASSUME NEW kind PROVE Chosen(S, kind) \in Seq(Of(kind)) /\ Chosen(S, kind) \in Seq(X)
  <2>1. Chosen(S, kind) \in Seq(X) /\ \A x \in Range(Chosen(S, kind)) : x[1] = kind
    BY ChosenFacts
  <2>2. \A i \in DOMAIN Chosen(S, kind) : Chosen(S, kind)[i] \in Of(kind)
    BY <2>1, MappedFacts
  <2> HIDE DEF Of
  <2> QED BY <2>1, <2>2
<1>2. ASSUME NEW kind, NEW other, NEW t \in Seq(Of(other))
      PROVE  Chosen(t, kind) = IF kind = other THEN t ELSE << >>
  <2>1. \A x \in Of(other) : x[1] = other
    OBVIOUS
  <2> HIDE DEF Of
  <2> QED BY <2>1, ChosenOfOneKind
<1>3. f \in Seq(X) /\ r \in Seq(X) /\ c \in Seq(X) /\ p \in Seq(X)
  BY <1>1
<1>4. f \in Seq(Of("fact")) /\ r \in Seq(Of("rule")) /\ c \in Seq(Of("check")) /\ p \in Seq(Of("policy"))
  BY <1>1
<1> DEFINE fr == f \o r
           frc == fr \o c
           all == frc \o p
<1>5. all = Sorted(S)
  BY DEF Sorted, SortedBlock
<1> HIDE DEF Of, f, r, c, p
<1>6. fr \in Seq(X) /\ frc \in Seq(X) /\ all \in Seq(X)
  BY <1>3
<1>7. ASSUME NEW kind
      PROVE  Chosen(all, kind) =
                ((Chosen(f, kind) \o Chosen(r, kind)) \o Chosen(c, kind)) \o Chosen(p, kind)
  <2>1. Chosen(fr, kind) = Chosen(f, kind) \o Chosen(r, kind)
    BY <1>3, ChosenOfConcat
  <2>2. Chosen(fr \o c, kind) = Chosen(fr, kind) \o Chosen(c, kind)
    <3> HIDE DEF fr
    <3> QED BY <1>3, <1>6, ChosenOfConcat
  <2>3. Chosen(frc \o p, kind) = Chosen(frc, kind) \o Chosen(p, kind)
    <3> HIDE DEF frc
    <3> QED BY <1>3, <1>6, ChosenOfConcat
  <2> HIDE DEF fr
  <2> QED BY <2>1, <2>2, <2>3
<1>8. \A s \in Seq(X) : s \o << >> = s /\ << >> \o s = s
  BY ConcatEmptySeq
<1>9. << >> \in Seq(X)
  OBVIOUS
<1>10. Chosen(all, "fact") = f
  <2>1. Chosen(f, "fact") = f /\ Chosen(r, "fact") = << >> /\ Chosen(c, "fact") = << >> /\ Chosen(p, "fact") = << >>
    BY <1>2, <1>4
  <2>2. Chosen(all, "fact") = ((f \o << >>) \o << >>) \o << >>
    BY <1>7, <2>1
  <2> QED BY <1>3, <1>8, <2>2
<1>11. Chosen(all, "rule") = r
  <2>1. Chosen(f, "rule") = << >> /\ Chosen(r, "rule") = r /\ Chosen(c, "rule") = << >> /\ Chosen(p, "rule") = << >>
    BY <1>2, <1>4
  <2>2. Chosen(all, "rule") = ((<< >> \o r) \o << >>) \o << >>
    BY <1>7, <2>1
  <2> QED BY <1>3, <1>8, <2>2
<1>12. Chosen(all, "check") = c
  <2>1. Chosen(f, "check") = << >> /\ Chosen(r, "check") = << >> /\ Chosen(c, "check") = c /\ Chosen(p, "check") = << >>
    BY <1>2, <1>4
  <2>2. Chosen(all, "check") = ((<< >> \o << >>) \o c) \o << >>
    BY <1>7, <2>1
  <2> QED BY <1>3, <1>8, <1>9, <2>2
<1>13. Chosen(all, "policy") = p
  <2>1. Chosen(f, "policy") = << >> /\ Chosen(r, "policy") = << >> /\ Chosen(c, "policy") = << >> /\ Chosen(p, "policy") = p
    BY <1>2, <1>4
  <2>2. Chosen(all, "policy") = ((<< >> \o << >>) \o << >>) \o p
    BY <1>7, <2>1
  <2> QED BY <1>3, <1>8, <1>9, <2>2
<1> QED BY <1>5, <1>10, <1>11, <1>12, <1>13 DEF f, r, c, p

LEMMA SortedTwice ==
    ASSUME NEW X, NEW S \in Seq(X)
    PROVE  Sorted(Sorted(S)) = Sorted(S)
<1>1. PICK all : all = Sorted(S)
  OBVIOUS
<1>2. /\ Chosen(all, "fact") = Chosen(S, "fact") /\ Chosen(all, "rule") = Chosen(S, "rule")
      /\ Chosen(all, "check") = Chosen(S, "check") /\ Chosen(all, "policy") = Chosen(S, "policy")
  BY <1>1, SortedKinds
<1> QED BY ONLY <1>1, <1>2 DEF Sorted, SortedBlock

\* Checks and then policies are in order.
LEMMA SortedQueries ==
    ASSUME NEW X, NEW S \in Seq(X), NEW A, A = Chosen(S, "check") \o Chosen(S, "policy")
    PROVE  Sorted(A) = A
<1> DEFINE Of(kind) == {x \in X : x[1] = kind}
           c == Chosen(S, "check")
           p == Chosen(S, "policy")
<1>1. ASSUME NEW kind PROVE Chosen(S, kind) \in Seq(Of(kind)) /\ Chosen(S, kind) \in Seq(X)
  <2>1. Chosen(S, kind) \in Seq(X) /\ \A x \in Range(Chosen(S, kind)) : x[1] = kind
    BY ChosenFacts
  <2>2. \A i \in DOMAIN Chosen(S, kind) : Chosen(S, kind)[i] \in Of(kind)
    BY <2>1, MappedFacts
  <2> HIDE DEF Of
  <2> QED BY <2>1, <2>2
<1>2. ASSUME NEW kind, NEW other, NEW t \in Seq(Of(other))
      PROVE  Chosen(t, kind) = IF kind = other THEN t ELSE << >>
  <2>1. \A x \in Of(other) : x[1] = other
    OBVIOUS
  <2> HIDE DEF Of
  <2> QED BY <2>1, ChosenOfOneKind
<1>3. c \in Seq(X) /\ p \in Seq(X) /\ c \in Seq(Of("check")) /\ p \in Seq(Of("policy"))
  BY <1>1
<1>4. A = c \o p
  OBVIOUS
<1> HIDE DEF Of, c, p
<1>5. \A kind : Chosen(A, kind) = Chosen(c, kind) \o Chosen(p, kind)
  BY ONLY <1>3, <1>4, ChosenOfConcat
<1>6. \A kind : /\ Chosen(c, kind) = IF kind = "check" THEN c ELSE << >>
                /\ Chosen(p, kind) = IF kind = "policy" THEN p ELSE << >>
  BY ONLY <1>2, <1>3
<1>7. /\ c \o << >> = c /\ << >> \o c = c /\ << >> \o p = p /\ << >> \o << >> = << >>
  <2>1. \A s \in Seq(X) : s \o << >> = s /\ << >> \o s = s
    BY ConcatEmptySeq
  <2>2. << >> \in Seq(X)
    OBVIOUS
  <2> QED BY ONLY <1>3, <2>1, <2>2
<1>8. /\ Chosen(A, "fact") = << >> /\ Chosen(A, "rule") = << >>
      /\ Chosen(A, "check") = c /\ Chosen(A, "policy") = p
  BY ONLY <1>5, <1>6, <1>7
<1> QED BY ONLY <1>4, <1>7, <1>8 DEF Sorted, SortedBlock

LEMMA BuilderStatements ==
    ASSUME NEW X, NEW b, Applied(b.items) \in Seq(X)
    PROVE  /\ BlockStatements(b) = SortedBlock(Applied(b.items))
           /\ Policies(b) = Chosen(Applied(b.items), "policy")
           /\ InOrder(b) = Sorted(Applied(b.items))
<1> DEFINE Y == {b.items[i] : i \in DOMAIN b.items}
           S == Applied(b.items)
           q == [k \in 1..4 |-> OfKind(b, <<"fact", "rule", "check", "policy">>[k])]
<1>1. \A kind : OfKind(b, kind) \in Seq(Y) /\ Applied(OfKind(b, kind)) = Chosen(S, kind)
  BY AppliedOfKind
<1>2. /\ q[1] = OfKind(b, "fact") /\ q[2] = OfKind(b, "rule") /\ q[3] = OfKind(b, "check")
      /\ q[4] = OfKind(b, "policy")
  OBVIOUS
<1>3. [k \in 1..3 |-> OfKind(b, <<"fact", "rule", "check">>[k])] = [k \in 1..3 |-> q[k]]
  <2>1. \A k \in 1..3 : <<"fact", "rule", "check">>[k] = <<"fact", "rule", "check", "policy">>[k]
    OBVIOUS
  <2> QED BY <2>1
<1>4. /\ InOrder(b) = Applied(FlattenSeq(q))
      /\ BlockStatements(b) = Applied(FlattenSeq([k \in 1..3 |-> q[k]]))
      /\ Policies(b) = Applied(q[4])
  BY <1>2, <1>3 DEF InOrder, BlockStatements, Policies
<1>5. q \in [1..4 -> Seq(Y)]
  BY <1>1
<1> HIDE DEF q, Y, S
<1>6. /\ FlattenSeq([k \in 1..3 |-> q[k]]) = (q[1] \o q[2]) \o q[3]
      /\ FlattenSeq(q) = ((q[1] \o q[2]) \o q[3]) \o q[4]
  BY <1>5, FlattenOfFour
<1>7. q[1] \in Seq(Y) /\ q[2] \in Seq(Y) /\ q[3] \in Seq(Y) /\ q[4] \in Seq(Y)
  BY <1>5
<1> DEFINE q12 == q[1] \o q[2]
           q123 == q12 \o q[3]
<1>8. q12 \in Seq(Y) /\ q123 \in Seq(Y)
  BY <1>7
<1>9. Applied(q[1] \o q[2]) = Applied(q[1]) \o Applied(q[2])
  BY <1>7, AppliedOfConcat
<1>10. Applied(q12 \o q[3]) = Applied(q12) \o Applied(q[3])
  <2> HIDE DEF q12
  <2> QED BY <1>7, <1>8, AppliedOfConcat
<1>11. Applied(q123 \o q[4]) = Applied(q123) \o Applied(q[4])
  <2> HIDE DEF q123
  <2> QED BY <1>7, <1>8, AppliedOfConcat
<1>12. /\ Applied(q[1]) = Chosen(S, "fact") /\ Applied(q[2]) = Chosen(S, "rule")
       /\ Applied(q[3]) = Chosen(S, "check") /\ Applied(q[4]) = Chosen(S, "policy")
  BY <1>1, <1>2
<1>13. Applied(q123) = SortedBlock(S)
  BY <1>9, <1>10, <1>12 DEF SortedBlock
<1>14. BlockStatements(b) = SortedBlock(S) /\ InOrder(b) = SortedBlock(S) \o Chosen(S, "policy")
  BY <1>4, <1>6, <1>11, <1>12, <1>13
<1> QED BY <1>4, <1>12, <1>14 DEF Sorted, S

-----------------------------------------------------------------------------
(* A statement without parameters is its own template.                         *)

ApplyFrom(u, table, to) ==
    LET Key(e) ==
            IF e[1][1] = "param" /\ table[e[1][2]][1] \in {"int", "str"}
            THEN table[e[1][2]] ELSE e[1]
        Winner(entries) ==
            CHOOSE e \in entries :
                (\E d \in entries : d[1][1] = "param") => e[1][1] = "param"
        AtKey(entries, k) == {e \in entries : Key(e) = k}
        All(s) == [i \in DOMAIN s |-> to[s[i]]]
        At(entries, k) == <<k, to[Winner(AtKey(entries, k))[2]]>>
    IN  CASE u[1] = "param" -> table[u[2]]
          [] u[1] = "array" -> <<"array", All(u[2])>>
          [] u[1] = "set"   -> <<"set", {to[v] : v \in u[2]}>>
          [] u[1] = "map"   -> <<"map", {At(u[2], k) : k \in {Key(e) : e \in u[2]}}>>
          [] OTHER          -> u

LEMMA ApplyFromSame ==
    ASSUME NEW W, NEW table, NEW to, NEW u \in Nodes(W, MaxNesting), u[1] # "param",
           \A p \in Range(Parts(u)) : to[p] = p /\ p[1] # "param"
    PROVE  ApplyFrom(u, table, to) = u
<1>1. CASE u[1] = "array"
  <2>1. u = <<"array", u[2]>> /\ u[2] \in Seq(TermsOver(W))
    BY <1>1, OverKinds
  <2>2. \A i \in DOMAIN u[2] : to[u[2][i]] = u[2][i]
    BY <1>1 DEF Parts, Range
  <2>3. [i \in DOMAIN u[2] |-> to[u[2][i]]] = u[2]
    <3>1. u[2] = [i \in DOMAIN u[2] |-> u[2][i]]
      BY <2>1
    <3> QED BY <2>2, <3>1
  <2>4. ApplyFrom(u, table, to) = <<"array", [i \in DOMAIN u[2] |-> to[u[2][i]]]>>
    BY <1>1 DEF ApplyFrom
  <2> QED BY <2>1, <2>3, <2>4
<1>2. CASE u[1] = "set"
  <2>1. u = <<"set", u[2]>> /\ Range(Parts(u)) = u[2]
    BY <1>2, OverKinds, OverParts
  <2>2. {to[v] : v \in u[2]} = u[2]
    BY <2>1
  <2>3. ApplyFrom(u, table, to) = <<"set", {to[v] : v \in u[2]}>>
    BY <1>2 DEF ApplyFrom
  <2> QED BY <2>1, <2>2, <2>3
<1>3. CASE u[1] = "map"
  <2> DEFINE Key(e) == IF e[1][1] = "param" /\ table[e[1][2]][1] \in {"int", "str"}
                       THEN table[e[1][2]] ELSE e[1]
             Winner(entries) == CHOOSE e \in entries :
                (\E d \in entries : d[1][1] = "param") => e[1][1] = "param"
             AtKey(entries, k) == {e \in entries : Key(e) = k}
             M == {<<k, to[Winner(AtKey(u[2], k))[2]]>> : k \in {Key(e) : e \in u[2]}}
  <2>1. /\ u = <<"map", u[2]>> /\ u[2] \subseteq MapKeys(W) \X TermsOver(W)
        /\ \A d, e \in u[2] : d[1] = e[1] => d = e
    BY <1>3, OverKinds
  <2>2. Range(Parts(u)) = UNION {{e[1], e[2]} : e \in u[2]}
    BY <1>3, OverParts
  <2>3. \A e \in u[2] : e[1][1] # "param" /\ to[e[2]] = e[2] /\ Key(e) = e[1] /\ e = <<e[1], e[2]>>
    <3> SUFFICES ASSUME NEW e \in u[2]
                 PROVE  e[1][1] # "param" /\ to[e[2]] = e[2] /\ Key(e) = e[1] /\ e = <<e[1], e[2]>>
      OBVIOUS
    <3>1. e[1] \in Range(Parts(u)) /\ e[2] \in Range(Parts(u))
      BY <2>2
    <3> QED BY <2>1, <3>1
  <2>4. \A e \in u[2] : AtKey(u[2], Key(e)) = {e}
    BY <2>1, <2>3
  <2>5. \A e \in u[2] : Winner(AtKey(u[2], Key(e))) = e
    <3> SUFFICES ASSUME NEW e \in u[2] PROVE Winner(AtKey(u[2], Key(e))) = e
      OBVIOUS
    <3>1. Winner({e}) = e
      OBVIOUS
    <3> HIDE DEF Winner
    <3> QED BY <2>4, <3>1
  <2> HIDE DEF Winner, AtKey
  <2>6. M = u[2]
    <3>1. ASSUME NEW e \in u[2] PROVE e \in M
      <4>1. <<Key(e), to[Winner(AtKey(u[2], Key(e)))[2]]>> = e
        BY <2>3, <2>5
      <4>2. <<Key(e), to[Winner(AtKey(u[2], Key(e)))[2]]>> \in M
        OBVIOUS
      <4> QED BY <4>1, <4>2
    <3>2. ASSUME NEW m \in M PROVE m \in u[2]
      <4>1. PICK e \in u[2] : m = <<Key(e), to[Winner(AtKey(u[2], Key(e)))[2]]>>
        OBVIOUS
      <4>2. m = e
        BY <2>3, <2>5, <4>1, SMTT(60)
      <4> QED BY <4>2
    <3> QED BY <3>1, <3>2
  <2>7. ApplyFrom(u, table, to) = <<"map", M>>
    BY <1>3, ZenonT(60) DEF ApplyFrom, Winner, AtKey
  <2> HIDE DEF M
  <2> QED BY <2>1, <2>6, <2>7
<1>4. CASE u[1] \notin {"param", "array", "set", "map"}
  BY <1>4 DEF ApplyFrom
<1> QED BY <1>1, <1>2, <1>3, <1>4

LEMMA ApplyTermSame ==
    ASSUME NEW W, NEW table, NEW t \in Nodes(W, MaxNesting), ~HasParameter(t)
    PROVE  ApplyTerm(t, table) = t
<1> DEFINE Way(w) == w = [u \in Within(t) |-> ApplyFrom(u, table, w)]
           to == CHOOSE w : Way(w)
           k == [u \in Within(t) |-> u]
<1>1. ApplyTerm(t, table) = to[t]
  BY DEF ApplyTerm, ApplyFrom
<1>2. /\ t \in Within(t) /\ Within(t) \subseteq Nodes(W, MaxNesting)
      /\ \A y \in Within(t) : Range(Parts(y)) \subseteq Within(t)
  BY WithinFacts
<1>3. \A y \in Within(t) : y[1] # "param"
  BY DEF HasParameter
<1>4. k = [u \in Within(t) |-> ApplyFrom(u, table, k)]
  <2>1. \A u \in Within(t) : ApplyFrom(u, table, k) = u
    <3> SUFFICES ASSUME NEW u \in Within(t) PROVE ApplyFrom(u, table, k) = u
      OBVIOUS
    <3>1. \A p \in Range(Parts(u)) : k[p] = p /\ p[1] # "param"
      BY <1>2, <1>3
    <3> HIDE DEF k
    <3> QED BY <1>2, <1>3, <3>1, ApplyFromSame
  <2>2. k = [u \in Within(t) |-> u]
    OBVIOUS
  <2> HIDE DEF k
  <2> QED BY <2>1, <2>2
<1> HIDE DEF k
<1>5. Way(to)
  <2>1. Way(k)
    BY <1>4
  <2> HIDE DEF Way
  <2> QED BY <2>1
<1> HIDE DEF to
<1>6. \A u \in Within(t) : to[u] = ApplyFrom(u, table, to)
  BY <1>5
<1> DEFINE T == {y \in Nodes(W, MaxNesting) : y \in Within(t) => to[y] = y}
<1>7. ASSUME NEW y \in Nodes(W, MaxNesting), Range(Parts(y)) \subseteq T PROVE y \in T
  <2>1. CASE y \in Within(t)
    <3>1. \A p \in Range(Parts(y)) : to[p] = p /\ p[1] # "param"
      BY <1>2, <1>3, <1>7, <2>1
    <3>2. y[1] # "param"
      BY <1>3, <2>1
    <3>3. ApplyFrom(y, table, to) = y
      BY <3>1, <3>2, ApplyFromSame
    <3> QED BY <1>6, <2>1, <3>3
  <2> QED BY <2>1
<1> HIDE DEF T
<1>8. Nodes(W, MaxNesting) \subseteq T
  BY <1>7, NodeInduction
<1> QED BY <1>1, <1>2, <1>8 DEF T

ApplyOpFrom(o, table, to) ==
    LET All(ops) == [i \in DOMAIN ops |-> to[ops[i]]]
    IN  CASE o[1] = "value"   -> <<"value", ApplyTop(o[2], table)>>
          [] o[1] = "closure" -> <<"closure", o[2], All(o[3])>>
          [] OTHER -> o

LEMMA ApplyOpFromSame ==
    ASSUME NEW W, NEW table, \A n \in DOMAIN table : table[n] = Unset,
           NEW to, NEW o \in Nodes(W, MaxNesting), \A p \in Range(Parts(o)) : to[p] = p
    PROVE  ApplyOpFrom(o, table, to) = o
<1>1. CASE o[1] = "value"
  <2>1. o = <<"value", o[2]>>
    BY <1>1, OverKinds
  <2>2. ApplyTop(o[2], table) = o[2]
    BY DEF ApplyTop
  <2>3. ApplyOpFrom(o, table, to) = <<"value", ApplyTop(o[2], table)>>
    BY <1>1 DEF ApplyOpFrom
  <2> QED BY <2>1, <2>2, <2>3
<1>2. CASE o[1] = "closure"
  <2>1. o = <<"closure", o[2], o[3]>> /\ o[3] \in Seq(OpsOver(W))
    BY <1>2, OverKinds
  <2>2. \A i \in DOMAIN o[3] : to[o[3][i]] = o[3][i]
    BY <1>2 DEF Parts, Range
  <2>3. [i \in DOMAIN o[3] |-> to[o[3][i]]] = o[3]
    <3>1. o[3] = [i \in DOMAIN o[3] |-> o[3][i]]
      BY <2>1
    <3> QED BY <2>2, <3>1
  <2>4. ApplyOpFrom(o, table, to) = <<"closure", o[2], [i \in DOMAIN o[3] |-> to[o[3][i]]]>>
    BY <1>2 DEF ApplyOpFrom
  <2> QED BY <2>1, <2>3, <2>4
<1>3. CASE o[1] \notin {"value", "closure"}
  BY <1>3 DEF ApplyOpFrom
<1> QED BY <1>1, <1>2, <1>3

LEMMA ApplyOpSame ==
    ASSUME NEW W, NEW table, \A n \in DOMAIN table : table[n] = Unset,
           NEW op \in Nodes(W, MaxNesting)
    PROVE  ApplyOp(op, table) = op
<1> DEFINE Way(w) == w = [u \in Within(op) |-> ApplyOpFrom(u, table, w)]
           to == CHOOSE w : Way(w)
           k == [u \in Within(op) |-> u]
<1>1. ApplyOp(op, table) = to[op]
  BY DEF ApplyOp, ApplyOpFrom
<1>2. /\ op \in Within(op) /\ Within(op) \subseteq Nodes(W, MaxNesting)
      /\ \A y \in Within(op) : Range(Parts(y)) \subseteq Within(op)
  BY WithinFacts
<1>4. k = [u \in Within(op) |-> ApplyOpFrom(u, table, k)]
  <2>1. \A u \in Within(op) : ApplyOpFrom(u, table, k) = u
    <3> SUFFICES ASSUME NEW u \in Within(op) PROVE ApplyOpFrom(u, table, k) = u
      OBVIOUS
    <3>1. \A p \in Range(Parts(u)) : k[p] = p
      BY <1>2
    <3> HIDE DEF k
    <3> QED BY <1>2, <3>1, ApplyOpFromSame
  <2>2. k = [u \in Within(op) |-> u]
    OBVIOUS
  <2> HIDE DEF k
  <2> QED BY <2>1, <2>2
<1> HIDE DEF k
<1>5. Way(to)
  <2>1. Way(k)
    BY <1>4
  <2> HIDE DEF Way
  <2> QED BY <2>1
<1> HIDE DEF to
<1>6. \A u \in Within(op) : to[u] = ApplyOpFrom(u, table, to)
  BY <1>5
<1> DEFINE T == {y \in Nodes(W, MaxNesting) : y \in Within(op) => to[y] = y}
<1>7. ASSUME NEW y \in Nodes(W, MaxNesting), Range(Parts(y)) \subseteq T PROVE y \in T
  <2>1. CASE y \in Within(op)
    <3>1. \A p \in Range(Parts(y)) : to[p] = p
      BY <1>2, <1>7, <2>1
    <3>2. ApplyOpFrom(y, table, to) = y
      BY <3>1, ApplyOpFromSame
    <3> QED BY <1>6, <2>1, <3>2
  <2> QED BY <2>1
<1> HIDE DEF T
<1>8. Nodes(W, MaxNesting) \subseteq T
  BY <1>7, NodeInduction
<1> QED BY <1>1, <1>2, <1>8 DEF T

EmptyTable(table) == \A n \in DOMAIN table : table[n] = Unset
EachTop(l, table) == [i \in DOMAIN l |-> ApplyTop(l[i], table)]
TermsApplied(p, table) == <<p[1], p[2], EachTop(p[3], table)>>
EachTermsApplied(b, table) == [i \in DOMAIN b |-> TermsApplied(b[i], table)]
EachOpApplied(e, table) == [i \in DOMAIN e |-> ApplyOp(e[i], table)]
EachExpressionApplied(x, table) == [i \in DOMAIN x |-> EachOpApplied(x[i], table)]

LEMMA ApplyRuleIs ==
    ASSUME NEW rule, NEW table, NEW keys
    PROVE  ApplyRule(rule, table, keys) =
              [head |-> IF rule.head = << >> THEN << >> ELSE TermsApplied(rule.head, table),
               body |-> EachTermsApplied(rule.body, table),
               expressions |-> EachExpressionApplied(rule.expressions, table),
               scopes |-> EachTop(rule.scopes, keys)]
  BY DEF ApplyRule, TermsApplied, EachTop, EachTermsApplied, EachExpressionApplied, EachOpApplied

LEMMA EachTopSame ==
    ASSUME NEW A, NEW l \in Seq(A), NEW table, EmptyTable(table)
    PROVE  EachTop(l, table) = l
<1>1. \A t : ApplyTop(t, table) = t
  BY DEF ApplyTop, EmptyTable
<1>2. EachTop(l, table) = [i \in DOMAIN l |-> l[i]]
  BY <1>1 DEF EachTop
<1>3. l = [i \in DOMAIN l |-> l[i]]
  OBVIOUS
<1> QED BY <1>2, <1>3

LEMMA TermsAppliedSame ==
    ASSUME NEW W, NEW p \in PredicatesOver(W), NEW table, EmptyTable(table)
    PROVE  TermsApplied(p, table) = p
  BY PredicateShape, EachTopSame DEF TermsApplied

LEMMA ApplyRuleSame ==
    ASSUME NEW W, NEW K, NEW r \in RulesIn(W, K), NEW table, NEW keys,
           EmptyTable(table), EmptyTable(keys)
    PROVE  ApplyRule(r, table, keys) = r
<1>1. /\ r = [head |-> r.head, body |-> r.body, expressions |-> r.expressions, scopes |-> r.scopes]
      /\ r.head = << >> \/ r.head \in PredicatesOver(W)
      /\ r.body \in Seq(PredicatesOver(W)) /\ r.expressions \in Seq(Seq(OpsOver(W)))
      /\ r.scopes \in Seq(ScopesOver(K))
  BY RuleShape
<1>2. (IF r.head = << >> THEN << >> ELSE TermsApplied(r.head, table)) = r.head
  BY <1>1, TermsAppliedSame
<1>3. EachTermsApplied(r.body, table) = r.body
  <2>1. \A i \in DOMAIN r.body : r.body[i] \in PredicatesOver(W)
    BY <1>1
  <2>2. \A i \in DOMAIN r.body : TermsApplied(r.body[i], table) = r.body[i]
    BY <2>1, TermsAppliedSame
  <2>3. r.body = [i \in DOMAIN r.body |-> r.body[i]]
    BY <1>1
  <2> QED BY <2>2, <2>3 DEF EachTermsApplied
<1>4. EachExpressionApplied(r.expressions, table) = r.expressions
  <2>1. ASSUME NEW e \in Seq(OpsOver(W)) PROVE EachOpApplied(e, table) = e
    <3>1. \A i \in DOMAIN e : e[i] \in Nodes(W, MaxNesting)
      BY NodesNested
    <3>2. \A i \in DOMAIN e : ApplyOp(e[i], table) = e[i]
      BY <3>1, ApplyOpSame DEF EmptyTable
    <3>3. e = [i \in DOMAIN e |-> e[i]]
      OBVIOUS
    <3> QED BY <3>2, <3>3 DEF EachOpApplied
  <2>2. \A i \in DOMAIN r.expressions : r.expressions[i] \in Seq(OpsOver(W))
    BY <1>1
  <2>3. \A i \in DOMAIN r.expressions : EachOpApplied(r.expressions[i], table) = r.expressions[i]
    BY <2>1, <2>2
  <2>4. r.expressions = [i \in DOMAIN r.expressions |-> r.expressions[i]]
    BY <1>1
  <2> QED BY <2>3, <2>4 DEF EachExpressionApplied
<1>5. EachTop(r.scopes, keys) = r.scopes
  BY <1>1, EachTopSame
<1> QED BY ONLY <1>1, <1>2, <1>3, <1>4, <1>5, ApplyRuleIs

EachRuleApplied(l, table, keys) == [i \in DOMAIN l |-> ApplyRule(l[i], table, keys)]
EachTermApplied(l, table) == [i \in DOMAIN l |-> ApplyTerm(l[i], table)]

LEMMA ApplyParametersIs ==
    ASSUME NEW item
    PROVE  /\ item.statement[1] = "fact" =>
                 apply_parameters(item) =
                    <<"fact", <<"predicate", item.statement[2][2],
                                EachTermApplied(item.statement[2][3], item.parameters)>>>>
           /\ item.statement[1] = "rule" =>
                 apply_parameters(item) =
                    <<"rule", ApplyRule(item.statement[2], item.parameters, item.scope_parameters)>>
           /\ item.statement[1] \notin {"fact", "rule"} =>
                 apply_parameters(item) =
                    <<item.statement[1], item.statement[2],
                      EachRuleApplied(item.statement[3], item.parameters, item.scope_parameters)>>
  BY DEF apply_parameters, EachTermApplied, EachRuleApplied

\* What is restored is a template of a statement without parameters.
LEMMA TemplateApplied ==
    ASSUME NEW W, NEW K, NEW s \in StatementsOver(W, K), ~Remains(s)
    PROVE  /\ apply_parameters(Template(s, "code")) = s
           /\ Template(s, "code").statement = s
<1> DEFINE item == Template(s, "code")
<1>1. /\ item.statement = s /\ EmptyTable(item.parameters) /\ EmptyTable(item.scope_parameters)
  BY DEF Template, EmptyTable
<1> HIDE DEF item
<1>2. /\ s[1] \in {"fact", "rule", "check", "policy"}
      /\ s[1] = "fact" => s = <<"fact", s[2]>> /\ s[2] \in PredicatesOver(W)
      /\ s[1] = "rule" => s = <<"rule", s[2]>> /\ s[2] \in RulesIn(W, K)
      /\ s[1] \in {"check", "policy"} => s = <<s[1], s[2], s[3]>> /\ s[3] \in Seq(QueriesOver(W, K))
      /\ s[1] = "fact" => s[2] \in Range(Facts(s))
  <2>1. s[1] \in {"fact", "rule", "check", "policy"}
    BY StatementShape
  <2>2. /\ s[1] = "fact" => s = <<"fact", s[2]>> /\ s[2] \in PredicatesOver(W)
        /\ s[1] = "rule" => s = <<"rule", s[2]>> /\ s[2] \in RulesOver(W, K)
        /\ s[1] = "check" => s = <<"check", s[2], s[3]>>
        /\ s[1] = "policy" => s = <<"policy", s[2], s[3]>>
        /\ s[1] \in {"check", "policy"} => s[3] \in Seq(QueriesOver(W, K))
        /\ s[1] = "fact" => s[2] \in Range(Facts(s))
    BY StatementShape
  <2>3. RulesOver(W, K) \subseteq RulesIn(W, K)
    BY DEF RulesIn
  <2>4. s[1] \in {"check", "policy"} => s = <<s[1], s[2], s[3]>>
    BY <2>2
  <2> QED BY ONLY <2>1, <2>2, <2>3, <2>4
<1>3. CASE s[1] = "fact"
  <2>1. /\ s[2] = <<"predicate", s[2][2], s[2][3]>> /\ s[2][3] \in Seq(TermsOver(W))
        /\ \A t \in Range(s[2][3]) : t \in Nodes(W, MaxNesting)
    BY <1>2, <1>3, PredicateShape
  <2>2. \A t \in Range(s[2][3]) : ~HasParameter(t)
    BY <1>2, <1>3 DEF Remains
  <2>3. \A i \in DOMAIN s[2][3] : s[2][3][i] \in Range(s[2][3])
    BY DEF Range
  <2>4. \A i \in DOMAIN s[2][3] : ApplyTerm(s[2][3][i], item.parameters) = s[2][3][i]
    BY <2>1, <2>2, <2>3, ApplyTermSame
  <2>5. s[2][3] = [i \in DOMAIN s[2][3] |-> s[2][3][i]]
    BY <2>1
  <2>6. EachTermApplied(s[2][3], item.parameters) = s[2][3]
    BY <2>4, <2>5 DEF EachTermApplied
  <2>7. apply_parameters(item) = <<"fact", <<"predicate", s[2][2], EachTermApplied(s[2][3], item.parameters)>>>>
    BY <1>1, <1>3, ApplyParametersIs
  <2> QED BY ONLY <1>1, <1>2, <1>3, <2>1, <2>6, <2>7 DEF item
<1>4. CASE s[1] = "rule"
  <2>1. ApplyRule(s[2], item.parameters, item.scope_parameters) = s[2]
    BY <1>1, <1>2, <1>4, ApplyRuleSame
  <2>2. apply_parameters(item) = <<"rule", ApplyRule(s[2], item.parameters, item.scope_parameters)>>
    BY <1>1, <1>4, ApplyParametersIs
  <2> QED BY ONLY <1>1, <1>2, <1>4, <2>1, <2>2 DEF item
<1>5. CASE s[1] \in {"check", "policy"}
  <2>1. \A i \in DOMAIN s[3] : s[3][i] \in RulesIn(W, K)
    BY <1>2, <1>5 DEF RulesIn
  <2>2. \A i \in DOMAIN s[3] : ApplyRule(s[3][i], item.parameters, item.scope_parameters) = s[3][i]
    BY <1>1, <2>1, ApplyRuleSame
  <2>3. s[3] = [i \in DOMAIN s[3] |-> s[3][i]]
    BY <1>2, <1>5
  <2>4. EachRuleApplied(s[3], item.parameters, item.scope_parameters) = s[3]
    BY <2>2, <2>3 DEF EachRuleApplied
  <2>5. apply_parameters(item) =
           <<s[1], s[2], EachRuleApplied(s[3], item.parameters, item.scope_parameters)>>
    BY <1>1, <1>5, ApplyParametersIs
  <2> QED BY ONLY <1>1, <1>2, <1>5, <2>4, <2>5 DEF item
<1> QED BY ONLY <1>2, <1>3, <1>4, <1>5

-----------------------------------------------------------------------------
(* What is built.                                                              *)

LEMMA ScopesStayPlain ==
    ASSUME NEW K, NEW L, NEW g, NEW l \in Seq(ScopesOver(K)), NoParameters(l),
           \A k : <<"key", k>> \in Range(l) => g[k] \in L
    PROVE  NoParameters(TranslateScopes(l, g))
<1> DEFINE t == TranslateScopes(l, g)
<1>1. \A sc : sc[1] # "key" => (sc \in Range(t) <=> sc \in Range(l))
  BY TranslateScopesFacts
<1> HIDE DEF t
<1>2. \A sc \in Range(t) : sc[1] # "param"
  <2> SUFFICES ASSUME NEW sc \in Range(t), sc[1] = "param" PROVE FALSE
    OBVIOUS
  <2>1. sc[1] # "key"
    OBVIOUS
  <2>2. sc \in Range(l)
    BY <1>1, <2>1
  <2> QED BY <2>2 DEF NoParameters
<1> QED BY <1>2 DEF NoParameters, t

LEMMA StatementStaysPlain ==
    ASSUME NEW W, NEW K, NEW V, NEW L, NEW f, NEW g, NEW s \in StatementsOver(W, K),
           Suits(StatementNames(s), f, V), \A k \in StatementKeyNames(s) : g[k] \in L,
           NoScopeParameters(s)
    PROVE  NoScopeParameters(TranslateStatement(s, f, g))
<1> DEFINE q == TranslateStatement(s, f, g)
<1>1. Range(Queries(q)) = {TranslateRule(r, f, g) : r \in Range(Queries(s))}
  <2>1. q \in StatementsOver(V, L) /\ IsStatementImage(q, s, f, g)
    BY TranslateStatementType
  <2> QED BY <2>1 DEF IsStatementImage
<1>2. \A r \in Range(Queries(s)) :
         /\ r \in RulesIn(W, K)
         /\ \A k : <<"key", k>> \in Range(r.scopes) => k \in StatementKeyNames(s)
  BY StatementNamesWithin
<1> HIDE DEF q
<1>3. ASSUME NEW r \in Range(Queries(s))
      PROVE  NoParameters(TranslateRule(r, f, g).scopes)
  <2>1. TranslateRule(r, f, g).scopes = TranslateScopes(r.scopes, g)
    BY DEF TranslateRule
  <2>2. r.scopes \in Seq(ScopesOver(K))
    BY <1>2, RuleShape
  <2>3. NoParameters(r.scopes)
    BY DEF NoScopeParameters
  <2>4. \A k : <<"key", k>> \in Range(r.scopes) => g[k] \in L
    BY <1>2
  <2> QED BY ONLY <2>1, <2>2, <2>3, <2>4, ScopesStayPlain
<1>4. \A x \in Range(Queries(q)) : NoParameters(x.scopes)
  BY <1>1, <1>3
<1> QED BY <1>4 DEF NoScopeParameters, q

Plainly(S) == \A s \in Range(S) : NoScopeParameters(s)
AllEven(S) == \A s \in Range(S) : EvenStatement(s)

LEMMA AllStayPlain ==
    ASSUME NEW W, NEW K, NEW V, NEW L, NEW f, NEW g, NEW S \in Seq(StatementsOver(W, K)),
           Suits(NamesOf(S), f, V), \A k \in KeyNamesOf(S) : g[k] \in L, Plainly(S)
    PROVE  /\ Plainly(TranslateAll(S, f, g))
           /\ AllEven(TranslateAll(S, f, g)) <=> AllEven(S)
<1> DEFINE Q == TranslateAll(S, f, g)
<1>1. /\ DOMAIN Q = DOMAIN S
      /\ \A i \in DOMAIN S : Q[i] = TranslateStatement(S[i], f, g)
  BY DEF TranslateAll
<1> HIDE DEF Q
<1>2. ASSUME NEW i \in DOMAIN S
      PROVE  /\ NoScopeParameters(Q[i])
             /\ EvenStatement(Q[i]) <=> EvenStatement(S[i])
  <2>1. /\ S[i] \in StatementsOver(W, K)
        /\ StatementNames(S[i]) \subseteq NamesOf(S)
        /\ StatementKeyNames(S[i]) \subseteq KeyNamesOf(S)
    BY NamesInList
  <2>2. Suits(StatementNames(S[i]), f, V) /\ \A k \in StatementKeyNames(S[i]) : g[k] \in L
    BY <2>1 DEF Suits
  <2>3. NoScopeParameters(S[i])
    BY DEF Plainly, Range
  <2>4. NoScopeParameters(TranslateStatement(S[i], f, g))
    BY <2>1, <2>2, <2>3, StatementStaysPlain
  <2>5. EvenStatement(TranslateStatement(S[i], f, g)) <=> EvenStatement(S[i])
    BY <2>1, <2>2, EvenStatementKept
  <2> QED BY <1>1, <2>4, <2>5
<1>3. \A x : x \in Range(Q) <=> \E i \in DOMAIN S : x = Q[i]
  BY <1>1 DEF Range
<1>4. \A x : x \in Range(S) <=> \E i \in DOMAIN S : x = S[i]
  BY DEF Range
<1>5. Plainly(Q)
  BY <1>2, <1>3 DEF Plainly
<1>6. AllEven(Q) <=> AllEven(S)
  BY <1>2, <1>3, <1>4 DEF AllEven
<1> QED BY <1>5, <1>6 DEF Q

\* The statements of a builder that has no parameter left.
LEMMA RemainsNot ==
    ASSUME NEW s, ~Remains(s)
    PROVE  NoScopeParameters(s)
  BY DEF Remains, NoScopeParameters, NoParameters

LEMMA BuilderTypes ==
    ASSUME NEW b, WellTyped(b)
    PROVE  /\ InOrder(b) \in Seq(StatementsOver(STRING, STRING))
           /\ b.scopes \in Seq(ScopesOver(STRING))
<1> DEFINE A == Applied(b.items)
<1>1. A \in Seq(StatementsOver(STRING, STRING)) /\ b.scopes \in Seq(ScopesOver(STRING))
  BY DEF WellTyped
<1>2. InOrder(b) = Sorted(A)
  BY <1>1, BuilderStatements
<1> HIDE DEF A
<1>3. Sorted(A) \in Seq(StatementsOver(STRING, STRING))
  BY <1>1, SortedFacts
<1> QED BY <1>1, <1>2, <1>3

LEMMA BuilderFacts ==
    ASSUME NEW b, WellTyped(b), ~Panics(b)
    PROVE  /\ BlockStatements(b) \in Seq(StatementsOver(STRING, STRING))
           /\ Policies(b) \in Seq(StatementsOver(STRING, STRING))
           /\ InOrder(b) \in Seq(StatementsOver(STRING, STRING))
           /\ InOrder(b) = BlockStatements(b) \o Policies(b)
           /\ \A s \in Range(InOrder(b)) : ~Remains(s)
           /\ Plainly(InOrder(b)) /\ Plainly(BlockStatements(b)) /\ Plainly(Policies(b))
           /\ \A s \in Range(BlockStatements(b)) : s[1] \in {"fact", "rule", "check"}
           /\ \A s \in Range(Policies(b)) : s[1] = "policy"
           /\ b.scopes \in Seq(ScopesOver(STRING)) /\ NoParameters(b.scopes)
<1> DEFINE X == StatementsOver(STRING, STRING)
           A == Applied(b.items)
<1>1. A \in Seq(X) /\ b.scopes \in Seq(ScopesOver(STRING))
  BY DEF WellTyped
<1>2. /\ BlockStatements(b) = SortedBlock(A) /\ Policies(b) = Chosen(A, "policy")
      /\ InOrder(b) = Sorted(A)
  BY <1>1, BuilderStatements
<1> HIDE DEF A, X
<1>3. /\ SortedBlock(A) \in Seq(X) /\ Sorted(A) \in Seq(X)
      /\ Sorted(A) = SortedBlock(A) \o Chosen(A, "policy")
      /\ \A x : x \in Range(SortedBlock(A)) <=> x \in Range(A) /\ x[1] \in {"fact", "rule", "check"}
      /\ \A x : x \in Range(Sorted(A)) <=>
                  x \in Range(SortedBlock(A)) \/ x \in Range(Chosen(A, "policy"))
  BY <1>1, SortedFacts
<1>4. /\ Chosen(A, "policy") \in Seq(X)
      /\ \A x : x \in Range(Chosen(A, "policy")) <=> x \in Range(A) /\ x[1] = "policy"
  BY <1>1, ChosenFacts
<1>5. /\ \A s \in Range(InOrder(b)) : ~Remains(s)
      /\ NoParameters(b.scopes)
  <2>1. \A s \in Range(InOrder(b)) : s[1] \in {"fact", "rule", "check", "policy"}
    BY <1>2, <1>3, <1>4
  <2>2. /\ \A s \in Range(InOrder(b)) : ~(s[1] \in {"fact", "rule", "check", "policy"} /\ Remains(s))
        /\ \A sc \in Range(b.scopes) : sc[1] # "param"
    BY DEF Panics, PanicsOn
  <2> QED BY <2>1, <2>2 DEF NoParameters
<1>6. Plainly(InOrder(b)) /\ Plainly(BlockStatements(b)) /\ Plainly(Policies(b))
  BY <1>2, <1>3, <1>5, RemainsNot DEF Plainly
<1> QED BY <1>1, <1>2, <1>3, <1>4, <1>5, <1>6 DEF X

BlockNames(b, symbols) == Insert(symbols, AllWords(BlockStatements(b)))
BlockKeys(b, keys) == Insert(keys, AllKeys(BlockStatements(b), b.scopes))

\* What build makes of a builder, in the tables that it ends with.
Built(b, symbols, keys, T, KT, made) ==
    /\ T = symbols \o made.symbols /\ KT = keys \o made.public_keys
    /\ made.statements = TranslateAll(BlockStatements(b), IndexIn(T), IndexIn(KT))
    /\ made.scopes = TranslateScopes(b.scopes, IndexIn(KT))
    /\ made.version = version(get_schema_version(Range(made.statements), made.scopes))

LEMMA BuildFacts ==
    ASSUME NEW b, WellTyped(b), ~Panics(b),
           NEW symbols \in Seq(STRING), NEW keys \in Seq(STRING),
           NEW T, T = BlockNames(b, symbols), NEW KT, KT = BlockKeys(b, keys),
           NEW made, made = build(b, symbols, keys)
    PROVE  /\ Built(b, symbols, keys, T, KT, made)
           /\ made.symbols \in Seq(STRING) /\ made.public_keys \in Seq(STRING)
           /\ T \in Seq(STRING) /\ KT \in Seq(STRING)
           /\ NamesOf(BlockStatements(b)) \subseteq Range(T)
           /\ KeyNamesOf(BlockStatements(b)) \subseteq Range(KT)
           /\ ScopeKeyNames(b.scopes) \subseteq Range(KT)
           /\ made.statements \in Seq(StatementsOver(DOMAIN T, DOMAIN KT))
           /\ made.scopes \in Seq(ScopesOver(DOMAIN KT))
           /\ Plainly(made.statements) /\ NoParameters(made.scopes)
           /\ AllEven(made.statements) <=> AllEven(BlockStatements(b))
<1> DEFINE S == BlockStatements(b)
           f == IndexIn(T)
           g == IndexIn(KT)
<1>1. /\ S \in Seq(StatementsOver(STRING, STRING)) /\ Plainly(S)
      /\ b.scopes \in Seq(ScopesOver(STRING)) /\ NoParameters(b.scopes)
  BY BuilderFacts
<1>2. /\ T = Insert(symbols, AllWords(S)) /\ KT = Insert(keys, AllKeys(S, b.scopes))
      /\ T = symbols \o made.symbols /\ KT = keys \o made.public_keys
      /\ made.symbols = New(symbols, AllWords(S))
      /\ made.public_keys = New(keys, AllKeys(S, b.scopes))
      /\ made.statements = TranslateAll(S, f, g)
      /\ made.scopes = TranslateScopes(b.scopes, g)
      /\ made.version = version(get_schema_version(Range(made.statements), made.scopes))
  BY DEF build, BlockNames, BlockKeys, Insert
<1> HIDE DEF S
<1>3. /\ AllWords(S) \in Seq(STRING) /\ Range(AllWords(S)) = NamesOf(S)
      /\ AllKeys(S, b.scopes) \in Seq(STRING)
      /\ Range(AllKeys(S, b.scopes)) = KeyNamesOf(S) \cup ScopeKeyNames(b.scopes)
      /\ \A k : k \in ScopeKeyNames(b.scopes) <=> <<"key", k>> \in Range(b.scopes)
  BY <1>1, NamesOfFacts
<1>4. /\ made.symbols \in Seq(STRING) /\ T \in Seq(STRING) /\ NamesOf(S) \subseteq Range(T)
  <2>1. /\ New(symbols, AllWords(S)) \in Seq(STRING)
        /\ Insert(symbols, AllWords(S)) \in Seq(STRING)
        /\ Range(Insert(symbols, AllWords(S))) = Range(symbols) \cup Range(AllWords(S))
    BY ONLY <1>3, InsertFacts, symbols \in Seq(STRING)
  <2> QED BY ONLY <1>2, <1>3, <2>1
<1>5. /\ made.public_keys \in Seq(STRING) /\ KT \in Seq(STRING)
      /\ KeyNamesOf(S) \subseteq Range(KT) /\ ScopeKeyNames(b.scopes) \subseteq Range(KT)
  <2>1. /\ New(keys, AllKeys(S, b.scopes)) \in Seq(STRING)
        /\ Insert(keys, AllKeys(S, b.scopes)) \in Seq(STRING)
        /\ Range(Insert(keys, AllKeys(S, b.scopes))) = Range(keys) \cup Range(AllKeys(S, b.scopes))
    BY ONLY <1>3, InsertFacts, keys \in Seq(STRING)
  <2> QED BY ONLY <1>2, <1>3, <2>1
<1>6. /\ Suits(NamesOf(S), f, DOMAIN T)
      /\ TranslateAll(S, f, g) \in Seq(StatementsOver(DOMAIN T, DOMAIN KT))
  BY <1>1, <1>4, <1>5, ReadBack
<1>7. TranslateScopes(b.scopes, g) \in Seq(ScopesOver(DOMAIN KT))
  BY <1>1, <1>5, ScopesReadBack
<1>8. \A k \in Range(KT) : g[k] \in DOMAIN KT
  BY <1>5, IndexFacts
<1> HIDE DEF f, g
<1>9. Plainly(TranslateAll(S, f, g)) /\ (AllEven(TranslateAll(S, f, g)) <=> AllEven(S))
  <2>1. \A k \in KeyNamesOf(S) : g[k] \in DOMAIN KT
    BY <1>5, <1>8
  <2> QED BY ONLY <1>1, <1>6, <2>1, AllStayPlain
<1>10. NoParameters(TranslateScopes(b.scopes, g))
  <2>1. \A k : <<"key", k>> \in Range(b.scopes) => g[k] \in DOMAIN KT
    BY <1>3, <1>5, <1>8
  <2> QED BY ONLY <1>1, <2>1, ScopesStayPlain
<1> QED BY ONLY <1>2, <1>4, <1>5, <1>6, <1>7, <1>9, <1>10 DEF S, f, g, Built

-----------------------------------------------------------------------------
(* The version that a block declares.                                          *)

RulesOf(A) == UNION {Range(Queries(s)) : s \in A}
OpsOf(A) == UNION {OpsIn(r) : r \in RulesOf(A)}
PredicatesOf(A) ==
    (UNION {Range(Facts(s)) : s \in A}) \cup UNION {Range(Predicates(r)) : r \in RulesOf(A)}
ChecksOf(A) == {s[2] : s \in {x \in A : x[1] = "check"}}

LEMMA SchemaVersionIs ==
    ASSUME NEW A, NEW l, NEW d, d = get_schema_version(A, l)
    PROVE  /\ d.contains_scopes <=> l # << >> \/ \E r \in RulesOf(A) : r.scopes # << >>
           /\ d.contains_v3_1 <=> \E op \in OpsOf(A) : contains_v3_1_op(op)
           /\ d.contains_check_all <=> "check all" \in ChecksOf(A)
           /\ d.contains_v3_3 <=> \/ "reject if" \in ChecksOf(A)
                                  \/ \E p \in PredicatesOf(A) : contains_v3_3_predicate(p)
                                  \/ \E op \in OpsOf(A) : contains_v3_3_op(op)
  BY Zenon DEF get_schema_version, RulesOf, OpsOf, OpsIn, PredicatesOf, ChecksOf

LEMMA VersionFacts ==
    ASSUME NEW A, NEW l, NEW d, d = get_schema_version(A, l)
    PROVE  /\ version(d) \in {3, 4, 6}
           /\ d.contains_v3_3 <=> version(d) = 6
           /\ d.contains_scopes \/ d.contains_v3_1 \/ d.contains_check_all => version(d) >= 4
           /\ version(d) = 4 => d.contains_scopes \/ d.contains_v3_1 \/ d.contains_check_all
           /\ \A declared \in Int : declared >= version(d) => check_compatibility(d, declared)
<1> DEFINE v3 == d.contains_v3_3
           v1 == d.contains_scopes \/ d.contains_v3_1 \/ d.contains_check_all
<1>1. version(d) = IF v3 THEN 6 ELSE IF v1 THEN 4 ELSE 3
  BY DEF version, DATALOG_3_1, DATALOG_3_3, MIN_SCHEMA_VERSION
<1>2. \A declared : check_compatibility(d, declared) <=>
          IF declared < 4 THEN ~v1 ELSE (declared < 6 => ~v3)
  BY DEF check_compatibility, DATALOG_3_1, DATALOG_3_3
<1> HIDE DEF v3, v1
<1>3. /\ version(d) \in {3, 4, 6}
      /\ v3 <=> version(d) = 6
      /\ v1 => version(d) >= 4
      /\ version(d) = 4 => v1
  BY <1>1
<1>4. ASSUME NEW declared \in Int, declared >= version(d)
      PROVE  check_compatibility(d, declared)
  <2>1. declared < 4 => ~v1
    BY <1>1, <1>4
  <2>2. declared < 6 => ~v3
    BY <1>1, <1>4
  <2> QED BY <1>2, <2>1, <2>2
<1> QED BY <1>3, <1>4 DEF v3, v1

\* The root of a value is in it, and so are the elements of a set.
LEMMA WithinHolds ==
    ASSUME NEW W, NEW x \in Nodes(W, MaxNesting)
    PROVE  /\ x \in Within(x)
           /\ Range(Parts(x)) \subseteq Nodes(W, MaxNesting)
           /\ Within(x) = {x} \cup UNION {Within(p) : p \in Range(Parts(x))}
           /\ x[1] = "set" => Range(Parts(x)) = x[2]
           /\ x[1] = "value" => Range(Parts(x)) = {x[2]}
           /\ x[1] \notin {"set", "array", "map", "value", "closure"} => Range(Parts(x)) = {}
<1>1. /\ Range(Parts(x)) \subseteq Nodes(W, MaxNesting)
      /\ Within(x) = {x} \cup UNION {Within(p) : p \in Range(Parts(x))}
  BY WithinIs
<1>2. x[1] = "set" => Range(Parts(x)) = x[2]
  BY OverKinds, ListedFacts DEF Parts
<1>3. x[1] = "value" => Range(Parts(x)) = {x[2]}
  BY DEF Parts, Range
<1>4. x[1] \notin {"set", "array", "map", "value", "closure"} => Range(Parts(x)) = {}
  BY DEF Parts, Range
<1> QED BY <1>1, <1>2, <1>3, <1>4

\* Nothing that the versions do not look for is in x.
NoContainers(x) == \A y \in Within(x) : ~(y[1] \in {"array", "map"} \/ IsOddSet(y))

LEMMA TermNodes ==
    ASSUME NEW W, NEW t \in TermsOver(W)
    PROVE  /\ t \in Nodes(W, MaxNesting)
           /\ \A y \in Within(t) : /\ y \in TermsOver(W) /\ y \in Nodes(W, MaxNesting)
                                   /\ y[1] \notin {"unary", "binary", "value", "closure"}
<1>1. TermsOver(W) \subseteq Nodes(W, MaxNesting)
  BY NodesNested
<1>2. Within(t) \subseteq TermsOver(W)
  BY WithinTerms
<1> QED BY <1>1, <1>2, OverKinds

\* What is new in a term that holds no container is found in it.
LEMMA TermFound ==
    ASSUME NEW W, NEW t \in TermsOver(W), NEW y \in Within(t), IsNewer(y), NoContainers(t)
    PROVE  contains_v3_3_term(t)
<1>1. /\ t \in Nodes(W, MaxNesting) /\ y[1] \notin {"unary", "binary", "value", "closure"}
      /\ t[1] \notin {"unary", "binary", "value", "closure"}
  <2>1. t \in Within(t)
    BY TermNodes, WithinHolds
  <2> QED BY <2>1, TermNodes
<1>2. y = Null
  BY <1>1 DEF IsNewer, NoContainers
<1>3. /\ Within(t) = {t} \cup UNION {Within(p) : p \in Range(Parts(t))}
      /\ Range(Parts(t)) \subseteq Nodes(W, MaxNesting) /\ t \in Within(t)
      /\ t[1] = "set" => Range(Parts(t)) = t[2]
      /\ t[1] \notin {"set", "array", "map", "value", "closure"} => Range(Parts(t)) = {}
  BY <1>1, WithinHolds
<1>4. CASE y = t
  BY <1>2, <1>4 DEF contains_v3_3_term
<1>5. CASE y # t
  <2>1. PICK p \in Range(Parts(t)) : y \in Within(p)
    BY <1>3, <1>5
  <2>2. t[1] = "set" /\ p \in t[2]
    BY <1>1, <1>3, <2>1 DEF NoContainers
  <2>3. p \in Nodes(W, MaxNesting)
    BY <1>3, <2>1
  <2>4. p \in Within(p)
    BY <2>3, WithinHolds
  <2>5. p \in Within(t)
    BY <1>3, <2>1, <2>4
  <2>6. p[1] \notin {"unary", "binary", "value", "closure"}
    BY <2>5, TermNodes
  <2>7. p[1] \notin {"set", "array", "map"}
    BY <1>3, <2>2, <2>5 DEF NoContainers, IsOddSet
  <2>8. Within(p) = {p}
    <3>1. Range(Parts(p)) = {}
      BY <2>3, <2>6, <2>7, WithinHolds
    <3>2. Within(p) = {p} \cup UNION {Within(q) : q \in Range(Parts(p))}
      BY <2>3, WithinHolds
    <3> QED BY <3>1, <3>2
  <2> QED BY <1>2, <2>1, <2>2, <2>8 DEF contains_v3_3_term
<1> QED BY <1>4, <1>5

LEMMA TermHasNull ==
    ASSUME NEW W, NEW t \in TermsOver(W), contains_v3_3_term(t)
    PROVE  \E y \in Within(t) : IsNewer(y)
<1>1. t \in Nodes(W, MaxNesting)
  BY TermNodes
<1>2. CASE t = Null
  BY <1>1, <1>2, WithinHolds DEF IsNewer
<1>3. CASE t[1] = "set" /\ Null \in t[2]
  <2>1. Null \in Range(Parts(t)) /\ Null \in Nodes(W, MaxNesting)
    BY <1>1, <1>3, WithinHolds
  <2>2. Null \in Within(Null)
    BY <2>1, WithinHolds
  <2>3. Within(t) = {t} \cup UNION {Within(p) : p \in Range(Parts(t))}
    BY <1>1, WithinHolds
  <2> QED BY <2>1, <2>2, <2>3 DEF IsNewer
<1> QED BY <1>2, <1>3 DEF contains_v3_3_term

LEMMA OperatorNames ==
    ASSUME NEW W, NEW op \in OpsOver(W)
    PROVE  /\ op[1] \in {"unary", "binary", "value", "closure"}
           /\ op[1] = "unary" => op[2] = "Ffi" \/ op[2] \in UnaryNames
           /\ op[1] = "binary" => op[2] = "Ffi" \/ op[2] \in BinaryNames
           /\ op[1] = "value" => op[2] \in TermsOver(W)
           /\ op \in Nodes(W, MaxNesting) /\ op # Null
<1>1. op \in FixedOps \/ op \in Calls(W) \/ op \in Held(Over(W)) \/ op \in Closures(W, Over(W))
  BY OverShapes
<1>2. op[1] \in {"unary", "binary", "value", "closure"}
  BY <1>1, Kinds
<1>3. /\ op[1] = "unary" => op[2] = "Ffi" \/ op[2] \in UnaryNames
      /\ op[1] = "binary" => op[2] = "Ffi" \/ op[2] \in BinaryNames
  <2>1. CASE op \in FixedOps
    BY <2>1 DEF FixedOps
  <2>2. CASE op \in Calls(W) \/ op \in Held(Over(W)) \/ op \in Closures(W, Over(W))
    BY <2>2, Kinds
  <2> QED BY <1>1, <2>1, <2>2
<1>4. op \in Nodes(W, MaxNesting)
  BY NodesNested
<1>5. op[1] = "value" => op[2] \in TermsOver(W)
  BY <1>4, OverKinds
<1>6. op # Null
  BY <1>2 DEF Null
<1> QED BY <1>2, <1>3, <1>4, <1>5, <1>6

\* In an operation that is not a closure there are terms only.
LEMMA ValuesHoldTerms ==
    ASSUME NEW W, NEW op \in OpsOver(W), op[1] # "closure", NEW y \in Within(op), y # op
    PROVE  /\ op[1] = "value" /\ op[2] \in TermsOver(W) /\ y \in Within(op[2])
           /\ y[1] \notin {"unary", "binary", "value", "closure"}
           /\ Within(op[2]) \subseteq Within(op)
<1>1. op \in Nodes(W, MaxNesting) /\ op[1] \in {"unary", "binary", "value"}
  BY OperatorNames
<1>2. /\ Within(op) = {op} \cup UNION {Within(p) : p \in Range(Parts(op))}
      /\ op[1] = "value" => Range(Parts(op)) = {op[2]}
      /\ op[1] \notin {"set", "array", "map", "value", "closure"} => Range(Parts(op)) = {}
  BY <1>1, WithinHolds
<1>3. op[1] = "value" /\ y \in Within(op[2]) /\ Within(op[2]) \subseteq Within(op)
  BY <1>1, <1>2
<1>4. op[2] \in TermsOver(W)
  BY <1>3, OperatorNames
<1> QED BY <1>3, <1>4, TermNodes

LEMMA OperationFound ==
    ASSUME NEW W, NEW op \in OpsOver(W), NEW y \in Within(op)
    PROVE  /\ IsNewer(y) /\ ~Overlooked(op, y) => contains_v3_3_op(op)
           /\ IsNew(y) => contains_v3_1_op(op) \/ contains_v3_3_op(op)
<1>1. CASE op[1] = "closure"
  BY <1>1 DEF contains_v3_3_op
<1>2. CASE op[1] # "closure" /\ y # op
  <2>1. /\ op[1] = "value" /\ op[2] \in TermsOver(W) /\ y \in Within(op[2])
        /\ y[1] \notin {"unary", "binary", "value", "closure"}
        /\ Within(op[2]) \subseteq Within(op)
    BY <1>2, ValuesHoldTerms
  <2>2. ASSUME IsNewer(y), ~Overlooked(op, y) PROVE contains_v3_3_op(op)
    <3>3. y[1] \in {"null", "array", "map"}
      BY <2>1, <2>2 DEF IsNewer, Null
    <3>1. NoContainers(op[2])
      BY <2>1, <2>2, <3>3 DEF NoContainers, Overlooked
    <3>2. contains_v3_3_term(op[2])
      BY <2>1, <2>2, <3>1, TermFound
    <3> QED BY <2>1, <3>2 DEF contains_v3_3_op
  <2> QED BY <2>1, <2>2 DEF IsNew
<1>3. CASE op[1] # "closure" /\ y = op
  <2>1. IsNew(y) => contains_v3_1_op(op)
    BY <1>3 DEF IsNew, contains_v3_1_op
  <2>2. ASSUME IsNewer(op) PROVE contains_v3_3_op(op)
    <3>1. /\ op[1] \in {"unary", "binary", "value"} /\ op # Null
          /\ op[1] = "unary" => op[2] = "Ffi" \/ op[2] \in UnaryNames
          /\ op[1] = "binary" => op[2] = "Ffi" \/ op[2] \in BinaryNames
      BY <1>3, OperatorNames
    <3>2. op[1] \in {"unary", "binary"} /\ op[2] \in {"Ffi", "TypeOf", "All", "Any",
                     "HeterogeneousEqual", "HeterogeneousNotEqual", "LazyAnd", "LazyOr"}
      BY <2>2, <3>1 DEF IsNewer
    <3>3. CASE op[1] = "unary"
      <4>1. op[2] \in {"Ffi", "TypeOf"}
        BY <3>1, <3>2, <3>3 DEF UnaryNames
      <4> QED BY <3>3, <4>1 DEF contains_v3_3_op
    <3>4. CASE op[1] = "binary"
      <4>1. op[2] # "TypeOf"
        BY <3>1, <3>4 DEF BinaryNames
      <4> QED BY <3>2, <3>4, <4>1 DEF contains_v3_3_op
    <3> QED BY <3>2, <3>3, <3>4
  <2> QED BY <1>3, <2>1, <2>2
<1> QED BY <1>1, <1>2, <1>3

LEMMA OperationHas ==
    ASSUME NEW W, NEW op \in OpsOver(W)
    PROVE  /\ contains_v3_3_op(op) => \E y \in Within(op) : IsNewer(y)
           /\ contains_v3_1_op(op) => \E y \in Within(op) : IsNew(y)
<1>1. /\ op[1] \in {"unary", "binary", "value", "closure"} /\ op \in Nodes(W, MaxNesting)
      /\ op[1] = "value" => op[2] \in TermsOver(W)
  BY OperatorNames
<1>2. /\ op \in Within(op)
      /\ Within(op) = {op} \cup UNION {Within(p) : p \in Range(Parts(op))}
      /\ op[1] = "value" => Range(Parts(op)) = {op[2]}
  BY <1>1, WithinHolds
<1>3. contains_v3_1_op(op) => \E y \in Within(op) : IsNew(y)
  BY <1>2 DEF contains_v3_1_op, IsNew
<1>4. ASSUME contains_v3_3_op(op)
      PROVE  \E y \in Within(op) : IsNewer(y)
  <2>1. CASE op[1] = "value"
    <3>1. contains_v3_3_term(op[2])
      BY <1>4, <2>1 DEF contains_v3_3_op
    <3>2. \E y \in Within(op[2]) : IsNewer(y)
      BY <1>1, <2>1, <3>1, TermHasNull
    <3>3. Within(op[2]) \subseteq Within(op)
      BY <1>2, <2>1
    <3> QED BY <3>2, <3>3
  <2>2. CASE op[1] # "value"
    <3>1. IsNewer(op)
      BY <1>1, <1>4, <2>2 DEF contains_v3_3_op, IsNewer
    <3> QED BY <1>2, <3>1
  <2> QED BY <2>1, <2>2
<1> QED BY <1>3, <1>4

\* The roots of a statement are terms of its predicates, and operations.
LEMMA RootsFound ==
    ASSUME NEW W, NEW K, NEW A, NEW s \in A, s \in StatementsOver(W, K)
    PROVE  \A x : x \in Roots(s) =>
               \/ x \in TermsOver(W) /\ \E p \in PredicatesOf(A) : x \in Range(p[3])
               \/ x \in OpsOver(W) /\ x \in OpsOf(A)
<1> SUFFICES ASSUME NEW x \in Roots(s)
             PROVE  \/ x \in TermsOver(W) /\ \E p \in PredicatesOf(A) : x \in Range(p[3])
                    \/ x \in OpsOver(W) /\ x \in OpsOf(A)
  OBVIOUS
<1>1. \/ \E p \in Range(Facts(s)) : x \in Range(p[3])
      \/ \E r \in Range(Queries(s)) : x \in RuleTerms(r) \/ x \in OpsIn(r)
  BY RootsAre
<1>2. \A p \in PredicatesOver(W) : \A t \in Range(p[3]) : t \in TermsOver(W)
  BY DEF PredicatesOver, Range
<1>3. CASE \E p \in Range(Facts(s)) : x \in Range(p[3])
  <2>1. PICK p \in Range(Facts(s)) : x \in Range(p[3])
    BY <1>3
  <2>2. p \in PredicatesOver(W)
    BY <2>1, StatementShape
  <2>3. p \in PredicatesOf(A)
    BY DEF PredicatesOf
  <2> QED BY <1>2, <2>1, <2>2, <2>3
<1>4. CASE \E r \in Range(Queries(s)) : x \in RuleTerms(r) \/ x \in OpsIn(r)
  <2>1. PICK r \in Range(Queries(s)) : x \in RuleTerms(r) \/ x \in OpsIn(r)
    BY <1>4
  <2>2. r \in RulesIn(W, K) /\ r \in RulesOf(A)
    BY <2>1, StatementShape DEF RulesOf
  <2>3. /\ Predicates(r) \in Seq(PredicatesOver(W))
        /\ \A e \in Range(r.expressions) : \A op \in Range(e) : op \in OpsOver(W)
    BY <2>2, RuleShape
  <2>4. CASE x \in OpsIn(r)
    BY <2>2, <2>3, <2>4 DEF OpsIn, OpsOf
  <2>5. CASE x \in RuleTerms(r)
    <3>1. PICK p \in Range(Predicates(r)) : x \in Range(p[3])
      BY <2>5 DEF RuleTerms
    <3>2. p \in PredicatesOver(W)
      BY <2>3, <3>1 DEF Range
    <3>3. p \in PredicatesOf(A)
      BY <2>2, <3>1 DEF PredicatesOf
    <3> QED BY <1>2, <3>1, <3>2, <3>3
  <2> QED BY <2>1, <2>4, <2>5
<1> QED BY <1>1, <1>3, <1>4

\* And the converse.
LEMMA RootsOf ==
    ASSUME NEW W, NEW K, NEW A, A \subseteq StatementsOver(W, K)
    PROVE  /\ \A p \in PredicatesOf(A) : \A t \in Range(p[3]) :
                 t \in TermsOver(W) /\ \E s \in A : t \in Roots(s)
           /\ \A op \in OpsOf(A) : op \in OpsOver(W) /\ \E s \in A : op \in Roots(s)
<1>1. \A p \in PredicatesOver(W) : \A t \in Range(p[3]) : t \in TermsOver(W)
  BY DEF PredicatesOver, Range
<1>2. ASSUME NEW p \in PredicatesOf(A), NEW t \in Range(p[3])
      PROVE  t \in TermsOver(W) /\ \E s \in A : t \in Roots(s)
  <2>1. CASE \E s \in A : p \in Range(Facts(s))
    <3>1. PICK s \in A : p \in Range(Facts(s))
      BY <2>1
    <3>2. p \in PredicatesOver(W)
      BY <3>1, StatementShape
    <3>3. t \in Roots(s)
      BY <3>1, RootsAre
    <3> QED BY <1>1, <3>2, <3>3
  <2>2. CASE \E s \in A : \E r \in Range(Queries(s)) : p \in Range(Predicates(r))
    <3>1. PICK s \in A : \E r \in Range(Queries(s)) : p \in Range(Predicates(r))
      BY <2>2
    <3>2. PICK r \in Range(Queries(s)) : p \in Range(Predicates(r))
      BY <3>1
    <3>3. r \in RulesIn(W, K)
      BY StatementShape
    <3>4. Predicates(r) \in Seq(PredicatesOver(W))
      BY <3>3, RuleShape
    <3>5. p \in PredicatesOver(W)
      BY <3>2, <3>4 DEF Range
    <3>6. t \in RuleTerms(r)
      BY <3>2 DEF RuleTerms
    <3>7. t \in Roots(s)
      BY <3>6, RootsAre
    <3> QED BY <1>1, <3>5, <3>7
  <2> QED BY <2>1, <2>2 DEF PredicatesOf, RulesOf
<1>3. ASSUME NEW op \in OpsOf(A)
      PROVE  op \in OpsOver(W) /\ \E s \in A : op \in Roots(s)
  <2>1. PICK s \in A : \E r \in Range(Queries(s)) : op \in OpsIn(r)
    BY DEF OpsOf, RulesOf
  <2>2. PICK r \in Range(Queries(s)) : op \in OpsIn(r)
    BY <2>1
  <2>3. r \in RulesIn(W, K)
    BY StatementShape
  <2>4. \A e \in Range(r.expressions) : \A o \in Range(e) : o \in OpsOver(W)
    BY <2>3, RuleShape
  <2>5. op \in Roots(s)
    BY <2>2, RootsAre
  <2> QED BY <2>2, <2>4, <2>5 DEF OpsIn
<1> QED BY <1>2, <1>3

\* What the version v says of the statements and the scopes of a block.
Scoped(A, l) == l # << >> \/ \E s \in A : Has31(s)
Covers(v, A, l) ==
    /\ \A s \in A : Found33(s) => v = 6
    /\ v = 6 => \E s \in A : Has33(s)
    /\ Scoped(A, l) => v >= 4
    /\ v = 4 => Scoped(A, l)

\* The kinds of checks that are looked for.
LEMMA KindsFound ==
    ASSUME NEW W, NEW K, NEW A, A \subseteq StatementsOver(W, K),
           NEW kind \in {"check all", "reject if"}
    PROVE  kind \in ChecksOf(A) <=> \E s \in A : IsOfKind(s, kind)
<1>1. ASSUME NEW s \in A, IsOfKind(s, kind)
      PROVE  kind \in ChecksOf(A)
  <2>1. s[1] \in {"check", "policy"} /\ s[2] = kind
    BY <1>1 DEF IsOfKind, IsQuery
  <2>2. s[1] = "policy" => s[2] \in {"allow if", "deny if"}
    BY StatementShape DEF PolicyNames
  <2>3. s[1] = "check"
    BY <2>1, <2>2
  <2> QED BY <2>1, <2>3 DEF ChecksOf
<1>2. ASSUME kind \in ChecksOf(A)
      PROVE  \E s \in A : IsOfKind(s, kind)
  BY <1>2 DEF ChecksOf, IsOfKind, IsQuery
<1> QED BY <1>1, <1>2

\* The version that is found for a block is the one that its content asks for.
LEMMA VersionCovers ==
    ASSUME NEW W, NEW K, NEW A, A \subseteq StatementsOver(W, K), NEW l,
           NEW v, v = version(get_schema_version(A, l))
    PROVE  v \in {3, 4, 6} /\ Covers(v, A, l)
<1> DEFINE d == get_schema_version(A, l)
<1>1. /\ d.contains_scopes <=> l # << >> \/ \E r \in RulesOf(A) : r.scopes # << >>
      /\ d.contains_v3_1 <=> \E op \in OpsOf(A) : contains_v3_1_op(op)
      /\ d.contains_check_all <=> "check all" \in ChecksOf(A)
      /\ d.contains_v3_3 <=> \/ "reject if" \in ChecksOf(A)
                             \/ \E p \in PredicatesOf(A) : contains_v3_3_predicate(p)
                             \/ \E op \in OpsOf(A) : contains_v3_3_op(op)
  BY SchemaVersionIs
<1>2. /\ v \in {3, 4, 6}
      /\ d.contains_v3_3 <=> v = 6
      /\ d.contains_scopes \/ d.contains_v3_1 \/ d.contains_check_all => v >= 4
      /\ v = 4 => d.contains_scopes \/ d.contains_v3_1 \/ d.contains_check_all
  BY VersionFacts
<1> HIDE DEF d
<1>3. \A s \in A : \A x \in Roots(s) :
          \/ x \in TermsOver(W) /\ \E p \in PredicatesOf(A) : x \in Range(p[3])
          \/ x \in OpsOver(W) /\ x \in OpsOf(A)
  BY RootsFound
<1>4. /\ \A p \in PredicatesOf(A) : \A t \in Range(p[3]) :
            t \in TermsOver(W) /\ \E s \in A : t \in Roots(s)
      /\ \A op \in OpsOf(A) : op \in OpsOver(W) /\ \E s \in A : op \in Roots(s)
  BY RootsOf
<1>5. \A kind \in {"check all", "reject if"} :
          kind \in ChecksOf(A) <=> \E s \in A : IsOfKind(s, kind)
  BY KindsFound
<1>6. \A s, x : x \in Values(s) <=> \E root \in Roots(s) : x \in Within(root)
  BY DEF Values
<1>7. ASSUME NEW s \in A, Found33(s)
      PROVE  d.contains_v3_3
  <2>1. CASE IsOfKind(s, "reject if")
    BY <1>1, <1>5, <2>1
  <2>2. CASE \E root \in Roots(s) : \E x \in Within(root) :
                 IsNewer(x) /\ ~Overlooked(root, x)
    <3>1. PICK root \in Roots(s) : \E x \in Within(root) :
                   IsNewer(x) /\ ~Overlooked(root, x)
      BY <2>2
    <3>2. PICK x \in Within(root) : IsNewer(x) /\ ~Overlooked(root, x)
      BY <3>1
    <3>4. CASE root \in TermsOver(W) /\ \E p \in PredicatesOf(A) : root \in Range(p[3])
      <4>1. x[1] \notin {"unary", "binary", "value", "closure"}
        BY <3>2, <3>4, TermNodes
      <4>2. NoContainers(root)
        BY <3>2, <4>1 DEF IsNewer, Null, Overlooked, NoContainers
      <4>3. contains_v3_3_term(root)
        BY <3>2, <3>4, <4>2, TermFound
      <4> QED BY <1>1, <3>4, <4>3 DEF contains_v3_3_predicate
    <3>5. CASE root \in OpsOver(W) /\ root \in OpsOf(A)
      <4>1. contains_v3_3_op(root)
        BY <3>2, <3>5, OperationFound
      <4> QED BY <1>1, <3>5, <4>1
    <3> QED BY <1>3, <3>1, <3>4, <3>5
  <2> QED BY <1>7, <2>1, <2>2 DEF Found33
<1>8. ASSUME d.contains_v3_3
      PROVE  \E s \in A : Has33(s)
  <2>1. CASE "reject if" \in ChecksOf(A)
    BY <1>5, <2>1 DEF Has33
  <2>2. CASE \E p \in PredicatesOf(A) : contains_v3_3_predicate(p)
    <3>1. PICK p \in PredicatesOf(A) : contains_v3_3_predicate(p)
      BY <2>2
    <3>2. PICK t \in Range(p[3]) : contains_v3_3_term(t)
      BY <3>1 DEF contains_v3_3_predicate
    <3>3. PICK s \in A : t \in TermsOver(W) /\ t \in Roots(s)
      BY <1>4, <3>2
    <3>4. \E y \in Within(t) : IsNewer(y)
      BY <3>2, <3>3, TermHasNull
    <3> QED BY <1>6, <3>3, <3>4 DEF Has33
  <2>3. CASE \E op \in OpsOf(A) : contains_v3_3_op(op)
    <3>1. PICK op \in OpsOf(A) : contains_v3_3_op(op)
      BY <2>3
    <3>2. PICK s \in A : op \in OpsOver(W) /\ op \in Roots(s)
      BY <1>4, <3>1
    <3>3. \E y \in Within(op) : IsNewer(y)
      BY <3>1, <3>2, OperationHas
    <3> QED BY <1>6, <3>2, <3>3 DEF Has33
  <2> QED BY <1>1, <1>8, <2>1, <2>2, <2>3
<1>9. ASSUME NEW s \in A, Has31(s)
      PROVE  v >= 4
  <2>1. CASE IsOfKind(s, "check all")
    BY <1>1, <1>2, <1>5, <2>1
  <2>2. CASE \E rule \in Range(Queries(s)) : rule.scopes # << >>
    BY <1>1, <1>2, <2>2 DEF RulesOf
  <2>3. CASE \E x \in Values(s) : IsNew(x)
    <3>1. PICK x \in Values(s) : IsNew(x)
      BY <2>3
    <3>2. PICK root \in Roots(s) : x \in Within(root)
      BY <1>6, <3>1
    <3>3. root \notin TermsOver(W)
      BY <3>1, <3>2, TermNodes DEF IsNew
    <3>4. root \in OpsOver(W) /\ root \in OpsOf(A)
      BY <1>3, <3>2, <3>3
    <3>5. contains_v3_1_op(root) \/ contains_v3_3_op(root)
      BY <3>1, <3>2, <3>4, OperationFound
    <3>6. v = 6 => v >= 4
      OBVIOUS
    <3> QED BY <1>1, <1>2, <3>4, <3>5, <3>6
  <2> QED BY <1>9, <2>1, <2>2, <2>3 DEF Has31
<1>10. ASSUME d.contains_scopes \/ d.contains_v3_1 \/ d.contains_check_all
       PROVE  Scoped(A, l)
  <2>1. CASE l # << >>
    BY <2>1 DEF Scoped
  <2>2. CASE \E r \in RulesOf(A) : r.scopes # << >>
    BY <2>2 DEF RulesOf, Scoped, Has31
  <2>3. CASE "check all" \in ChecksOf(A)
    BY <1>5, <2>3 DEF Scoped, Has31
  <2>4. CASE \E op \in OpsOf(A) : contains_v3_1_op(op)
    <3>1. PICK op \in OpsOf(A) : contains_v3_1_op(op)
      BY <2>4
    <3>2. PICK s \in A : op \in OpsOver(W) /\ op \in Roots(s)
      BY <1>4, <3>1
    <3>3. \E y \in Within(op) : IsNew(y)
      BY <3>1, <3>2, OperationHas
    <3>4. Has31(s)
      BY <1>6, <3>2, <3>3 DEF Has31
    <3> QED BY <3>2, <3>4 DEF Scoped
  <2> QED BY <1>1, <1>10, <2>1, <2>2, <2>3, <2>4
<1>11. Scoped(A, l) => v >= 4
  BY <1>1, <1>2, <1>9 DEF Scoped
<1> QED BY <1>2, <1>7, <1>8, <1>10, <1>11 DEF Covers

\* A block is compatible with its own version, and with a later one.
LEMMA VersionAccepts ==
    ASSUME NEW W, NEW K, NEW A, A \subseteq StatementsOver(W, K), NEW l,
           NEW declared \in Int, declared >= version(get_schema_version(A, l))
    PROVE  /\ check_compatibility(get_schema_version(A, l), declared)
           /\ \A s \in A :
                 /\ declared < DATALOG_3_1 => NoScopes(s)
                 /\ s[1] = "check" => /\ declared < DATALOG_3_1 => s[2] = "check if"
                                      /\ declared < DATALOG_3_3 => s[2] # "reject if"
<1> DEFINE d == get_schema_version(A, l)
<1>1. check_compatibility(d, declared)
  BY VersionFacts
<1>2. /\ d.contains_scopes <=> l # << >> \/ \E r \in RulesOf(A) : r.scopes # << >>
      /\ d.contains_check_all <=> "check all" \in ChecksOf(A)
      /\ d.contains_v3_3 <=> \/ "reject if" \in ChecksOf(A)
                             \/ \E p \in PredicatesOf(A) : contains_v3_3_predicate(p)
                             \/ \E op \in OpsOf(A) : contains_v3_3_op(op)
  BY SchemaVersionIs
<1>3. /\ version(d) \in {3, 4, 6}
      /\ d.contains_v3_3 => version(d) = 6
      /\ d.contains_scopes \/ d.contains_v3_1 \/ d.contains_check_all => version(d) >= 4
  BY VersionFacts
<1> HIDE DEF d
<1>4. declared >= version(d)
  BY DEF d
<1>5. /\ declared < 4 => ~d.contains_scopes /\ ~d.contains_check_all /\ ~d.contains_v3_3
      /\ declared < 6 => ~d.contains_v3_3
  BY <1>3, <1>4
<1>6. ASSUME NEW s \in A
      PROVE  /\ declared < 4 => NoScopes(s)
             /\ s[1] = "check" => /\ declared < 4 => s[2] = "check if"
                                  /\ declared < 6 => s[2] # "reject if"
  <2>1. s \in StatementsOver(W, K)
    OBVIOUS
  <2>2. s[1] = "check" => s[2] \in {"check if", "check all", "reject if"}
    BY <2>1, StatementShape DEF CheckNames
  <2>3. s[1] = "check" => s[2] \in ChecksOf(A)
    BY DEF ChecksOf
  <2>4. declared < 4 => NoScopes(s)
    BY <1>2, <1>5 DEF NoScopes, RulesOf
  <2>5. s[1] = "check" /\ declared < 6 => s[2] # "reject if"
    BY <1>2, <1>5, <2>3
  <2>6. s[1] = "check" /\ declared < 4 => s[2] = "check if"
    BY <1>2, <1>5, <2>2, <2>3
  <2> QED BY <2>4, <2>5, <2>6
<1> QED BY <1>1, <1>6 DEF DATALOG_3_1, DATALOG_3_3, d

-----------------------------------------------------------------------------
(* A block on the wire.                                                        *)

SentAll(S) == [i \in DOMAIN S |-> Encoded(S[i])]
ReadAll(q) == [i \in DOMAIN q |-> Decoded(q[i])]

LEMMA AllOnWire ==
    ASSUME NEW W, NEW K, NEW S \in Seq(StatementsOver(W, K)), Plainly(S)
    PROVE  /\ ReadAll(SentAll(S)) = S
           /\ DOMAIN SentAll(S) = DOMAIN S
           /\ \A i \in DOMAIN S : SentAll(S)[i] = Encoded(S[i])
<1>1. \A i \in DOMAIN S : S[i] \in StatementsOver(W, K) /\ NoScopeParameters(S[i])
  BY DEF Plainly, Range
<1>2. \A i \in DOMAIN S : Decoded(Encoded(S[i])) = S[i]
  BY <1>1, StatementOnWire
<1>3. /\ DOMAIN SentAll(S) = DOMAIN S
      /\ \A i \in DOMAIN S : SentAll(S)[i] = Encoded(S[i])
  BY DEF SentAll
<1>4. ReadAll(SentAll(S)) = [i \in DOMAIN S |-> S[i]]
  BY <1>2, <1>3 DEF ReadAll
<1>5. S = [i \in DOMAIN S |-> S[i]]
  OBVIOUS
<1> QED BY <1>3, <1>4, <1>5

BlockOf(symbols, keys, S, l, v) ==
    [symbols |-> symbols, public_keys |-> keys, statements |-> S, scopes |-> l, version |-> v]

LEMMA SentBlockIs ==
    ASSUME NEW symbols, NEW keys, NEW S, NEW l, NEW v
    PROVE  /\ token_block_to_proto_block(BlockOf(symbols, keys, S, l, v)) =
                 BlockOf(symbols, keys, SentAll(S), EachToProto(l), v)
           /\ proto_block_to_token_block(BlockOf(symbols, keys, S, l, v)) =
                 BlockOf(symbols, keys, ReadAll(S), EachFromProto(l), v)
<1>1. PICK c : c = BlockOf(symbols, keys, S, l, v)
  OBVIOUS
<1>2. c.statements = S /\ c.scopes = l
  BY <1>1 DEF BlockOf
<1>3. /\ SentAll(S) = [i \in DOMAIN S |-> Encoded(S[i])]
      /\ EachToProto(l) = [i \in DOMAIN l |-> token_scope_to_proto_scope(l[i])]
      /\ ReadAll(S) = [i \in DOMAIN S |-> Decoded(S[i])]
      /\ EachFromProto(l) = [i \in DOMAIN l |-> proto_scope_to_token_scope(l[i])]
  BY DEF SentAll, ReadAll, EachToProto, EachFromProto
<1>4. token_block_to_proto_block(c) =
         [[c EXCEPT !.statements = SentAll(S)] EXCEPT !.scopes = EachToProto(l)]
  BY Zenon, <1>2, <1>3 DEF token_block_to_proto_block
<1>5. proto_block_to_token_block(c) =
         [[c EXCEPT !.statements = ReadAll(S)] EXCEPT !.scopes = EachFromProto(l)]
  BY Zenon, <1>2, <1>3 DEF proto_block_to_token_block
<1>6. /\ [[c EXCEPT !.statements = SentAll(S)] EXCEPT !.scopes = EachToProto(l)] =
            BlockOf(symbols, keys, SentAll(S), EachToProto(l), v)
      /\ [[c EXCEPT !.statements = ReadAll(S)] EXCEPT !.scopes = EachFromProto(l)] =
            BlockOf(symbols, keys, ReadAll(S), EachFromProto(l), v)
  <2>1. PICK x : x = SentAll(S)
    OBVIOUS
  <2>2. PICK y : y = EachToProto(l)
    OBVIOUS
  <2>3. PICK z : z = ReadAll(S)
    OBVIOUS
  <2>4. PICK w : w = EachFromProto(l)
    OBVIOUS
  <2>5. [c EXCEPT !.statements = x] = BlockOf(symbols, keys, x, l, v)
    BY <1>1 DEF BlockOf
  <2>6. [BlockOf(symbols, keys, x, l, v) EXCEPT !.scopes = y] = BlockOf(symbols, keys, x, y, v)
    BY DEF BlockOf
  <2>7. [c EXCEPT !.statements = z] = BlockOf(symbols, keys, z, l, v)
    BY <1>1 DEF BlockOf
  <2>8. [BlockOf(symbols, keys, z, l, v) EXCEPT !.scopes = w] = BlockOf(symbols, keys, z, w, v)
    BY DEF BlockOf
  <2> QED BY ONLY Zenon, <2>1, <2>2, <2>3, <2>4, <2>5, <2>6, <2>7, <2>8
<1> QED BY ONLY Zenon, <1>1, <1>4, <1>5, <1>6

LEMMA BlockOnWire ==
    ASSUME NEW W, NEW K, NEW symbols, NEW keys, NEW S \in Seq(StatementsOver(W, K)),
           NEW l \in Seq(ScopesOver(K)), NEW v \in Int, Plainly(S), NoParameters(l),
           NEW b, b = BlockOf(symbols, keys, S, l, v)
    PROVE  /\ proto_block_to_token_block(token_block_to_proto_block(b)) = b
           /\ \A external \in BOOLEAN :
                 v \in 3..6 /\ v >= version(get_schema_version(Range(S), l)) /\ (external => v >= 5) =>
                    (Accepts(token_block_to_proto_block(b), external) <=> AllEven(S))
<1> DEFINE p == token_block_to_proto_block(b)
<1>1. p = BlockOf(symbols, keys, SentAll(S), EachToProto(l), v)
  BY SentBlockIs
<1>2. ReadAll(SentAll(S)) = S /\ EachFromProto(EachToProto(l)) = l
  BY AllOnWire, ScopesOnWire
<1>3. proto_block_to_token_block(p) = b
  <2>1. proto_block_to_token_block(p) =
           BlockOf(symbols, keys, ReadAll(SentAll(S)), EachFromProto(EachToProto(l)), v)
    BY <1>1, SentBlockIs
  <2> QED BY <1>2, <2>1
<1>4. p.version = v /\ p.statements = SentAll(S) /\ b.statements = S /\ b.scopes = l
  BY <1>1 DEF BlockOf
<1> HIDE DEF p
<1>5. ASSUME NEW external \in BOOLEAN, v \in 3..6, v >= version(get_schema_version(Range(S), l)),
             external => v >= 5
      PROVE  Accepts(p, external) <=> AllEven(S)
  <2>1. /\ check_compatibility(get_schema_version(Range(S), l), v)
        /\ \A s \in Range(S) :
              /\ v < DATALOG_3_1 => NoScopes(s)
              /\ s[1] = "check" => /\ v < DATALOG_3_1 => s[2] = "check if"
                                   /\ v < DATALOG_3_3 => s[2] # "reject if"
    <3>1. Range(S) \subseteq StatementsOver(W, K)
      BY DEF Range
    <3>2. v \in Int
      OBVIOUS
    <3> QED BY ONLY <1>5, <3>1, <3>2, VersionAccepts
  <2>2. ASSUME NEW i \in DOMAIN S
        PROVE  /\ SentAll(S)[i] = Encoded(S[i])
               /\ DecodableStatement(Encoded(S[i]), v) <=> EvenStatement(S[i])
               /\ DecodableCheck(Encoded(S[i]), v)
    <3>1. S[i] \in Range(S) /\ S[i] \in StatementsOver(W, K)
      BY DEF Range
    <3>2. NoScopeParameters(S[i])
      BY <3>1 DEF Plainly
    <3>3. /\ DecodableStatement(Encoded(S[i]), v) <=>
                EvenStatement(S[i]) /\ (v < DATALOG_3_1 => NoScopes(S[i]))
          /\ DecodableCheck(Encoded(S[i]), v) <=>
                (S[i][1] = "check" => /\ v < DATALOG_3_1 => S[i][2] = "check if"
                                      /\ v < DATALOG_3_3 => S[i][2] # "reject if")
      BY <3>1, <3>2, StatementOnWire
    <3>4. SentAll(S)[i] = Encoded(S[i])
      BY DEF SentAll
    <3> QED BY <2>1, <3>1, <3>3, <3>4
  <2>3. (\A s \in Range(SentAll(S)) : DecodableStatement(s, v) /\ DecodableCheck(s, v))
           <=> AllEven(S)
    <3>1. \A x : x \in Range(SentAll(S)) <=> \E i \in DOMAIN S : x = SentAll(S)[i]
      BY DEF Range, SentAll
    <3>2. \A x : x \in Range(S) <=> \E i \in DOMAIN S : x = S[i]
      BY DEF Range
    <3>3. ASSUME AllEven(S), NEW s \in Range(SentAll(S))
          PROVE  DecodableStatement(s, v) /\ DecodableCheck(s, v)
      <4>1. PICK i \in DOMAIN S : s = SentAll(S)[i]
        BY <3>1
      <4>2. EvenStatement(S[i])
        BY <3>2, <3>3 DEF AllEven
      <4> QED BY <2>2, <4>1, <4>2
    <3>4. ASSUME \A s \in Range(SentAll(S)) : DecodableStatement(s, v) /\ DecodableCheck(s, v)
          PROVE  AllEven(S)
      <4>1. ASSUME NEW s \in Range(S) PROVE EvenStatement(s)
        <5>1. PICK i \in DOMAIN S : s = S[i]
          BY <3>2
        <5>2. SentAll(S)[i] \in Range(SentAll(S))
          BY <3>1
        <5> QED BY <2>2, <3>4, <5>1, <5>2
      <4> QED BY <4>1 DEF AllEven
    <3> QED BY <3>3, <3>4
  <2>4. Accepts(p, external) <=>
           /\ p.version \in 3..6
           /\ \A s \in Range(p.statements) :
                 DecodableStatement(s, p.version) /\ DecodableCheck(s, p.version)
           /\ external => p.version >= 5
           /\ check_compatibility(get_schema_version(Range(b.statements), b.scopes), p.version)
    BY <1>3 DEF Accepts, MIN_SCHEMA_VERSION, MAX_SCHEMA_VERSION, DATALOG_3_2
  <2> QED BY ONLY <1>4, <1>5, <2>1, <2>3, <2>4
<1> QED BY <1>3, <1>5 DEF p

-----------------------------------------------------------------------------
(* What is loaded.                                                             *)

\* Indices that are read in a table, and names in a table with those of another.
NamesAt(T, indices) == [i \in DOMAIN indices |-> T[indices[i]]]
Moved(T, all) == [i \in DOMAIN T |-> IF T[i] \in Range(all) THEN IndexIn(all)[T[i]] ELSE 0]

LEMMA NamesAtFacts ==
    ASSUME NEW A, NEW T \in Seq(A), NEW n \in Seq(DOMAIN T)
    PROVE  /\ NamesAt(T, n) \in Seq(A)
           /\ \A i \in Range(n) : T[i] \in Range(NamesAt(T, n))
<1>1. /\ Len(n) \in Nat /\ DOMAIN n = 1..Len(n)
      /\ \A i \in DOMAIN n : n[i] \in DOMAIN T
  OBVIOUS
<1>2. \A i \in DOMAIN T : T[i] \in A
  OBVIOUS
<1>3. NamesAt(T, n) \in [1..Len(n) -> A]
  BY <1>1, <1>2 DEF NamesAt
<1>4. NamesAt(T, n) \in Seq(A)
  BY <1>1, <1>3, MappedFacts
<1>5. \A i \in Range(n) : T[i] \in Range(NamesAt(T, n))
  BY DEF NamesAt, Range
<1> QED BY <1>4, <1>5

LEMMA MovedFacts ==
    ASSUME NEW A, NEW T \in Seq(A), NEW all, NEW w, w \in Range(T), w \in Range(all)
    PROVE  Moved(T, all)[IndexIn(T)[w]] = IndexIn(all)[w]
<1>1. IndexIn(T)[w] \in DOMAIN T /\ T[IndexIn(T)[w]] = w
  BY IndexFacts
<1> QED BY <1>1 DEF Moved

LEMMA ScopeKeysCarried ==
    ASSUME NEW l, NEW g, NEW k, <<"key", k>> \in Range(l)
    PROVE  <<"key", g[k]>> \in Range(TranslateScopes(l, g))
BY DEF TranslateScopes, Range

Composed(N, f, g, h) == \A w \in N : h[w] = g[f[w]]

LEMMA TranslateComposed ==
    ASSUME NEW W, NEW K, NEW V, NEW f, NEW g, NEW h, NEW f2, NEW g2, NEW h2,
           NEW S \in Seq(StatementsOver(W, K)),
           Suits(NamesOf(S), f, V), Composed(NamesOf(S), f, g, h),
           Composed(KeyNamesOf(S), f2, g2, h2)
    PROVE  TranslateAll(TranslateAll(S, f, f2), g, g2) = TranslateAll(S, h, h2)
<1>1. /\ \A w \in NamesOf(S) : h[w] = g[f[w]]
      /\ \A k \in KeyNamesOf(S) : h2[k] = g2[f2[k]]
  BY DEF Composed
<1> QED BY <1>1, TranslateAllTwice

\* What load_and_translate_block makes of a block, in the tables allS and allK
\* that it ends with.
Loads(b, T, KT, allS, allK, result) ==
    /\ result.symbols = allS /\ result.keys = allK
    /\ result.statements = TranslateAll(b.statements, Moved(T, allS), Moved(KT, allK))
    /\ result.scopes = TranslateScopes(b.scopes, Moved(KT, allK))

LEMMA LoadResult ==
    ASSUME NEW b, NEW T, NEW KT, NEW toS, NEW toK,
           NEW allS, allS = Insert(toS, NamesAt(T, AllWords(b.statements))),
           NEW allK, allK = Insert(toK, NamesAt(KT, ScopeKeys(b.scopes) \o AllKeys(b.statements, << >>))),
           NEW result, result = load_and_translate_block(b, T, KT, toS, toK), result.error = ""
    PROVE  Loads(b, T, KT, allS, allK, result)
<1> DEFINE made == [error |-> "", symbols |-> allS, keys |-> allK,
                    statements |-> TranslateAll(b.statements, Moved(T, allS), Moved(KT, allK)),
                    scopes |-> TranslateScopes(b.scopes, Moved(KT, allK))]
<1>1. result = IF ~ReadableAll(b.statements, b.scopes, T, KT) THEN [error |-> "UnknownSymbol"]
               ELSE IF \E s \in Range(b.statements) : ~HeadIsBound(s)
                    THEN [error |-> "InvalidBlockRule"] ELSE made
  BY DEF load_and_translate_block, Loaded, NamesAt, Moved
<1>2. made.symbols = allS /\ made.keys = allK
      /\ made.statements = TranslateAll(b.statements, Moved(T, allS), Moved(KT, allK))
      /\ made.scopes = TranslateScopes(b.scopes, Moved(KT, allK))
  OBVIOUS
<1>3. [error |-> "UnknownSymbol"].error # "" /\ [error |-> "InvalidBlockRule"].error # ""
  OBVIOUS
<1> HIDE DEF made
<1>4. result = made
  BY ONLY <1>1, <1>3, result.error = ""
<1> QED BY <1>2, <1>4, ZenonT(60) DEF Loads

LEMMA ScopeKeysOfNone ==
    ASSUME NEW W, NEW K, NEW S \in Seq(StatementsOver(W, K))
    PROVE  /\ AllKeys(S, << >>) \in Seq(K)
           /\ Range(AllKeys(S, << >>)) = KeyNamesOf(S)
<1>1. << >> \in Seq(ScopesOver(K))
  OBVIOUS
<1>2. /\ AllKeys(S, << >>) \in Seq(K)
      /\ Range(AllKeys(S, << >>)) = KeyNamesOf(S) \cup ScopeKeyNames(<< >>)
      /\ \A k : k \in ScopeKeyNames(<< >>) <=> <<"key", k>> \in Range(<< >>)
  BY <1>1, NamesOfFacts
<1>3. Range(<< >>) = {}
  BY DEF Range
<1> QED BY <1>2, <1>3

\* The parts of a block that build makes, but its version.
SameParts(made, sent) ==
    /\ sent.symbols = made.symbols /\ sent.public_keys = made.public_keys
    /\ sent.statements = made.statements /\ sent.scopes = made.scopes

\* What the result of a load says, in its own tables.
Says(result, S, l) ==
    /\ TranslateAll(result.statements, result.symbols, result.keys) = S
    /\ TranslateScopes(result.scopes, result.keys) = l

\* Statements that have their names in the tables beside them, and the names of
\* others too.
Usable(result) ==
    /\ result.symbols \in Seq(STRING)
    /\ result.statements \in Seq(StatementsOver(DOMAIN result.symbols, DOMAIN result.keys))
Knows(result, names) == Range(names) \subseteq Range(result.symbols)

\* A block that is loaded says what its builder was told.
LEMMA LoadFacts ==
    ASSUME NEW b, WellTyped(b), ~Panics(b),
           NEW symbols \in Seq(STRING), NEW keys \in Seq(STRING),
           NEW made, made = build(b, symbols, keys),
           NEW block1, SameParts(made, block1),
           NEW toS \in Seq(STRING), NEW toK \in Seq(STRING),
           NEW result,
           result = load_and_translate_block(block1, symbols \o block1.symbols,
                                             keys \o block1.public_keys, toS, toK),
           result.error = ""
    PROVE  Says(result, BlockStatements(b), b.scopes) /\ Usable(result) /\ Knows(result, toS)
<1>0. /\ WellTyped(b) /\ ~Panics(b) /\ made = build(b, symbols, keys)
      /\ symbols \in Seq(STRING) /\ keys \in Seq(STRING)
      /\ toS \in Seq(STRING) /\ toK \in Seq(STRING)
  OBVIOUS
<1>21. PICK S : S = BlockStatements(b)
  OBVIOUS
<1>22. PICK T, KT : T = BlockNames(b, symbols) /\ KT = BlockKeys(b, keys)
  OBVIOUS
<1>23. PICK Q, q : /\ Q = TranslateAll(S, IndexIn(T), IndexIn(KT))
                  /\ q = TranslateScopes(b.scopes, IndexIn(KT))
  OBVIOUS
<1>24. PICK n : n = ScopeKeys(q) \o AllKeys(Q, << >>)
  OBVIOUS
<1>25. PICK allS, allK : /\ allS = Insert(toS, NamesAt(T, AllWords(Q)))
                        /\ allK = Insert(toK, NamesAt(KT, n))
  OBVIOUS
<1>1. /\ T = symbols \o made.symbols /\ KT = keys \o made.public_keys
      /\ T \in Seq(STRING) /\ KT \in Seq(STRING)
      /\ NamesOf(S) \subseteq Range(T) /\ KeyNamesOf(S) \subseteq Range(KT)
      /\ ScopeKeyNames(b.scopes) \subseteq Range(KT)
      /\ made.statements = Q /\ made.scopes = q
      /\ Q \in Seq(StatementsOver(DOMAIN T, DOMAIN KT))
      /\ q \in Seq(ScopesOver(DOMAIN KT))
  <2>1. /\ Built(b, symbols, keys, T, KT, made)
        /\ T \in Seq(STRING) /\ KT \in Seq(STRING)
        /\ NamesOf(BlockStatements(b)) \subseteq Range(T)
        /\ KeyNamesOf(BlockStatements(b)) \subseteq Range(KT)
        /\ ScopeKeyNames(b.scopes) \subseteq Range(KT)
        /\ made.statements \in Seq(StatementsOver(DOMAIN T, DOMAIN KT))
        /\ made.scopes \in Seq(ScopesOver(DOMAIN KT))
    BY ONLY <1>0, <1>22, BuildFacts
  <2> QED BY ONLY <1>21, <1>23, <2>1 DEF Built
<1>2. /\ S \in Seq(StatementsOver(STRING, STRING)) /\ b.scopes \in Seq(ScopesOver(STRING))
  BY ONLY <1>0, <1>21, BuilderFacts
<1>30. T \in Seq(STRING) /\ KT \in Seq(STRING)
  BY ONLY <1>1
<1>31. S \in Seq(StatementsOver(STRING, STRING))
  BY ONLY <1>2
<1>3. /\ \A w \in Range(T) : IndexIn(T)[w] \in DOMAIN T /\ T[IndexIn(T)[w]] = w
      /\ \A k \in Range(KT) : IndexIn(KT)[k] \in DOMAIN KT /\ KT[IndexIn(KT)[k]] = k
  BY ONLY <1>1, IndexFacts
<1>4. Suits(NamesOf(S), IndexIn(T), DOMAIN T)
  BY ONLY <1>1, <1>2, ReadBack, ZenonT(60)
<1>5. /\ \A w \in NamesOf(S) : IndexIn(T)[w] \in NamesOf(Q)
      /\ \A k \in KeyNamesOf(S) : IndexIn(KT)[k] \in KeyNamesOf(Q)
  <2>1. \A k \in KeyNamesOf(S) : IndexIn(KT)[k] \in DOMAIN KT
    BY ONLY <1>1, <1>3
  <2>2. /\ \A w \in NamesOf(S) : IndexIn(T)[w] \in NamesOf(TranslateAll(S, IndexIn(T), IndexIn(KT)))
        /\ \A k \in KeyNamesOf(S) :
              IndexIn(KT)[k] \in KeyNamesOf(TranslateAll(S, IndexIn(T), IndexIn(KT)))
    BY ONLY <1>2, <1>4, <2>1, TranslateAllType
  <2> QED BY ONLY <1>23, <2>2
<1>6. \A k : <<"key", k>> \in Range(b.scopes) => <<"key", IndexIn(KT)[k]>> \in Range(q)
  <2>1. ASSUME NEW k, <<"key", k>> \in Range(b.scopes)
        PROVE  <<"key", IndexIn(KT)[k]>> \in Range(TranslateScopes(b.scopes, IndexIn(KT)))
    BY ONLY <2>1, ScopeKeysCarried
  <2> QED BY ONLY <1>23, <2>1
<1>7. /\ AllWords(Q) \in Seq(DOMAIN T) /\ Range(AllWords(Q)) = NamesOf(Q)
      /\ ScopeKeys(q) \in Seq(DOMAIN KT)
      /\ \A k : k \in Range(ScopeKeys(q)) <=> <<"key", k>> \in Range(q)
  BY ONLY <1>1, NamesOfFacts DEF ScopeKeyNames
<1>8. AllKeys(Q, << >>) \in Seq(DOMAIN KT) /\ Range(AllKeys(Q, << >>)) = KeyNamesOf(Q)
  BY ONLY <1>1, ScopeKeysOfNone
<1>9. /\ allS \in Seq(STRING) /\ NamesOf(S) \subseteq Range(allS)
      /\ Range(toS) \subseteq Range(allS)
  <2>1. /\ NamesAt(T, AllWords(Q)) \in Seq(STRING)
        /\ \A i \in Range(AllWords(Q)) : T[i] \in Range(NamesAt(T, AllWords(Q)))
    BY ONLY <1>1, <1>7, NamesAtFacts
  <2>2. allS \in Seq(STRING) /\ Range(allS) = Range(toS) \cup Range(NamesAt(T, AllWords(Q)))
    BY ONLY <1>0, <1>25, <2>1, InsertFacts
  <2>3. \A w \in NamesOf(S) : w \in Range(NamesAt(T, AllWords(Q)))
    <3> SUFFICES ASSUME NEW w \in NamesOf(S) PROVE w \in Range(NamesAt(T, AllWords(Q)))
      OBVIOUS
    <3>1. IndexIn(T)[w] \in Range(AllWords(Q)) /\ T[IndexIn(T)[w]] = w
      BY ONLY <1>1, <1>3, <1>5, <1>7
    <3> QED BY ONLY <2>1, <3>1
  <2> QED BY ONLY <2>2, <2>3
<1>10. /\ allK \in Seq(STRING) /\ KeyNamesOf(S) \subseteq Range(allK)
       /\ ScopeKeyNames(b.scopes) \subseteq Range(allK)
  <2>1. n \in Seq(DOMAIN KT) /\ Range(n) = Range(ScopeKeys(q)) \cup Range(AllKeys(Q, << >>))
    BY ONLY <1>7, <1>8, <1>24, JoinFacts
  <2>3. /\ NamesAt(KT, n) \in Seq(STRING)
        /\ \A i \in Range(n) : KT[i] \in Range(NamesAt(KT, n))
    BY ONLY <1>1, <2>1, NamesAtFacts
  <2>4. allK \in Seq(STRING) /\ Range(allK) = Range(toK) \cup Range(NamesAt(KT, n))
    BY ONLY <1>0, <1>25, <2>3, InsertFacts
  <2>5. \A k \in KeyNamesOf(S) : k \in Range(NamesAt(KT, n))
    <3> SUFFICES ASSUME NEW k \in KeyNamesOf(S) PROVE k \in Range(NamesAt(KT, n))
      OBVIOUS
    <3>1. IndexIn(KT)[k] \in Range(n) /\ KT[IndexIn(KT)[k]] = k
      BY ONLY <1>1, <1>3, <1>5, <1>8, <2>1
    <3> QED BY ONLY <2>3, <3>1
  <2>6. \A k \in ScopeKeyNames(b.scopes) : k \in Range(NamesAt(KT, n))
    <3> SUFFICES ASSUME NEW k \in ScopeKeyNames(b.scopes) PROVE k \in Range(NamesAt(KT, n))
      OBVIOUS
    <3>1. <<"key", k>> \in Range(b.scopes)
      BY ONLY <1>2, ScopeKeysAre DEF ScopeKeyNames
    <3>2. IndexIn(KT)[k] \in Range(n) /\ KT[IndexIn(KT)[k]] = k
      BY ONLY <1>1, <1>3, <1>6, <1>7, <2>1, <3>1
    <3> QED BY ONLY <2>3, <3>2
  <2> QED BY ONLY <2>4, <2>5, <2>6
<1>11. /\ result.symbols = allS /\ result.keys = allK
       /\ result.statements = TranslateAll(Q, Moved(T, allS), Moved(KT, allK))
       /\ result.scopes = TranslateScopes(q, Moved(KT, allK))
  <2>1. /\ block1.statements = Q /\ block1.scopes = q
        /\ symbols \o block1.symbols = T /\ keys \o block1.public_keys = KT
    BY <1>1 DEF SameParts
  <2>2. result = load_and_translate_block(block1, T, KT, toS, toK)
    BY <2>1
  <2>3. /\ allS = Insert(toS, NamesAt(T, AllWords(block1.statements)))
        /\ allK = Insert(toK, NamesAt(KT, ScopeKeys(block1.scopes) \o AllKeys(block1.statements, << >>)))
    BY ONLY <1>24, <1>25, <2>1
  <2>4. Loads(block1, T, KT, allS, allK, result)
    BY ONLY <2>2, <2>3, result.error = "", LoadResult
  <2> QED BY ONLY <2>1, <2>4 DEF Loads
<1>12. /\ \A w \in NamesOf(S) : IndexIn(allS)[w] = Moved(T, allS)[IndexIn(T)[w]]
       /\ \A k \in KeyNamesOf(S) : IndexIn(allK)[k] = Moved(KT, allK)[IndexIn(KT)[k]]
       /\ \A k \in ScopeKeyNames(b.scopes) : IndexIn(allK)[k] = Moved(KT, allK)[IndexIn(KT)[k]]
  <2>1. ASSUME NEW w \in Range(T), w \in Range(allS)
        PROVE  Moved(T, allS)[IndexIn(T)[w]] = IndexIn(allS)[w]
    BY ONLY <1>30, <2>1, MovedFacts
  <2>2. ASSUME NEW k \in Range(KT), k \in Range(allK)
        PROVE  Moved(KT, allK)[IndexIn(KT)[k]] = IndexIn(allK)[k]
    BY ONLY <1>30, <2>2, MovedFacts
  <2> QED BY ONLY <1>1, <1>9, <1>10, <2>1, <2>2
<1>13. result.statements = TranslateAll(S, IndexIn(allS), IndexIn(allK))
  <2>0. /\ Composed(NamesOf(S), IndexIn(T), Moved(T, allS), IndexIn(allS))
        /\ Composed(KeyNamesOf(S), IndexIn(KT), Moved(KT, allK), IndexIn(allK))
    BY ONLY <1>12 DEF Composed
  <2>1. TranslateAll(TranslateAll(S, IndexIn(T), IndexIn(KT)), Moved(T, allS), Moved(KT, allK))
           = TranslateAll(S, IndexIn(allS), IndexIn(allK))
    BY ONLY <1>31, <1>4, <2>0, TranslateComposed
  <2> QED BY ONLY <1>11, <1>23, <2>1
<1>14. result.scopes = TranslateScopes(b.scopes, IndexIn(allK))
  <2>1. \A k : k \in ScopeKeyNames(b.scopes) <=> <<"key", k>> \in Range(b.scopes)
    BY ONLY <1>2, ScopeKeysAre DEF ScopeKeyNames
  <2>2. TranslateScopes(TranslateScopes(b.scopes, IndexIn(KT)), Moved(KT, allK))
           = TranslateScopes(b.scopes, IndexIn(allK))
    BY ONLY <1>2, <1>12, <2>1, TranslateScopesTwice
  <2> QED BY ONLY <1>11, <1>23, <2>2
<1>15. TranslateAll(result.statements, result.symbols, result.keys) = S
  <2>1. /\ allS \in Seq(STRING) /\ NamesOf(S) \subseteq Range(allS)
        /\ allK \in Seq(STRING) /\ KeyNamesOf(S) \subseteq Range(allK)
    BY ONLY <1>9, <1>10
  <2>2. TranslateAll(TranslateAll(S, IndexIn(allS), IndexIn(allK)), allS, allK) = S
    BY ONLY <1>31, <2>1, ReadBack
  <2> QED BY ONLY <1>11, <1>13, <2>2
<1>16. TranslateScopes(result.scopes, result.keys) = b.scopes
  BY ONLY <1>2, <1>10, <1>11, <1>14, ScopesReadBack
<1>17. Usable(result) /\ Knows(result, toS)
  <2>1. /\ allS \in Seq(STRING) /\ NamesOf(S) \subseteq Range(allS)
        /\ allK \in Seq(STRING) /\ KeyNamesOf(S) \subseteq Range(allK)
    BY ONLY <1>9, <1>10
  <2>2. TranslateAll(S, IndexIn(allS), IndexIn(allK)) \in Seq(StatementsOver(DOMAIN allS, DOMAIN allK))
    BY ONLY <1>31, <2>1, ReadBack
  <2>3. result.symbols = allS /\ result.keys = allK
    BY ONLY <1>11
  <2> QED BY ONLY <1>9, <1>13, <2>2, <2>3 DEF Usable, Knows
<1> QED BY ONLY <1>21, <1>15, <1>16, <1>17 DEF Says

-----------------------------------------------------------------------------
(* The block that is sent.                                                     *)

Declared(made, least) == [made EXCEPT !.version = IF @ < least THEN least ELSE @]

\* What every reader sees of a block that is sent.
WellSent(b, least, sent) ==
    /\ sent.version \in Int /\ sent.version >= least
    /\ Covers(sent.version, Range(sent.statements), sent.scopes)
    /\ proto_block_to_token_block(token_block_to_proto_block(sent)) = sent
    /\ \A external \in BOOLEAN : (external => least = 5) =>
          (Accepts(token_block_to_proto_block(sent), external) <=> AllEven(BlockStatements(b)))

\* A block comes out of the wire as it was, and is accepted when its values are.
Crosses(b, S, l, v) ==
    /\ proto_block_to_token_block(token_block_to_proto_block(b)) = b
    /\ \A external \in BOOLEAN :
          v \in 3..6 /\ v >= version(get_schema_version(Range(S), l)) /\ (external => v >= 5) =>
          (Accepts(token_block_to_proto_block(b), external) <=> AllEven(S))

LEMMA BlockCrosses ==
    ASSUME NEW W, NEW K, NEW symbols, NEW keys, NEW S \in Seq(StatementsOver(W, K)),
           NEW l \in Seq(ScopesOver(K)), NEW v \in Int, Plainly(S), NoParameters(l)
    PROVE  Crosses(BlockOf(symbols, keys, S, l, v), S, l, v)
<1>1. PICK b : b = BlockOf(symbols, keys, S, l, v)
  OBVIOUS
<1>2. /\ proto_block_to_token_block(token_block_to_proto_block(b)) = b
      /\ \A external \in BOOLEAN :
            v \in 3..6 /\ v >= version(get_schema_version(Range(S), l)) /\ (external => v >= 5) =>
            (Accepts(token_block_to_proto_block(b), external) <=> AllEven(S))
  BY ONLY <1>1, S \in Seq(StatementsOver(W, K)), l \in Seq(ScopesOver(K)), v \in Int,
     Plainly(S), NoParameters(l), BlockOnWire, SMTT(60)
<1> QED BY ONLY <1>1, <1>2 DEF Crosses

LEMMA DeclaredIs ==
    ASSUME NEW made, NEW symbols, NEW keys, NEW S, NEW l, NEW v, NEW least,
           made = BlockOf(symbols, keys, S, l, v)
    PROVE  /\ Declared(made, least) = BlockOf(symbols, keys, S, l, IF v < least THEN least ELSE v)
           /\ SameParts(made, Declared(made, least))
BY DEF Declared, BlockOf, SameParts

LEMMA BuildIs ==
    ASSUME NEW b, NEW symbols, NEW keys, NEW made, made = build(b, symbols, keys)
    PROVE  made = BlockOf(made.symbols, made.public_keys, made.statements, made.scopes, made.version)
BY DEF build, BlockOf

LEMMA SentFacts ==
    ASSUME NEW b, WellTyped(b), ~Panics(b),
           NEW symbols \in Seq(STRING), NEW keys \in Seq(STRING),
           NEW made, made = build(b, symbols, keys),
           NEW least \in {3, 5}, NEW sent, sent = Declared(made, least)
    PROVE  /\ SameParts(made, sent) /\ sent.version >= made.version
           /\ WellSent(b, least, sent)
<1>1. PICK T, KT : T = BlockNames(b, symbols) /\ KT = BlockKeys(b, keys)
  OBVIOUS
<1>2. PICK S, l, v : S = made.statements /\ l = made.scopes /\ v = made.version
  OBVIOUS
<1>3. /\ Built(b, symbols, keys, T, KT, made)
      /\ made.statements \in Seq(StatementsOver(DOMAIN T, DOMAIN KT))
      /\ made.scopes \in Seq(ScopesOver(DOMAIN KT))
      /\ Plainly(made.statements) /\ NoParameters(made.scopes)
      /\ AllEven(made.statements) <=> AllEven(BlockStatements(b))
  BY ONLY <1>1, WellTyped(b), ~Panics(b), symbols \in Seq(STRING), keys \in Seq(STRING),
          made = build(b, symbols, keys), BuildFacts
<1>4. /\ S \in Seq(StatementsOver(DOMAIN T, DOMAIN KT)) /\ l \in Seq(ScopesOver(DOMAIN KT))
      /\ Plainly(S) /\ NoParameters(l)
      /\ AllEven(S) <=> AllEven(BlockStatements(b))
      /\ v = version(get_schema_version(Range(S), l))
  BY ONLY <1>2, <1>3 DEF Built
<1>5. S \in Seq(StatementsOver(DOMAIN T, DOMAIN KT))
  BY ONLY <1>4
<1>6. v \in {3, 4, 6} /\ Covers(v, Range(S), l)
  <2>1. v = version(get_schema_version(Range(S), l))
    BY ONLY <1>4
  <2>2. Range(S) \subseteq StatementsOver(DOMAIN T, DOMAIN KT)
    BY ONLY <1>5 DEF Range
  <2> QED BY ONLY <2>1, <2>2, VersionCovers
<1>8. PICK w : w = IF v < least THEN least ELSE v
  OBVIOUS
<1>9. w \in Int /\ w \in 3..6 /\ w >= v /\ w >= least
  BY ONLY <1>6, <1>8, least \in {3, 5}
<1>10. (w = 6 <=> v = 6) /\ (w = 4 => v = 4)
  BY ONLY <1>6, <1>8, least \in {3, 5}
<1>11. Covers(w, Range(S), l)
  BY ONLY <1>6, <1>9, <1>10 DEF Covers
<1>12. /\ sent = BlockOf(made.symbols, made.public_keys, S, l, w)
       /\ SameParts(made, sent)
  <2>1. made = BlockOf(made.symbols, made.public_keys, made.statements, made.scopes, made.version)
    BY ONLY made = build(b, symbols, keys), BuildIs
  <2>2. /\ Declared(made, least) = BlockOf(made.symbols, made.public_keys, made.statements,
                                           made.scopes, IF made.version < least THEN least ELSE made.version)
        /\ SameParts(made, Declared(made, least))
    BY ONLY <2>1, DeclaredIs
  <2> QED BY ONLY <1>2, <1>8, <2>2, sent = Declared(made, least)
<1>13. sent.statements = S /\ sent.scopes = l /\ sent.version = w
  BY ONLY <1>12 DEF BlockOf
<1>14. /\ proto_block_to_token_block(token_block_to_proto_block(sent)) = sent
       /\ \A external \in BOOLEAN :
             w \in 3..6 /\ w >= version(get_schema_version(Range(S), l)) /\ (external => w >= 5) =>
             (Accepts(token_block_to_proto_block(sent), external) <=> AllEven(S))
  <2>1. /\ l \in Seq(ScopesOver(DOMAIN KT)) /\ Plainly(S) /\ NoParameters(l) /\ w \in Int
    BY ONLY <1>4, <1>9
  <2>2. sent = BlockOf(made.symbols, made.public_keys, S, l, w)
    BY ONLY <1>12
  <2>3. Crosses(BlockOf(made.symbols, made.public_keys, S, l, w), S, l, w)
    BY ONLY <1>5, <2>1, BlockCrosses
  <2> QED BY ONLY <2>2, <2>3 DEF Crosses
<1>15. ASSUME NEW external \in BOOLEAN, external => least = 5
       PROVE  Accepts(token_block_to_proto_block(sent), external) <=> AllEven(BlockStatements(b))
  <2>1. w \in 3..6 /\ w >= version(get_schema_version(Range(S), l)) /\ (external => w >= 5)
    BY <1>4, <1>9, <1>15
  <2> QED BY ONLY <1>4, <1>14, <2>1, external \in BOOLEAN
<1>16. WellSent(b, least, sent)
  BY ONLY <1>9, <1>11, <1>13, <1>14, <1>15 DEF WellSent
<1>17. sent.version >= made.version
  BY ONLY <1>2, <1>9, <1>13
<1> QED BY <1>12, <1>16, <1>17

\* A statement without odd values is one that can be read.
LEMMA OddIs ==
    ASSUME NEW S
    PROVE  AllEven(S) <=> ~\E s \in Range(S) : \E x \in Values(s) : IsOddSet(x)
BY DEF AllEven, EvenStatement, Even, Values

-----------------------------------------------------------------------------
(* An authorizer that is built, saved, or taken a snapshot of.                 *)

\* What build_inner makes of statements and scopes.
Inner(S, l, T, KT, result) ==
    /\ result.symbols = T /\ result.keys = KT
    /\ result.statements = TranslateAll(S, IndexIn(T), IndexIn(KT))
    /\ result.scopes = TranslateScopes(l, IndexIn(KT))

LEMMA InnerIs ==
    ASSUME NEW b, NEW symbols, NEW keys
    PROVE  Inner(InOrder(b), b.scopes, Insert(symbols, AllWords(InOrder(b))),
                 Insert(keys, ScopeKeys(b.scopes) \o AllKeys(InOrder(b), << >>)),
                 build_inner(b, symbols, keys))
BY DEF Inner, build_inner

LEMMA InnerFacts ==
    ASSUME NEW b, WellTyped(b),
           NEW symbols \in Seq(STRING), NEW keys \in Seq(STRING),
           NEW result, result = build_inner(b, symbols, keys)
    PROVE  /\ TranslateAll(result.statements, result.symbols, result.keys) = InOrder(b)
           /\ TranslateScopes(result.scopes, result.keys) = b.scopes
           /\ Usable(result) /\ Knows(result, symbols)
<1>1. PICK S, l : S = InOrder(b) /\ l = b.scopes
  OBVIOUS
<1>2. PICK n : n = ScopeKeys(l) \o AllKeys(S, << >>)
  OBVIOUS
<1>3. PICK T, KT : T = Insert(symbols, AllWords(S)) /\ KT = Insert(keys, n)
  OBVIOUS
<1>4. S \in Seq(StatementsOver(STRING, STRING)) /\ l \in Seq(ScopesOver(STRING))
  BY ONLY <1>1, WellTyped(b), BuilderTypes
<1>5. /\ AllWords(S) \in Seq(STRING) /\ Range(AllWords(S)) = NamesOf(S)
      /\ ScopeKeys(l) \in Seq(STRING)
  BY ONLY <1>4, NamesOfFacts
<1>6. AllKeys(S, << >>) \in Seq(STRING) /\ Range(AllKeys(S, << >>)) = KeyNamesOf(S)
  BY ONLY <1>4, ScopeKeysOfNone
<1>7. n \in Seq(STRING) /\ Range(n) = ScopeKeyNames(l) \cup KeyNamesOf(S)
  BY ONLY <1>2, <1>5, <1>6, JoinFacts DEF ScopeKeyNames
<1>8. T \in Seq(STRING) /\ Range(T) = Range(symbols) \cup Range(AllWords(S))
  BY ONLY <1>3, <1>5, symbols \in Seq(STRING), InsertFacts
<1>9. KT \in Seq(STRING) /\ Range(KT) = Range(keys) \cup Range(n)
  BY ONLY <1>3, <1>7, keys \in Seq(STRING), InsertFacts
<1>10. /\ NamesOf(S) \subseteq Range(T) /\ KeyNamesOf(S) \subseteq Range(KT)
       /\ ScopeKeyNames(l) \subseteq Range(KT)
  BY ONLY <1>5, <1>7, <1>8, <1>9
<1>11. Inner(S, l, T, KT, result)
  BY ONLY <1>1, <1>2, <1>3, result = build_inner(b, symbols, keys), InnerIs
<1>12. S \in Seq(StatementsOver(STRING, STRING)) /\ T \in Seq(STRING) /\ KT \in Seq(STRING)
  BY ONLY <1>4, <1>8, <1>9
<1>13. TranslateAll(TranslateAll(S, IndexIn(T), IndexIn(KT)), T, KT) = S
  BY ONLY <1>10, <1>12, ReadBack
<1>14. TranslateScopes(TranslateScopes(l, IndexIn(KT)), KT) = l
  BY ONLY <1>4, <1>9, <1>10, ScopesReadBack
<1>15. Usable(result) /\ Knows(result, symbols)
  <2>1. TranslateAll(S, IndexIn(T), IndexIn(KT)) \in Seq(StatementsOver(DOMAIN T, DOMAIN KT))
    BY ONLY <1>10, <1>12, ReadBack
  <2>2. /\ result.symbols = T /\ result.keys = KT
        /\ result.statements = TranslateAll(S, IndexIn(T), IndexIn(KT))
    BY ONLY <1>11 DEF Inner
  <2> QED BY ONLY <1>8, <2>1, <2>2 DEF Usable, Knows
<1> QED BY ONLY <1>1, <1>11, <1>13, <1>14, <1>15 DEF Inner

\* What is restored of a block, and when it can be.
LEMMA RestoredIs ==
    ASSUME NEW symbols, NEW keys, NEW X, NEW Y, NEW v, NEW R, R = ReadAll(X),
           NEW l, l = EachFromProto(Y), NEW p, p = BlockOf(symbols, keys, X, Y, v),
           NEW N, N = TranslateAll(R, symbols, keys)
    PROVE  /\ RestorableSaved(p) <=>
                  /\ v \in 3..6
                  /\ \A s \in Range(X) : DecodableStatement(s, v)
                  /\ ReadableAll(R, l, symbols, keys)
           /\ restored(p).items = [i \in DOMAIN N |-> Template(N[i], "code")]
           /\ restored(p).scopes = TranslateScopes(l, keys)
<1>1. PICK read : read = BlockOf(symbols, keys, R, l, v)
  OBVIOUS
<1>2. proto_block_to_token_block(p) = read
  BY <1>1, SentBlockIs
<1>3. /\ read.statements = R /\ read.scopes = l
      /\ p.statements = X /\ p.symbols = symbols /\ p.public_keys = keys /\ p.version = v
  BY <1>1 DEF BlockOf
<1>4. RestorableSaved(p) <=>
          /\ v \in 3..6
          /\ \A s \in Range(X) : DecodableStatement(s, v)
          /\ ReadableAll(R, l, symbols, keys)
  BY ONLY <1>2, <1>3 DEF RestorableSaved, MIN_SCHEMA_VERSION, MAX_SCHEMA_VERSION
<1>5. restored(p) = [Empty EXCEPT !.items = [i \in DOMAIN N |-> Template(N[i], "code")],
                                  !.scopes = TranslateScopes(l, keys)]
  BY ONLY <1>2, <1>3, N = TranslateAll(R, symbols, keys) DEF restored
<1>6. /\ restored(p).items = [i \in DOMAIN N |-> Template(N[i], "code")]
      /\ restored(p).scopes = TranslateScopes(l, keys)
  BY ONLY <1>5 DEF Empty
<1> QED BY ONLY <1>4, <1>6

LEMMA SnapshotRestorableIs ==
    ASSUME NEW symbols, NEW keys, NEW X, NEW Y, NEW v, NEW R, R = ReadAll(X),
           NEW l, l = EachFromProto(Y), NEW p, p = BlockOf(symbols, keys, X, Y, v),
           NEW A, A = {s \in Range(R) : s[1] # "policy"}
    PROVE  RestorableSnapshot(p) <=>
               /\ v \in 3..6
               /\ \A s \in Range(X) :
                     IF s[1] = "policy" THEN DecodableStatement(s, 6)
                     ELSE DecodableStatement(s, v) /\ (s[1] = "check" /\ v = 3 => s[2] = << >>)
               /\ check_compatibility(get_schema_version(A, l), v)
               /\ ReadableAll(R, l, symbols, keys)
<1>1. PICK read : read = BlockOf(symbols, keys, R, l, v)
  OBVIOUS
<1>2. proto_block_to_token_block(p) = read
  BY <1>1, SentBlockIs
<1>3. /\ read.statements = R /\ read.scopes = l
      /\ p.statements = X /\ p.symbols = symbols /\ p.public_keys = keys /\ p.version = v
  BY <1>1 DEF BlockOf
<1> QED BY ONLY <1>2, <1>3, A = {s \in Range(R) : s[1] # "policy"}
           DEF RestorableSnapshot, MIN_SCHEMA_VERSION, MAX_SCHEMA_VERSION

Templates(N) == [i \in DOMAIN N |-> Template(N[i], "code")]

LEMMA TemplatesApplied ==
    ASSUME NEW W, NEW K, NEW N \in Seq(StatementsOver(W, K)), \A s \in Range(N) : ~Remains(s)
    PROVE  Applied(Templates(N)) = N
<1>1. /\ Len(N) \in Nat /\ DOMAIN N = 1..Len(N)
      /\ \A i \in DOMAIN N : N[i] \in StatementsOver(W, K) /\ N[i] \in Range(N)
  BY MappedFacts
<1>2. ASSUME NEW i \in DOMAIN N PROVE apply_parameters(Templates(N)[i]) = N[i]
  <2>1. PICK s : s = N[i]
    OBVIOUS
  <2>2. s \in StatementsOver(W, K) /\ ~Remains(s)
    BY <1>1, <2>1
  <2>3. apply_parameters(Template(s, "code")) = s
    BY ONLY <2>2, TemplateApplied
  <2>4. Templates(N)[i] = Template(N[i], "code")
    BY DEF Templates
  <2> QED BY ONLY <2>1, <2>3, <2>4
<1>3. DOMAIN Templates(N) = DOMAIN N
  BY DEF Templates
<1>4. Applied(Templates(N)) = [i \in DOMAIN N |-> N[i]]
  BY <1>2, <1>3 DEF Applied
<1> QED BY <1>1, <1>4

\* A builder that holds what another builder holds, in order, holds it in order.
LEMMA OrderKept ==
    ASSUME NEW b, WellTyped(b), ~Panics(b), NEW c, c.items = Templates(InOrder(b))
    PROVE  InOrder(c) = InOrder(b)
<1>1. PICK N : N = InOrder(b)
  OBVIOUS
<1>2. N \in Seq(StatementsOver(STRING, STRING)) /\ \A s \in Range(N) : ~Remains(s)
  BY ONLY <1>1, WellTyped(b), ~Panics(b), BuilderFacts
<1>3. Applied(c.items) = N
  <2>1. Applied(Templates(N)) = N
    BY ONLY <1>2, TemplatesApplied
  <2> QED BY ONLY <1>1, <2>1, c.items = Templates(InOrder(b))
<1>4. InOrder(c) = Sorted(N)
  <2>1. Applied(c.items) \in Seq(StatementsOver(STRING, STRING))
    BY ONLY <1>2, <1>3
  <2>2. InOrder(c) = Sorted(Applied(c.items))
    BY ONLY <2>1, BuilderStatements
  <2> QED BY ONLY <1>3, <2>2
<1>5. PICK A : A = Applied(b.items)
  OBVIOUS
<1>6. A \in Seq(StatementsOver(STRING, STRING))
  BY ONLY <1>5, WellTyped(b) DEF WellTyped
<1>7. N = Sorted(A)
  BY ONLY <1>1, <1>5, <1>6, BuilderStatements
<1>8. Sorted(Sorted(A)) = Sorted(A)
  BY ONLY <1>6, SortedTwice
<1> QED BY ONLY <1>1, <1>4, <1>7, <1>8

\* A list of statements is read in tables of its names, whatever the keys are
\* when it has none.
LEMMA KeylessReadBack ==
    ASSUME NEW W, NEW K, NEW A, NEW S \in Seq(StatementsOver(W, K)), NEW T \in Seq(A),
           NEW g, NEW KT, NamesOf(S) \subseteq Range(T), KeyNamesOf(S) = {}
    PROVE  TranslateAll(TranslateAll(S, IndexIn(T), g), T, KT) = S
<1>1. Suits(NamesOf(S), IndexIn(T), DOMAIN T) /\ \A w \in NamesOf(S) : T[IndexIn(T)[w]] = w
  BY IndexSuits
<1>2. PICK h : h = [w \in NamesOf(S) |-> w]
  OBVIOUS
<1>3. Composed(NamesOf(S), IndexIn(T), T, h) /\ \A w \in NamesOf(S) : h[w] = w
  BY <1>1, <1>2 DEF Composed
<1>4. Composed(KeyNamesOf(S), g, KT, h) /\ \A k \in KeyNamesOf(S) : h[k] = k
  BY DEF Composed
<1>5. TranslateAll(TranslateAll(S, IndexIn(T), g), T, KT) = TranslateAll(S, h, h)
  BY ONLY <1>1, <1>3, <1>4, S \in Seq(StatementsOver(W, K)), TranslateComposed
<1>6. TranslateAll(S, h, h) = S
  BY ONLY <1>3, <1>4, S \in Seq(StatementsOver(W, K)), TranslateAllSame
<1> QED BY ONLY <1>5, <1>6

LEMMA KeylessType ==
    ASSUME NEW W, NEW K, NEW V, NEW S \in Seq(StatementsOver(W, K)), NEW f, NEW g,
           Suits(NamesOf(S), f, V), KeyNamesOf(S) = {}
    PROVE  AllKeys(TranslateAll(S, f, g), << >>) = << >>
<1>1. TranslateAll(S, f, g) \in Seq(StatementsOver(V, {}))
  <2>1. \A k \in KeyNamesOf(S) : g[k] \in {}
    OBVIOUS
  <2> QED BY ONLY <2>1, S \in Seq(StatementsOver(W, K)), Suits(NamesOf(S), f, V), TranslateAllType
<1>2. AllKeys(TranslateAll(S, f, g), << >>) \in Seq({})
  BY ONLY <1>1, ScopeKeysOfNone
<1> QED BY <1>2

LEMMA NoKeysAre ==
    ASSUME NEW W, NEW K, NEW S \in Seq(StatementsOver(W, K))
    PROVE  AllKeys(S, << >>) = << >> <=> KeyNamesOf(S) = {}
<1>1. AllKeys(S, << >>) \in Seq(K) /\ Range(AllKeys(S, << >>)) = KeyNamesOf(S)
  BY ScopeKeysOfNone
<1>2. PICK n : n = AllKeys(S, << >>)
  OBVIOUS
<1>3. n \in Seq(K) /\ Range(n) = KeyNamesOf(S)
  BY ONLY <1>1, <1>2
<1>4. n = << >> <=> Range(n) = {}
  <2>1. n # << >> => 1 \in DOMAIN n
    BY ONLY <1>3
  <2>2. n = << >> => DOMAIN n = {}
    OBVIOUS
  <2> QED BY ONLY <2>1, <2>2 DEF Range
<1> QED BY ONLY <1>2, <1>3, <1>4

LEMMA SavedIs ==
    ASSUME NEW b, NEW S, S = InOrder(b), NEW T, T = Once(AllWords(S)),
           NEW KT, KT = Once(AllKeys(S, << >>)),
           NEW Q, Q = TranslateAll(S, IndexIn(T), IndexIn(KT))
    PROVE  saved(b) = BlockOf(T, << >>, SentAll(Q), << >>, 6)
<1>1. saved(b) = BlockOf(T, << >>,
                     [i \in DOMAIN S |-> Encoded(TranslateStatement(S[i], IndexIn(T), IndexIn(KT)))],
                     << >>, 6)
  BY DEF saved, BlockOf, MAX_SCHEMA_VERSION
<1>2. SentAll(Q) = [i \in DOMAIN S |-> Encoded(TranslateStatement(S[i], IndexIn(T), IndexIn(KT)))]
  <2>1. DOMAIN Q = DOMAIN S /\ \A i \in DOMAIN S : Q[i] = TranslateStatement(S[i], IndexIn(T), IndexIn(KT))
    BY DEF TranslateAll
  <2> QED BY ONLY <2>1 DEF SentAll
<1> QED BY ONLY <1>1, <1>2

LEMMA OnceFacts ==
    ASSUME NEW S, NEW names \in Seq(S)
    PROVE  Once(names) \in Seq(S) /\ Range(Once(names)) = Range(names)
<1>1. << >> \in Seq(S) /\ Range(<< >>) = {}
  BY DEF Range
<1>2. PICK table : table = << >>
  OBVIOUS
<1>3. table \in Seq(S) /\ Range(table) = {}
  BY <1>1, <1>2
<1>4. New(table, names) = AllAdded(table, names)
  BY DEF New, Added, AllAdded
<1>5. /\ AllAdded(table, names) \in Seq(S)
      /\ Range(AllAdded(table, names)) = Range(names) \ Range(table)
  <2>1. \A xs \in Seq(S) : /\ AllAdded(table, xs) \in Seq(S)
                           /\ Range(AllAdded(table, xs)) = Range(xs) \ Range(table)
    BY ONLY AddedFacts
  <2> QED BY ONLY <2>1, names \in Seq(S)
<1>6. Once(names) = AllAdded(table, names)
  BY <1>2, <1>4 DEF Once
<1> QED BY ONLY <1>3, <1>5, <1>6

\* Statements that are sent can be decoded when their values are even: policies
\* with the last version, others with that of their block.
LEMMA AllDecodable ==
    ASSUME NEW W, NEW K, NEW Q \in Seq(StatementsOver(W, K)), Plainly(Q), NEW v,
           \A s \in Range(Q) : s[1] # "policy" /\ v < 4 => NoScopes(s)
    PROVE  (\A s \in Range(SentAll(Q)) : DecodableStatement(s, IF s[1] = "policy" THEN 6 ELSE v))
              <=> AllEven(Q)
<1>1. ASSUME NEW s \in Range(Q)
      PROVE  DecodableStatement(Encoded(s), IF Encoded(s)[1] = "policy" THEN 6 ELSE v)
                <=> EvenStatement(s)
  <2>1. s \in StatementsOver(W, K) /\ NoScopeParameters(s)
    BY MappedFacts DEF Plainly
  <2>2. PICK d : d = IF s[1] = "policy" THEN 6 ELSE v
    OBVIOUS
  <2>3. d < DATALOG_3_1 => NoScopes(s)
    BY <2>2 DEF DATALOG_3_1
  <2>4. Encoded(s)[1] = s[1] /\ (DecodableStatement(Encoded(s), d)
                                    <=> EvenStatement(s) /\ (d < DATALOG_3_1 => NoScopes(s)))
    BY ONLY <2>1, StatementOnWire
  <2> QED BY ONLY <2>2, <2>3, <2>4
<1>2. /\ \A x \in Range(SentAll(Q)) : \E s \in Range(Q) : x = Encoded(s)
      /\ \A s \in Range(Q) : Encoded(s) \in Range(SentAll(Q))
  BY DEF SentAll, Range
<1> QED BY ONLY <1>1, <1>2 DEF AllEven

\* A saved authorizer is read when it names no key and its values are even, and
\* then it holds the same statements.
LEMMA SavedFacts ==
    ASSUME NEW b, WellTyped(b), ~Panics(b), NEW p, p = saved(b)
    PROVE  /\ RestorableSaved(p) <=> AllEven(InOrder(b)) /\ AllKeys(InOrder(b), << >>) = << >>
           /\ RestorableSaved(p) => InOrder(restored(p)) = InOrder(b) /\ restored(p).scopes = << >>
           /\ RestorableSaved(p) => restored(p).items = Templates(InOrder(b))
<1>1. PICK S : S = InOrder(b)
  OBVIOUS
<1>2. PICK T, KT : T = Once(AllWords(S)) /\ KT = Once(AllKeys(S, << >>))
  OBVIOUS
<1>3. PICK Q : Q = TranslateAll(S, IndexIn(T), IndexIn(KT))
  OBVIOUS
<1>4. S \in Seq(StatementsOver(STRING, STRING)) /\ Plainly(S)
  BY ONLY <1>1, WellTyped(b), ~Panics(b), BuilderFacts
<1>5. S \in Seq(StatementsOver(STRING, STRING))
  BY ONLY <1>4
<1>6. << >> \in Seq(ScopesOver(STRING))
  OBVIOUS
<1>7. AllWords(S) \in Seq(STRING) /\ Range(AllWords(S)) = NamesOf(S)
  BY ONLY <1>5, <1>6, NamesOfFacts
<1>8. AllKeys(S, << >>) \in Seq(STRING) /\ Range(AllKeys(S, << >>)) = KeyNamesOf(S)
  BY ONLY <1>5, ScopeKeysOfNone
<1>9. T \in Seq(STRING) /\ Range(T) = NamesOf(S)
  BY ONLY <1>2, <1>7, OnceFacts
<1>10. KT \in Seq(STRING) /\ Range(KT) = KeyNamesOf(S)
  BY ONLY <1>2, <1>8, OnceFacts
<1>11. NamesOf(S) \subseteq Range(T) /\ KeyNamesOf(S) \subseteq Range(KT)
  BY ONLY <1>9, <1>10
<1>12. T \in Seq(STRING) /\ KT \in Seq(STRING)
  BY ONLY <1>9, <1>10
<1>13. /\ Suits(NamesOf(S), IndexIn(T), DOMAIN T)
       /\ Q \in Seq(StatementsOver(DOMAIN T, DOMAIN KT))
  <2>1. /\ Suits(NamesOf(S), IndexIn(T), DOMAIN T)
        /\ TranslateAll(S, IndexIn(T), IndexIn(KT)) \in Seq(StatementsOver(DOMAIN T, DOMAIN KT))
    BY ONLY <1>5, <1>11, <1>12, ReadBack
  <2> QED BY ONLY <1>3, <2>1
<1>14. \A k \in KeyNamesOf(S) : IndexIn(KT)[k] \in DOMAIN KT
  <2>1. \A k \in Range(KT) : IndexIn(KT)[k] \in DOMAIN KT
    BY ONLY <1>12, IndexFacts
  <2> QED BY ONLY <1>11, <2>1
<1>15. Plainly(Q) /\ (AllEven(Q) <=> AllEven(S))
  <2>1. /\ Plainly(TranslateAll(S, IndexIn(T), IndexIn(KT)))
        /\ AllEven(TranslateAll(S, IndexIn(T), IndexIn(KT))) <=> AllEven(S)
    BY ONLY <1>4, <1>13, <1>14, AllStayPlain
  <2> QED BY ONLY <1>3, <2>1
<1>16. p = BlockOf(T, << >>, SentAll(Q), << >>, 6)
  BY ONLY <1>1, <1>2, <1>3, p = saved(b), SavedIs
<1>17. ReadAll(SentAll(Q)) = Q
  <2>1. Q \in Seq(StatementsOver(DOMAIN T, DOMAIN KT)) /\ Plainly(Q)
    BY ONLY <1>13, <1>15
  <2> QED BY ONLY <2>1, AllOnWire
<1>18. EachFromProto(<< >>) = << >>
  BY DEF EachFromProto
<1>19. PICK N : N = TranslateAll(Q, T, << >>)
  OBVIOUS
<1>20. /\ RestorableSaved(p) <=>
              /\ 6 \in 3..6
              /\ \A s \in Range(SentAll(Q)) : DecodableStatement(s, 6)
              /\ ReadableAll(Q, << >>, T, << >>)
       /\ restored(p).items = [i \in DOMAIN N |-> Template(N[i], "code")]
       /\ restored(p).scopes = TranslateScopes(<< >>, << >>)
  BY ONLY <1>16, <1>17, <1>18, <1>19, RestoredIs
<1>21. (\A s \in Range(SentAll(Q)) : DecodableStatement(s, 6)) <=> AllEven(S)
  <2>1. Q \in Seq(StatementsOver(DOMAIN T, DOMAIN KT)) /\ Plainly(Q)
    BY ONLY <1>13, <1>15
  <2>2. \A s \in Range(Q) : s[1] # "policy" /\ 6 < 4 => NoScopes(s)
    OBVIOUS
  <2>3. (\A s \in Range(SentAll(Q)) : DecodableStatement(s, IF s[1] = "policy" THEN 6 ELSE 6))
           <=> AllEven(Q)
    BY ONLY <2>1, <2>2, AllDecodable
  <2>4. \A s : (IF s[1] = "policy" THEN 6 ELSE 6) = 6
    OBVIOUS
  <2> QED BY ONLY <1>15, <2>3, <2>4
<1>22. ReadableAll(Q, << >>, T, << >>) <=> KeyNamesOf(S) = {}
  <2>1. Range(AllWords(Q)) \subseteq DOMAIN T
    <3>1. << >> \in Seq(ScopesOver(DOMAIN KT))
      OBVIOUS
    <3>2. Q \in Seq(StatementsOver(DOMAIN T, DOMAIN KT))
      BY ONLY <1>13
    <3>3. Range(AllWords(Q)) = NamesOf(Q) /\ NamesOf(Q) \subseteq DOMAIN T
      BY ONLY <3>1, <3>2, NamesOfFacts
    <3> QED BY ONLY <3>3
  <2>2. ASSUME KeyNamesOf(S) = {} PROVE AllKeys(Q, << >>) = << >>
    <3>1. AllKeys(TranslateAll(S, IndexIn(T), IndexIn(KT)), << >>) = << >>
      BY ONLY <1>5, <1>13, <2>2, KeylessType
    <3> QED BY ONLY <1>3, <3>1
  <2>3. ASSUME NEW k \in KeyNamesOf(S) PROVE Range(AllKeys(Q, << >>)) # {}
    <3>1. \A x \in KeyNamesOf(S) :
             IndexIn(KT)[x] \in KeyNamesOf(TranslateAll(S, IndexIn(T), IndexIn(KT)))
      BY ONLY <1>5, <1>13, <1>14, TranslateAllType
    <3>2. Q \in Seq(StatementsOver(DOMAIN T, DOMAIN KT))
      BY ONLY <1>13
    <3>3. Range(AllKeys(Q, << >>)) = KeyNamesOf(Q)
      BY ONLY <3>2, ScopeKeysOfNone
    <3> QED BY ONLY <1>3, <3>1, <3>3, k \in KeyNamesOf(S)
  <2>4. Range(<< >>) = {} /\ DOMAIN << >> = {}
    BY DEF Range
  <2>5. ReadableAll(Q, << >>, T, << >>) <=> Range(AllKeys(Q, << >>)) \subseteq {}
    BY ONLY <2>1, <2>4 DEF ReadableAll
  <2> QED BY ONLY <2>2, <2>3, <2>4, <2>5
<1>23. AllKeys(S, << >>) = << >> <=> KeyNamesOf(S) = {}
  BY ONLY <1>5, NoKeysAre
<1>24. RestorableSaved(p) <=> AllEven(S) /\ AllKeys(S, << >>) = << >>
  BY ONLY <1>20, <1>21, <1>22, <1>23
<1>25. ASSUME KeyNamesOf(S) = {} PROVE N = S
  <2>1. TranslateAll(TranslateAll(S, IndexIn(T), IndexIn(KT)), T, << >>) = S
    BY ONLY <1>5, <1>11, <1>12, <1>25, KeylessReadBack
  <2> QED BY ONLY <1>3, <1>19, <2>1
<1>26. restored(p).scopes = << >>
  BY ONLY <1>20 DEF TranslateScopes
<1>27. ASSUME N = S
       PROVE  InOrder(restored(p)) = InOrder(b) /\ restored(p).items = Templates(InOrder(b))
  <2>1. restored(p).items = Templates(InOrder(b))
    BY ONLY <1>1, <1>20, <1>27 DEF Templates
  <2>2. InOrder(restored(p)) = InOrder(b)
    BY ONLY <2>1, WellTyped(b), ~Panics(b), OrderKept
  <2> QED BY ONLY <2>1, <2>2
<1> QED BY ONLY <1>1, <1>23, <1>24, <1>25, <1>26, <1>27

\* The checks and the policies of a saved authorizer, which are all that is
\* loaded when it is restored.
WorldOf(made) == [made EXCEPT !.items = OfKind(made, "check") \o OfKind(made, "policy")]

LEMMA WorldFacts ==
    ASSUME NEW b, WellTyped(b), ~Panics(b), NEW p, p = saved(b), RestorableSaved(p),
           NEW made, made = restored(p), NEW world, world = WorldOf(made)
    PROVE  /\ WellTyped(world) /\ InOrder(made) = InOrder(b)
           /\ InOrder(world) = Applied(OfKind(b, "check")) \o Policies(b)
<1>1. PICK N : N = InOrder(b)
  OBVIOUS
<1>2. made.items = Templates(N) /\ made.scopes = << >> /\ InOrder(made) = N
  <2>1. /\ RestorableSaved(p) => InOrder(restored(p)) = InOrder(b) /\ restored(p).scopes = << >>
        /\ RestorableSaved(p) => restored(p).items = Templates(InOrder(b))
    BY ONLY WellTyped(b), ~Panics(b), p = saved(b), SavedFacts
  <2> QED BY ONLY <1>1, <2>1, RestorableSaved(p), made = restored(p)
<1>3. N \in Seq(StatementsOver(STRING, STRING)) /\ \A s \in Range(N) : ~Remains(s)
  BY ONLY <1>1, WellTyped(b), ~Panics(b), BuilderFacts
<1>4. Applied(made.items) = N
  <2>1. Applied(Templates(N)) = N
    BY ONLY <1>3, TemplatesApplied
  <2> QED BY ONLY <1>2, <2>1
<1>5. PICK X : X = StatementsOver(STRING, STRING)
  OBVIOUS
<1>6. N \in Seq(X) /\ Applied(made.items) \in Seq(X)
  BY ONLY <1>3, <1>4, <1>5
<1>7. PICK Y : Y = {made.items[i] : i \in DOMAIN made.items}
  OBVIOUS
<1>8. PICK c, q : c = OfKind(made, "check") /\ q = OfKind(made, "policy")
  OBVIOUS
<1>9. /\ c \in Seq(Y) /\ Applied(c) = Chosen(N, "check")
      /\ q \in Seq(Y) /\ Applied(q) = Chosen(N, "policy")
  <2>1. \A kind : /\ OfKind(made, kind) \in Seq({made.items[i] : i \in DOMAIN made.items})
                 /\ Applied(OfKind(made, kind)) = Chosen(Applied(made.items), kind)
    BY ONLY <1>6, AppliedOfKind
  <2> QED BY ONLY <1>4, <1>7, <1>8, <2>1
<1>10. Applied(c \o q) = Applied(c) \o Applied(q)
  BY ONLY <1>9, AppliedOfConcat
<1>11. PICK A : A = Chosen(N, "check") \o Chosen(N, "policy")
  OBVIOUS
<1>12. A \in Seq(X)
  <2>1. \A kind : Chosen(N, kind) \in Seq(X)
    BY ONLY <1>6, ChosenFacts
  <2>2. PICK d, e : d = Chosen(N, "check") /\ e = Chosen(N, "policy")
    OBVIOUS
  <2>3. d \in Seq(X) /\ e \in Seq(X)
    BY ONLY <2>1, <2>2
  <2>4. d \o e \in Seq(X)
    BY ONLY <2>3, JoinFacts
  <2> QED BY ONLY <1>11, <2>2, <2>4
<1>13. world.items = c \o q /\ world.scopes = << >>
  <2>1. made = [Empty EXCEPT !.items = made.items, !.scopes = made.scopes]
    BY ONLY made = restored(p) DEF restored, Empty
  <2> QED BY ONLY <1>2, <1>8, <2>1, world = WorldOf(made) DEF WorldOf, Empty
<1>14. Applied(world.items) = A
  BY ONLY <1>9, <1>10, <1>11, <1>13
<1>15. WellTyped(world)
  <2>1. << >> \in Seq(ScopesOver(STRING))
    OBVIOUS
  <2> QED BY ONLY <1>5, <1>12, <1>13, <1>14, <2>1 DEF WellTyped
<1>16. InOrder(world) = Sorted(A)
  <2>1. Applied(world.items) \in Seq(X)
    BY ONLY <1>12, <1>14
  <2>2. InOrder(world) = Sorted(Applied(world.items))
    BY ONLY <2>1, BuilderStatements
  <2> QED BY ONLY <1>14, <2>2
<1>17. PICK B : B = Applied(b.items)
  OBVIOUS
<1>18. B \in Seq(X)
  BY ONLY <1>5, <1>17, WellTyped(b) DEF WellTyped
<1>19. N = Sorted(B) /\ Policies(b) = Chosen(B, "policy")
  BY ONLY <1>1, <1>17, <1>18, BuilderStatements
<1>20. Applied(OfKind(b, "check")) = Chosen(B, "check")
  BY ONLY <1>17, <1>18, AppliedOfKind
<1>21. A = Chosen(B, "check") \o Chosen(B, "policy")
  <2>1. Chosen(Sorted(B), "check") = Chosen(B, "check") /\ Chosen(Sorted(B), "policy") = Chosen(B, "policy")
    BY ONLY <1>18, SortedKinds
  <2> QED BY ONLY <1>11, <1>19, <2>1
<1>22. Sorted(A) = A
  BY ONLY <1>18, <1>21, SortedQueries
<1> QED BY ONLY <1>1, <1>2, <1>15, <1>16, <1>19, <1>20, <1>21, <1>22

\* A table that begins with another one reads its indices.
Begins(T, start) == DOMAIN start \subseteq DOMAIN T /\ \A i \in DOMAIN start : T[i] = start[i]

LEMMA BeginsFacts ==
    ASSUME NEW A, NEW s \in Seq(A), NEW t \in Seq(A)
    PROVE  Begins(s \o t, s)
BY DEF Begins

LEMMA LongerReadBack ==
    ASSUME NEW W, NEW K, NEW A, NEW B, NEW S \in Seq(StatementsOver(W, K)),
           NEW T0 \in Seq(A), NEW K0 \in Seq(B), NEW T, Begins(T, T0), NEW KT, Begins(KT, K0),
           NamesOf(S) \subseteq Range(T0), KeyNamesOf(S) \subseteq Range(K0)
    PROVE  /\ Suits(NamesOf(S), IndexIn(T0), DOMAIN T)
           /\ \A k \in KeyNamesOf(S) : IndexIn(K0)[k] \in DOMAIN KT
           /\ TranslateAll(S, IndexIn(T0), IndexIn(K0)) \in Seq(StatementsOver(DOMAIN T, DOMAIN KT))
           /\ TranslateAll(TranslateAll(S, IndexIn(T0), IndexIn(K0)), T, KT) = S
<1>1. /\ Suits(NamesOf(S), IndexIn(T0), DOMAIN T0)
      /\ \A w \in NamesOf(S) : IndexIn(T0)[w] \in DOMAIN T0 /\ T0[IndexIn(T0)[w]] = w
  BY IndexSuits
<1>2. \A k \in KeyNamesOf(S) : IndexIn(K0)[k] \in DOMAIN K0 /\ K0[IndexIn(K0)[k]] = k
  BY IndexSuits
<1>3. /\ Suits(NamesOf(S), IndexIn(T0), DOMAIN T)
      /\ \A w \in NamesOf(S) : T[IndexIn(T0)[w]] = w
  BY ONLY <1>1, Begins(T, T0) DEF Suits, Begins
<1>4. \A k \in KeyNamesOf(S) : IndexIn(K0)[k] \in DOMAIN KT /\ KT[IndexIn(K0)[k]] = k
  BY ONLY <1>2, Begins(KT, K0) DEF Begins
<1>5. TranslateAll(S, IndexIn(T0), IndexIn(K0)) \in Seq(StatementsOver(DOMAIN T, DOMAIN KT))
  BY ONLY <1>3, <1>4, S \in Seq(StatementsOver(W, K)), TranslateAllType
<1>6. PICK h, h2 : h = [w \in NamesOf(S) |-> w] /\ h2 = [k \in KeyNamesOf(S) |-> k]
  OBVIOUS
<1>7. Composed(NamesOf(S), IndexIn(T0), T, h) /\ \A w \in NamesOf(S) : h[w] = w
  BY ONLY <1>3, <1>6 DEF Composed
<1>8. Composed(KeyNamesOf(S), IndexIn(K0), KT, h2) /\ \A k \in KeyNamesOf(S) : h2[k] = k
  BY ONLY <1>4, <1>6 DEF Composed
<1>9. TranslateAll(TranslateAll(S, IndexIn(T0), IndexIn(K0)), T, KT) = TranslateAll(S, h, h2)
  BY ONLY <1>3, <1>7, <1>8, S \in Seq(StatementsOver(W, K)), TranslateComposed
<1>10. TranslateAll(S, h, h2) = S
  BY ONLY <1>7, <1>8, S \in Seq(StatementsOver(W, K)), TranslateAllSame
<1> QED BY ONLY <1>3, <1>4, <1>5, <1>9, <1>10

LEMMA ConcatenationSent ==
    ASSUME NEW X, NEW s \in Seq(X), NEW t \in Seq(X)
    PROVE  SentAll(s \o t) = SentAll(s) \o SentAll(t)
<1>1. /\ Len(s) \in Nat /\ Len(t) \in Nat /\ DOMAIN s = 1..Len(s) /\ DOMAIN t = 1..Len(t)
  OBVIOUS
<1>2. /\ SentAll(s) = [i \in 1..Len(s) |-> Encoded(s[i])]
      /\ SentAll(t) = [i \in 1..Len(t) |-> Encoded(t[i])]
  BY <1>1 DEF SentAll
<1>3. Len(SentAll(s)) = Len(s) /\ Len(SentAll(t)) = Len(t)
  BY <1>1, <1>2
<1>4. SentAll(s) \o SentAll(t) =
         [i \in 1..Len(s) + Len(t) |-> IF i <= Len(s) THEN SentAll(s)[i] ELSE SentAll(t)[i - Len(s)]]
  BY <1>1, <1>2, <1>3
<1>5. SentAll(s \o t) = [i \in 1..Len(s) + Len(t) |-> Encoded((s \o t)[i])]
  BY <1>1 DEF SentAll
<1>6. ASSUME NEW i \in 1..Len(s) + Len(t)
      PROVE  Encoded((s \o t)[i]) = IF i <= Len(s) THEN SentAll(s)[i] ELSE SentAll(t)[i - Len(s)]
  <2>1. CASE i <= Len(s)
    BY <1>1, <1>2, <2>1
  <2>2. CASE ~(i <= Len(s))
    <3>1. (s \o t)[i] = t[i - Len(s)] /\ i - Len(s) \in 1..Len(t)
      BY <1>1, <2>2
    <3> QED BY <1>2, <2>2, <3>1
  <2> QED BY <2>1, <2>2
<1> QED BY ONLY <1>4, <1>5, <1>6

LEMMA ConcatenationTranslated ==
    ASSUME NEW X, NEW s \in Seq(X), NEW t \in Seq(X), NEW f, NEW g
    PROVE  TranslateAll(s \o t, f, g) = TranslateAll(s, f, g) \o TranslateAll(t, f, g)
<1>1. /\ Len(s) \in Nat /\ Len(t) \in Nat /\ DOMAIN s = 1..Len(s) /\ DOMAIN t = 1..Len(t)
  OBVIOUS
<1>2. /\ TranslateAll(s, f, g) = [i \in 1..Len(s) |-> TranslateStatement(s[i], f, g)]
      /\ TranslateAll(t, f, g) = [i \in 1..Len(t) |-> TranslateStatement(t[i], f, g)]
  BY <1>1 DEF TranslateAll
<1>3. PICK a, c : a = TranslateAll(s, f, g) /\ c = TranslateAll(t, f, g)
  OBVIOUS
<1>4. /\ a = [i \in 1..Len(s) |-> TranslateStatement(s[i], f, g)] /\ Len(a) = Len(s)
      /\ c = [i \in 1..Len(t) |-> TranslateStatement(t[i], f, g)] /\ Len(c) = Len(t)
  BY <1>1, <1>2, <1>3
<1>5. a \o c = [i \in 1..Len(s) + Len(t) |-> IF i <= Len(s) THEN a[i] ELSE c[i - Len(s)]]
  BY <1>1, <1>4
<1>6. TranslateAll(s \o t, f, g) = [i \in 1..Len(s) + Len(t) |-> TranslateStatement((s \o t)[i], f, g)]
  BY <1>1 DEF TranslateAll
<1>7. ASSUME NEW i \in 1..Len(s) + Len(t)
      PROVE  TranslateStatement((s \o t)[i], f, g) = IF i <= Len(s) THEN a[i] ELSE c[i - Len(s)]
  <2>1. CASE i <= Len(s)
    BY <1>1, <1>4, <2>1
  <2>2. CASE ~(i <= Len(s))
    <3>1. (s \o t)[i] = t[i - Len(s)] /\ i - Len(s) \in 1..Len(t)
      BY <1>1, <2>2
    <3> QED BY <1>4, <2>2, <3>1
  <2> QED BY <2>1, <2>2
<1> QED BY ONLY <1>3, <1>5, <1>6, <1>7

LEMMA SnapshotIs ==
    ASSUME NEW b, NEW P, P = Policies(b), NEW T0, T0 = Once(AllWords(P)),
           NEW K0, K0 = Once(AllKeys(P, << >>)), NEW made, made = build(b, T0, K0),
           NEW Q2, Q2 = TranslateAll(P, IndexIn(T0), IndexIn(K0))
    PROVE  snapshot(b) = BlockOf(T0 \o made.symbols, K0 \o made.public_keys,
                                 SentAll(made.statements) \o SentAll(Q2),
                                 EachToProto(made.scopes), made.version)
<1>1. made = BlockOf(made.symbols, made.public_keys, made.statements, made.scopes, made.version)
  BY ONLY made = build(b, T0, K0), BuildIs
<1>2. PICK sy, ks, Q1, l, v : /\ sy = made.symbols /\ ks = made.public_keys
                              /\ Q1 = made.statements /\ l = made.scopes /\ v = made.version
  OBVIOUS
<1>3. PICK sent : sent = token_block_to_proto_block(made)
  OBVIOUS
<1>4. sent = BlockOf(sy, ks, SentAll(Q1), EachToProto(l), v)
  <2>1. made = BlockOf(sy, ks, Q1, l, v)
    BY ONLY <1>1, <1>2
  <2>2. token_block_to_proto_block(BlockOf(sy, ks, Q1, l, v)) =
           BlockOf(sy, ks, SentAll(Q1), EachToProto(l), v)
    BY ONLY SentBlockIs
  <2> QED BY ONLY <1>3, <2>1, <2>2
<1>5. PICK X : X = [i \in DOMAIN P |->
                       Encoded(TranslateStatement(P[i], IndexIn(T0), IndexIn(K0)))]
  OBVIOUS
<1>6. X = SentAll(Q2)
  <2>1. /\ DOMAIN Q2 = DOMAIN P
        /\ \A i \in DOMAIN P : Q2[i] = TranslateStatement(P[i], IndexIn(T0), IndexIn(K0))
    BY DEF TranslateAll
  <2> QED BY ONLY <1>5, <2>1 DEF SentAll
<1>7. snapshot(b) = [sent EXCEPT !.symbols = T0 \o @, !.public_keys = K0 \o @,
                                 !.statements = @ \o X]
  BY ONLY <1>3, <1>5, P = Policies(b), T0 = Once(AllWords(P)), K0 = Once(AllKeys(P, << >>)),
          made = build(b, T0, K0) DEF snapshot
<1>8. [sent EXCEPT !.symbols = T0 \o @, !.public_keys = K0 \o @, !.statements = @ \o X] =
         BlockOf(T0 \o sy, K0 \o ks, SentAll(Q1) \o X, EachToProto(l), v)
  <2>1. PICK a1, a2, a3 : a1 = T0 \o sy /\ a2 = K0 \o ks /\ a3 = SentAll(Q1) \o X
    OBVIOUS
  <2>2. /\ sent.symbols = sy /\ sent.public_keys = ks /\ sent.statements = SentAll(Q1)
    BY ONLY <1>4 DEF BlockOf
  <2>3. [sent EXCEPT !.symbols = T0 \o @, !.public_keys = K0 \o @, !.statements = @ \o X] =
           [sent EXCEPT !.symbols = a1, !.public_keys = a2, !.statements = a3]
    BY ONLY <2>1, <2>2, <1>4 DEF BlockOf
  <2>4. [sent EXCEPT !.symbols = a1, !.public_keys = a2, !.statements = a3] =
           BlockOf(a1, a2, a3, EachToProto(l), v)
    <3>1. PICK x, y : x = SentAll(Q1) /\ y = EachToProto(l)
      OBVIOUS
    <3>2. PICK x1 : x1 = [sent EXCEPT !.symbols = a1]
      OBVIOUS
    <3>3. PICK x2 : x2 = [x1 EXCEPT !.public_keys = a2]
      OBVIOUS
    <3>4. sent = BlockOf(sy, ks, x, y, v)
      BY ONLY <1>4, <3>1
    <3>5. x1 = BlockOf(a1, ks, x, y, v)
      BY ONLY <3>2, <3>4 DEF BlockOf
    <3>6. x2 = BlockOf(a1, a2, x, y, v)
      BY ONLY <3>3, <3>5 DEF BlockOf
    <3>7. [x2 EXCEPT !.statements = a3] = BlockOf(a1, a2, a3, y, v)
      BY ONLY <3>6 DEF BlockOf
    <3>8. [sent EXCEPT !.symbols = a1, !.public_keys = a2, !.statements = a3] =
             [x2 EXCEPT !.statements = a3]
      BY ONLY <3>2, <3>3
    <3> QED BY ONLY <3>1, <3>7, <3>8
  <2> QED BY ONLY <2>1, <2>3, <2>4
<1> QED BY ONLY <1>2, <1>6, <1>7, <1>8

\* The parts of a snapshot: the statements of the block, then the policies, in
\* tables that begin with those of the policies.
LEMMA SnapshotParts ==
    ASSUME NEW b, WellTyped(b), ~Panics(b),
           NEW P, P = Policies(b), NEW T0, T0 = Once(AllWords(P)),
           NEW K0, K0 = Once(AllKeys(P, << >>)), NEW made, made = build(b, T0, K0),
           NEW Q2, Q2 = TranslateAll(P, IndexIn(T0), IndexIn(K0)),
           NEW T, T = BlockNames(b, T0), NEW KT, KT = BlockKeys(b, K0)
    PROVE  /\ Q2 \in Seq(StatementsOver(DOMAIN T, DOMAIN KT)) /\ Plainly(Q2)
           /\ AllEven(Q2) <=> AllEven(P)
           /\ \A s \in Range(Q2) : s[1] = "policy"
           /\ T0 \in Seq(STRING) /\ K0 \in Seq(STRING)
           /\ Built(b, T0, K0, T, KT, made)
           /\ TranslateAll(Q2, T, KT) = P
<1>1. /\ P \in Seq(StatementsOver(STRING, STRING)) /\ Plainly(P)
      /\ \A s \in Range(P) : s[1] = "policy"
  BY ONLY P = Policies(b), WellTyped(b), ~Panics(b), BuilderFacts
<1>2. P \in Seq(StatementsOver(STRING, STRING)) /\ << >> \in Seq(ScopesOver(STRING))
  BY <1>1
<1>3. AllWords(P) \in Seq(STRING) /\ Range(AllWords(P)) = NamesOf(P)
  BY ONLY <1>2, NamesOfFacts
<1>4. AllKeys(P, << >>) \in Seq(STRING) /\ Range(AllKeys(P, << >>)) = KeyNamesOf(P)
  BY ONLY <1>2, ScopeKeysOfNone
<1>5. T0 \in Seq(STRING) /\ Range(T0) = NamesOf(P)
  BY ONLY <1>3, T0 = Once(AllWords(P)), OnceFacts
<1>6. K0 \in Seq(STRING) /\ Range(K0) = KeyNamesOf(P)
  BY ONLY <1>4, K0 = Once(AllKeys(P, << >>)), OnceFacts
<1>7. T0 \in Seq(STRING) /\ K0 \in Seq(STRING)
  BY ONLY <1>5, <1>6
<1>8. /\ Built(b, T0, K0, T, KT, made)
      /\ made.symbols \in Seq(STRING) /\ made.public_keys \in Seq(STRING)
  BY ONLY <1>7, WellTyped(b), ~Panics(b), T = BlockNames(b, T0), KT = BlockKeys(b, K0),
          made = build(b, T0, K0), BuildFacts
<1>9. Begins(T, T0) /\ Begins(KT, K0)
  <2>1. T = T0 \o made.symbols /\ KT = K0 \o made.public_keys
    BY ONLY <1>8 DEF Built
  <2>2. Begins(T0 \o made.symbols, T0)
    BY ONLY <1>7, <1>8, BeginsFacts
  <2>3. Begins(K0 \o made.public_keys, K0)
    BY ONLY <1>7, <1>8, BeginsFacts
  <2> QED BY ONLY <2>1, <2>2, <2>3
<1>10. NamesOf(P) \subseteq Range(T0) /\ KeyNamesOf(P) \subseteq Range(K0)
  BY ONLY <1>5, <1>6
<1>11. /\ Suits(NamesOf(P), IndexIn(T0), DOMAIN T)
       /\ \A k \in KeyNamesOf(P) : IndexIn(K0)[k] \in DOMAIN KT
       /\ TranslateAll(P, IndexIn(T0), IndexIn(K0)) \in Seq(StatementsOver(DOMAIN T, DOMAIN KT))
  BY ONLY <1>2, <1>7, <1>9, <1>10, LongerReadBack
<1>12. TranslateAll(TranslateAll(P, IndexIn(T0), IndexIn(K0)), T, KT) = P
  BY ONLY <1>2, <1>7, <1>9, <1>10, LongerReadBack
<1>13. /\ Plainly(TranslateAll(P, IndexIn(T0), IndexIn(K0)))
       /\ AllEven(TranslateAll(P, IndexIn(T0), IndexIn(K0))) <=> AllEven(P)
  BY ONLY <1>1, <1>11, AllStayPlain
<1>14. \A s \in Range(Q2) : s[1] = "policy"
  <2>1. \A i \in DOMAIN P : P[i][1] = "policy"
    BY ONLY <1>1 DEF Range
  <2>2. \A s, f, g : s[1] = "policy" => TranslateStatement(s, f, g)[1] = "policy"
    BY TranslateStatementIs
  <2> QED BY <2>1, <2>2 DEF TranslateAll, Range
<1> QED BY ONLY <1>7, <1>8, <1>11, <1>12, <1>13, <1>14,
                Q2 = TranslateAll(P, IndexIn(T0), IndexIn(K0))

\* A snapshot is read when the values in it are even, and then it holds the same
\* statements and scopes.
LEMMA SnapshotFacts ==
    ASSUME NEW b, WellTyped(b), ~Panics(b), NEW p, p = snapshot(b)
    PROVE  /\ RestorableSnapshot(p) <=> AllEven(InOrder(b))
           /\ RestorableSnapshot(p) => InOrder(restored(p)) = InOrder(b) /\ restored(p).scopes = b.scopes
<1>1. PICK P, B : P = Policies(b) /\ B = BlockStatements(b)
  OBVIOUS
<1>2. PICK T0, K0 : T0 = Once(AllWords(P)) /\ K0 = Once(AllKeys(P, << >>))
  OBVIOUS
<1>3. PICK made : made = build(b, T0, K0)
  OBVIOUS
<1>4. PICK T, KT : T = BlockNames(b, T0) /\ KT = BlockKeys(b, K0)
  OBVIOUS
<1>5. PICK Q1, Q2 : Q1 = made.statements /\ Q2 = TranslateAll(P, IndexIn(T0), IndexIn(K0))
  OBVIOUS
<1>6. PICK q, v : q = made.scopes /\ v = made.version
  OBVIOUS
<1>7. PICK Q : Q = Q1 \o Q2
  OBVIOUS
<1>8. /\ Q2 \in Seq(StatementsOver(DOMAIN T, DOMAIN KT)) /\ Plainly(Q2)
      /\ AllEven(Q2) <=> AllEven(P)
      /\ \A s \in Range(Q2) : s[1] = "policy"
      /\ T0 \in Seq(STRING) /\ K0 \in Seq(STRING)
      /\ Built(b, T0, K0, T, KT, made)
      /\ TranslateAll(Q2, T, KT) = P
  BY ONLY <1>1, <1>2, <1>3, <1>4, <1>5, WellTyped(b), ~Panics(b), SnapshotParts
<1>9. /\ T \in Seq(STRING) /\ KT \in Seq(STRING)
      /\ NamesOf(B) \subseteq Range(T) /\ KeyNamesOf(B) \subseteq Range(KT)
      /\ ScopeKeyNames(b.scopes) \subseteq Range(KT)
      /\ Q1 \in Seq(StatementsOver(DOMAIN T, DOMAIN KT)) /\ q \in Seq(ScopesOver(DOMAIN KT))
      /\ Plainly(Q1) /\ NoParameters(q)
      /\ AllEven(Q1) <=> AllEven(B)
  <2>1. /\ T \in Seq(STRING) /\ KT \in Seq(STRING)
        /\ NamesOf(BlockStatements(b)) \subseteq Range(T)
        /\ KeyNamesOf(BlockStatements(b)) \subseteq Range(KT)
        /\ ScopeKeyNames(b.scopes) \subseteq Range(KT)
        /\ made.statements \in Seq(StatementsOver(DOMAIN T, DOMAIN KT))
        /\ made.scopes \in Seq(ScopesOver(DOMAIN KT))
        /\ Plainly(made.statements) /\ NoParameters(made.scopes)
        /\ AllEven(made.statements) <=> AllEven(BlockStatements(b))
    BY ONLY <1>3, <1>4, <1>8, WellTyped(b), ~Panics(b), BuildFacts
  <2> QED BY ONLY <1>1, <1>5, <1>6, <2>1
<1>10. /\ T = T0 \o made.symbols /\ KT = K0 \o made.public_keys
       /\ Q1 = TranslateAll(B, IndexIn(T), IndexIn(KT))
       /\ q = TranslateScopes(b.scopes, IndexIn(KT))
       /\ v = version(get_schema_version(Range(Q1), q))
  BY ONLY <1>1, <1>5, <1>6, <1>8 DEF Built
<1>11. /\ B \in Seq(StatementsOver(STRING, STRING)) /\ P \in Seq(StatementsOver(STRING, STRING))
       /\ InOrder(b) = B \o P /\ b.scopes \in Seq(ScopesOver(STRING))
  BY ONLY <1>1, WellTyped(b), ~Panics(b), BuilderFacts
<1>12. Q \in Seq(StatementsOver(DOMAIN T, DOMAIN KT)) /\ Range(Q) = Range(Q1) \cup Range(Q2)
  BY ONLY <1>7, <1>8, <1>9, JoinFacts
<1>13. Plainly(Q) /\ (AllEven(Q) <=> AllEven(InOrder(b)))
  <2>1. Range(B \o P) = Range(B) \cup Range(P)
    BY ONLY <1>11, JoinFacts
  <2> QED BY ONLY <1>8, <1>9, <1>11, <1>12, <2>1 DEF Plainly, AllEven
<1>14. Q \in Seq(StatementsOver(DOMAIN T, DOMAIN KT)) /\ Plainly(Q)
  BY ONLY <1>12, <1>13
<1>15. p = BlockOf(T, KT, SentAll(Q), EachToProto(q), v)
  <2>1. snapshot(b) = BlockOf(T0 \o made.symbols, K0 \o made.public_keys,
                              SentAll(made.statements) \o SentAll(Q2), EachToProto(made.scopes),
                              made.version)
    BY ONLY <1>1, <1>2, <1>3, <1>5, SnapshotIs
  <2>2. SentAll(Q1 \o Q2) = SentAll(Q1) \o SentAll(Q2)
    BY ONLY <1>8, <1>9, ConcatenationSent
  <2> QED BY ONLY <1>5, <1>6, <1>7, <1>10, <2>1, <2>2, p = snapshot(b)
<1>16. ReadAll(SentAll(Q)) = Q
  BY ONLY <1>14, AllOnWire
<1>17. EachFromProto(EachToProto(q)) = q
  BY ONLY <1>9, ScopesOnWire
<1>18. PICK N : N = TranslateAll(Q, T, KT)
  OBVIOUS
<1>19. /\ restored(p).items = [i \in DOMAIN N |-> Template(N[i], "code")]
       /\ restored(p).scopes = TranslateScopes(q, KT)
  BY ONLY <1>15, <1>16, <1>17, <1>18, RestoredIs
<1>20. /\ v \in {3, 4, 6} /\ check_compatibility(get_schema_version(Range(Q1), q), v)
       /\ \A s \in Range(Q1) : v < 4 => NoScopes(s) /\ (s[1] = "check" => s[2] = "check if")
       /\ \A s \in Range(Q1) : v < 6 => (s[1] = "check" => s[2] # "reject if")
  <2>1. Range(Q1) \subseteq StatementsOver(DOMAIN T, DOMAIN KT)
    BY ONLY <1>9 DEF Range
  <2>2. v \in {3, 4, 6}
    BY ONLY <1>10, <2>1, VersionCovers
  <2>3. v \in Int /\ v >= version(get_schema_version(Range(Q1), q))
    BY ONLY <1>10, <2>2
  <2>4. /\ check_compatibility(get_schema_version(Range(Q1), q), v)
        /\ \A s \in Range(Q1) :
              /\ v < DATALOG_3_1 => NoScopes(s)
              /\ s[1] = "check" => /\ v < DATALOG_3_1 => s[2] = "check if"
                                   /\ v < DATALOG_3_3 => s[2] # "reject if"
    BY ONLY <2>1, <2>3, VersionAccepts
  <2> QED BY ONLY <2>2, <2>4 DEF DATALOG_3_1, DATALOG_3_3
<1>21. (\A s \in Range(SentAll(Q)) :
            IF s[1] = "policy" THEN DecodableStatement(s, 6)
            ELSE DecodableStatement(s, v) /\ (s[1] = "check" /\ v = 3 => s[2] = << >>))
           <=> AllEven(InOrder(b))
  <2>1. \A s \in Range(Q) : s[1] # "policy" /\ v < 4 => NoScopes(s)
    BY ONLY <1>8, <1>12, <1>20
  <2>2. (\A s \in Range(SentAll(Q)) : DecodableStatement(s, IF s[1] = "policy" THEN 6 ELSE v))
           <=> AllEven(Q)
    BY ONLY <1>14, <2>1, AllDecodable
  <2>3. ASSUME NEW x \in Range(SentAll(Q)), x[1] = "check", v = 3
        PROVE  x[2] = << >>
    <3>1. PICK s \in Range(Q) : x = Encoded(s)
      BY <2>3 DEF SentAll, Range
    <3>2. s \in StatementsOver(DOMAIN T, DOMAIN KT) /\ NoScopeParameters(s)
      BY ONLY <1>14, <3>1, MappedFacts DEF Plainly
    <3>3. Encoded(s)[1] = s[1]
      BY ONLY <3>2, StatementOnWire
    <3>4. s \in Range(Q1)
      BY <1>8, <1>12, <2>3, <3>1, <3>3
    <3>5. s[1] = "check" /\ s[2] = "check if"
      <4>1. s[1] = "check" /\ v < 4
        BY <2>3, <3>1, <3>3
      <4>2. \A y \in Range(Q1) : v < 4 => (y[1] = "check" => y[2] = "check if")
        BY ONLY Zenon, <1>20
      <4> QED BY ONLY <3>4, <4>1, <4>2
    <3>6. DecodableCheck(Encoded(s), 3)
      <4>1. DecodableCheck(Encoded(s), 3) <=>
               (s[1] = "check" => /\ 3 < DATALOG_3_1 => s[2] = "check if"
                                  /\ 3 < DATALOG_3_3 => s[2] # "reject if")
        BY ONLY <3>2, StatementOnWire
      <4> QED BY ONLY <3>5, <4>1
    <3> QED BY <2>3, <3>1, <3>6 DEF DecodableCheck, DATALOG_3_1
  <2>4. \A s : DecodableStatement(s, IF s[1] = "policy" THEN 6 ELSE v) <=>
                  IF s[1] = "policy" THEN DecodableStatement(s, 6) ELSE DecodableStatement(s, v)
    OBVIOUS
  <2> QED BY ONLY <1>13, <2>2, <2>3, <2>4
<1>22. ReadableAll(Q, q, T, KT)
  <2>1. Q \in Seq(StatementsOver(DOMAIN T, DOMAIN KT)) /\ q \in Seq(ScopesOver(DOMAIN KT))
    BY ONLY <1>9, <1>14
  <2>2. /\ Range(AllWords(Q)) = NamesOf(Q) /\ NamesOf(Q) \subseteq DOMAIN T
        /\ AllKeys(Q, q) \in Seq(DOMAIN KT)
    BY ONLY <2>1, NamesOfFacts
  <2>3. Range(AllKeys(Q, q)) \subseteq DOMAIN KT
    BY ONLY <2>2 DEF Range
  <2> QED BY ONLY <2>2, <2>3 DEF ReadableAll
<1>23. N = InOrder(b)
  <2>1. TranslateAll(Q1 \o Q2, T, KT) = TranslateAll(Q1, T, KT) \o TranslateAll(Q2, T, KT)
    <3>1. PICK X : X = StatementsOver(DOMAIN T, DOMAIN KT)
      OBVIOUS
    <3>2. Q1 \in Seq(X) /\ Q2 \in Seq(X)
      BY ONLY <1>8, <1>9, <3>1
    <3> QED BY ONLY <3>2, ConcatenationTranslated
  <2>2. B \in Seq(StatementsOver(STRING, STRING)) /\ T \in Seq(STRING) /\ KT \in Seq(STRING)
    BY ONLY <1>9, <1>11
  <2>3. NamesOf(B) \subseteq Range(T) /\ KeyNamesOf(B) \subseteq Range(KT)
    BY ONLY <1>9
  <2>4. TranslateAll(TranslateAll(B, IndexIn(T), IndexIn(KT)), T, KT) = B
    BY ONLY <2>2, <2>3, ReadBack
  <2> QED BY ONLY <1>7, <1>8, <1>10, <1>11, <1>18, <2>1, <2>4
<1>24. restored(p).scopes = b.scopes
  <2>1. b.scopes \in Seq(ScopesOver(STRING)) /\ KT \in Seq(STRING)
    BY ONLY <1>9, <1>11
  <2>2. ScopeKeyNames(b.scopes) \subseteq Range(KT)
    BY ONLY <1>9
  <2>3. TranslateScopes(TranslateScopes(b.scopes, IndexIn(KT)), KT) = b.scopes
    BY ONLY <2>1, <2>2, ScopesReadBack
  <2> QED BY ONLY <1>10, <1>19, <2>3
<1>25. InOrder(restored(p)) = InOrder(b)
  <2>1. restored(p).items = Templates(InOrder(b))
    BY ONLY <1>19, <1>23 DEF Templates
  <2> QED BY ONLY <2>1, WellTyped(b), ~Panics(b), OrderKept
<1>26. {s \in Range(Q) : s[1] # "policy"} = Range(Q1)
  <2>1. ASSUME NEW s \in Range(Q1) PROVE s[1] # "policy"
    <3>1. PICK i \in DOMAIN B : s = TranslateStatement(B[i], IndexIn(T), IndexIn(KT))
      BY <1>10 DEF TranslateAll, Range
    <3>2. B[i][1] \in {"fact", "rule", "check"}
      <4>1. \A x \in Range(B) : x[1] \in {"fact", "rule", "check"}
        BY ONLY <1>1, WellTyped(b), ~Panics(b), BuilderFacts
      <4> QED BY <4>1 DEF Range
    <3> QED BY <3>1, <3>2, TranslateStatementIs
  <2> QED BY <1>8, <1>12, <2>1
<1>27. RestorableSnapshot(p) <=>
           /\ v \in 3..6
           /\ \A s \in Range(SentAll(Q)) :
                 IF s[1] = "policy" THEN DecodableStatement(s, 6)
                 ELSE DecodableStatement(s, v) /\ (s[1] = "check" /\ v = 3 => s[2] = << >>)
           /\ check_compatibility(get_schema_version(Range(Q1), q), v)
           /\ ReadableAll(Q, q, T, KT)
  <2>1. PICK A : A = {s \in Range(Q) : s[1] # "policy"}
    OBVIOUS
  <2>2. RestorableSnapshot(p) <=>
            /\ v \in 3..6
            /\ \A s \in Range(SentAll(Q)) :
                  IF s[1] = "policy" THEN DecodableStatement(s, 6)
                  ELSE DecodableStatement(s, v) /\ (s[1] = "check" /\ v = 3 => s[2] = << >>)
            /\ check_compatibility(get_schema_version(A, q), v)
            /\ ReadableAll(Q, q, T, KT)
    BY ONLY <1>15, <1>16, <1>17, <2>1, SnapshotRestorableIs
  <2> QED BY ONLY <1>26, <2>1, <2>2
<1>28. v \in 3..6
  <2>1. v \in {3, 4, 6}
    BY ONLY Zenon, <1>20
  <2> QED BY ONLY <2>1
<1> QED BY ONLY <1>20, <1>21, <1>22, <1>24, <1>25, <1>27, <1>28

-----------------------------------------------------------------------------
(* The way of a block.                                                         *)

Least == IF target = "third_party" THEN DATALOG_3_2 ELSE MIN_SCHEMA_VERSION
Made == build(builder, tables[1], tables[2])

\* The inductive invariant: what there is at every stage was made of the builder,
\* which has no parameter left and is not touched any more.
IsTyped ==
    /\ target \in {"block", "third_party", "authorizer"}
    /\ tables \in Seq(STRING) \X Seq(STRING)
    /\ stage \in {"building", "built", "sent", "received", "loaded", "saved", "snapshot"} =>
          WellTyped(builder)
IsSent ==
    /\ stage \in {"built", "sent", "received"} =>
          ~Panics(builder) /\ target # "authorizer" /\ block = Declared(Made, Least)
    /\ stage = "sent" => proto = token_block_to_proto_block(block)
    /\ stage = "received" => AllEven(BlockStatements(builder))
    /\ (stage = "unreadable" /\ target # "authorizer") => ~AllEven(BlockStatements(builder))
IsLoaded ==
    /\ LoadKeepsMeaning
    /\ stage \in {"loaded", "reloaded"} => Usable(loaded)
    /\ stage = "loaded" => Knows(loaded, LoadedSymbols)
IsSaved ==
    stage \in {"saved", "snapshot"} =>
        /\ ~Panics(builder) /\ target = "authorizer"
        /\ proto = IF stage = "saved" THEN saved(builder) ELSE snapshot(builder)
PathInv == IsTyped /\ IsSent /\ IsLoaded /\ IsSaved

LEMMA StartOfPath ==
    ASSUME Start PROVE PathInv
<1>1. stage = "building"
  BY DEF Start
<1>2. WellTyped(builder)
  <2>1. builder.items = << >> /\ builder.scopes = << >>
    BY DEF Start, Empty
  <2>2. Applied(<< >>) = << >>
    BY DEF Applied
  <2>3. << >> \in Seq(StatementsOver(STRING, STRING)) /\ << >> \in Seq(ScopesOver(STRING))
    OBVIOUS
  <2> QED BY ONLY <2>1, <2>2, <2>3 DEF WellTyped
<1>3. target \in {"block", "third_party", "authorizer"} /\ tables \in Seq(STRING) \X Seq(STRING)
  <2>1. <<<< >>, << >>>> \in Seq(STRING) \X Seq(STRING)
    <3>1. << >> \in Seq(STRING)
      OBVIOUS
    <3>2. \A X, x, y : x \in X /\ y \in X => <<x, y>> \in X \X X
      OBVIOUS
    <3> QED BY ONLY <3>1, <3>2
  <2> QED BY <2>1, TokenAssumption DEF Start
<1> QED BY ONLY <1>1, <1>2, <1>3 DEF PathInv, IsTyped, IsSent, IsLoaded, IsSaved, LoadKeepsMeaning

LEMMA TablesTyped ==
    ASSUME IsTyped PROVE tables[1] \in Seq(STRING) /\ tables[2] \in Seq(STRING)
BY DEF IsTyped

\* What is known of a block that was built.
LEMMA BuiltFacts ==
    ASSUME IsTyped, IsSent, stage \in {"built", "sent", "received"}
    PROVE  /\ SameParts(Made, block) /\ block.version >= Made.version
           /\ WellSent(builder, Least, block)
           /\ Least \in {3, 5} /\ (target = "third_party" => Least = 5)
<1>1. tables[1] \in Seq(STRING) /\ tables[2] \in Seq(STRING)
  BY TablesTyped
<1>2. WellTyped(builder) /\ ~Panics(builder) /\ block = Declared(Made, Least)
  BY DEF IsTyped, IsSent
<1>3. Least \in {3, 5} /\ (target = "third_party" => Least = 5)
  BY DEF Least, DATALOG_3_2, MIN_SCHEMA_VERSION
<1>4. PICK made : made = Made
  OBVIOUS
<1>5. made = build(builder, tables[1], tables[2])
  BY ONLY <1>4 DEF Made
<1>6. block = Declared(made, Least) /\ Least \in {3, 5}
  BY ONLY <1>2, <1>3, <1>4
<1>7. /\ SameParts(made, block) /\ block.version >= made.version
      /\ WellSent(builder, Least, block)
  BY ONLY <1>1, <1>2, <1>5, <1>6, SentFacts
<1> QED BY ONLY <1>3, <1>4, <1>7

LEMMA EditStep ==
    ASSUME PathInv, Edit PROVE PathInv'
<1>1. stage = "building" /\ target' = target /\ tables' = tables
  BY DEF Edit
<1>2. (stage' = "building" /\ WellTyped(builder')) \/ stage' = "refused"
  BY DEF Edit
<1>3. IsTyped'
  BY <1>1, <1>2 DEF PathInv, IsTyped, WellTyped
<1>4. IsSent' /\ IsLoaded' /\ IsSaved'
  BY <1>2 DEF IsSent, IsLoaded, IsSaved, LoadKeepsMeaning
<1> QED BY <1>3, <1>4 DEF PathInv

LEMMA BuildStep ==
    ASSUME PathInv, BuildBlock PROVE PathInv'
<1>1. /\ stage = "building" /\ target # "authorizer"
      /\ target' = target /\ builder' = builder /\ tables' = tables
  BY DEF BuildBlock
<1>2. CASE Panics(builder)
  <2>1. stage' = "panicked"
    BY <1>2 DEF BuildBlock
  <2>2. IsTyped'
    BY <1>1, <2>1 DEF PathInv, IsTyped
  <2> QED BY <2>1, <2>2 DEF PathInv, IsSent, IsLoaded, IsSaved, LoadKeepsMeaning
<1>3. CASE ~Panics(builder)
  <2>1. stage' = "built"
    BY <1>3 DEF BuildBlock
  <2>2. block' = Declared(Made, Least)
    BY <1>3 DEF BuildBlock, Declared, Made, Least
  <2>3. Made' = Made /\ Least' = Least
    BY <1>1 DEF Made, Least
  <2>4. IsTyped'
    BY <1>1, <2>1 DEF PathInv, IsTyped, WellTyped
  <2>5. ~Panics(builder')
    BY <1>1, <1>3
  <2>6. IsSent'
    BY <1>1, <2>1, <2>2, <2>3, <2>5 DEF IsSent
  <2> QED BY <2>1, <2>4, <2>6 DEF PathInv, IsLoaded, IsSaved, LoadKeepsMeaning
<1> QED BY <1>2, <1>3

LEMMA SerializeStep ==
    ASSUME PathInv, Serialize PROVE PathInv'
<1>1. /\ stage = "built" /\ stage' = "sent" /\ proto' = token_block_to_proto_block(block)
      /\ target' = target /\ builder' = builder /\ tables' = tables /\ block' = block
  BY DEF Serialize
<1>2. IsTyped'
  BY <1>1 DEF PathInv, IsTyped, WellTyped
<1>3. Made' = Made /\ Least' = Least
  BY <1>1 DEF Made, Least
<1>4. ~Panics(builder) /\ target # "authorizer" /\ block = Declared(Made, Least)
  BY <1>1 DEF PathInv, IsSent
<1>5. IsSent'
  BY <1>1, <1>3, <1>4 DEF IsSent
<1> QED BY <1>1, <1>2, <1>5 DEF PathInv, IsLoaded, IsSaved, LoadKeepsMeaning

LEMMA DeserializeStep ==
    ASSUME PathInv, Deserialize PROVE PathInv'
<1>1. /\ stage = "sent"
      /\ target' = target /\ builder' = builder /\ tables' = tables
  BY DEF Deserialize
<1>2. /\ ~Panics(builder) /\ target # "authorizer" /\ block = Declared(Made, Least)
      /\ proto = token_block_to_proto_block(block)
  BY <1>1 DEF PathInv, IsSent
<1>3. /\ proto_block_to_token_block(proto) = block
      /\ Accepts(proto, target = "third_party") <=> AllEven(BlockStatements(builder))
  <2>1. IsTyped /\ IsSent /\ stage \in {"built", "sent", "received"}
    BY <1>1 DEF PathInv
  <2>2. WellSent(builder, Least, block) /\ (target = "third_party" => Least = 5)
    BY ONLY <2>1, BuiltFacts
  <2>3. PICK external \in BOOLEAN : external <=> target = "third_party"
    OBVIOUS
  <2>4. (target = "third_party") = external
    BY <2>3
  <2>5. Accepts(token_block_to_proto_block(block), external) <=> AllEven(BlockStatements(builder))
    BY <2>2, <2>3 DEF WellSent
  <2> QED BY ONLY <1>2, <2>2, <2>4, <2>5 DEF WellSent
<1>4. Made' = Made /\ Least' = Least
  BY <1>1 DEF Made, Least
<1>5. CASE Accepts(proto, target = "third_party")
  <2>1. stage' = "received" /\ block' = block
    BY <1>3, <1>5 DEF Deserialize
  <2>2. IsTyped'
    BY <1>1, <2>1 DEF PathInv, IsTyped, WellTyped
  <2>3. IsSent'
    BY <1>1, <1>2, <1>3, <1>4, <1>5, <2>1 DEF IsSent
  <2> QED BY <2>1, <2>2, <2>3 DEF PathInv, IsLoaded, IsSaved, LoadKeepsMeaning
<1>6. CASE ~Accepts(proto, target = "third_party")
  <2>1. stage' = "unreadable"
    BY <1>6 DEF Deserialize
  <2>2. IsTyped'
    BY <1>1, <2>1 DEF PathInv, IsTyped, WellTyped
  <2>3. IsSent'
    BY <1>1, <1>3, <1>6, <2>1 DEF IsSent
  <2> QED BY <2>1, <2>2, <2>3 DEF PathInv, IsLoaded, IsSaved, LoadKeepsMeaning
<1> QED BY <1>5, <1>6

\* The names of the facts of the other blocks.
LEMMA LoadedSymbolsTyped ==
    LoadedSymbols \in Seq(STRING)
<1>1. PICK F : F = [i \in DOMAIN TokenFacts |-> <<"fact", TokenFacts[i][2]>>]
  OBVIOUS
<1>2. F \in Seq(StatementsOver(STRING, STRING))
  <2>1. /\ Len(TokenFacts) \in Nat /\ DOMAIN TokenFacts = 1..Len(TokenFacts)
        /\ \A i \in DOMAIN TokenFacts : TokenFacts[i] \in Nat \X PredicatesOver(STRING)
    BY TokenAssumption
  <2>2. ASSUME NEW i \in DOMAIN TokenFacts
        PROVE  <<"fact", TokenFacts[i][2]>> \in StatementsOver(STRING, STRING)
    <3>1. TokenFacts[i][2] \in PredicatesOver(STRING)
      BY <2>1
    <3> QED BY <3>1 DEF StatementsOver
  <2> QED BY <1>1, <2>1, <2>2
<1>3. << >> \in Seq(ScopesOver(STRING))
  OBVIOUS
<1>4. AllWords(F) \in Seq(STRING)
  BY ONLY <1>2, <1>3, NamesOfFacts
<1>5. Once(AllWords(F)) \in Seq(STRING)
  BY ONLY <1>4, OnceFacts
<1> QED BY <1>1, <1>5 DEF LoadedSymbols

LEMMA LoadStep ==
    ASSUME PathInv, Load PROVE PathInv'
<1>1. /\ stage = "received"
      /\ target' = target /\ builder' = builder /\ tables' = tables
  BY DEF Load
<1>2. PICK result : result = load_and_translate_block(
                                 block, tables[1] \o block.symbols, tables[2] \o block.public_keys,
                                 LoadedSymbols, LoadedKeys)
  OBVIOUS
<1>3. IF result.error = "" THEN stage' = "loaded" /\ loaded' = result ELSE stage' = "invalid"
  BY <1>2 DEF Load
<1>4. WellTyped(builder) /\ ~Panics(builder) /\ target # "authorizer"
  BY <1>1 DEF PathInv, IsTyped, IsSent
<1>5. CASE result.error = ""
  <2>1. stage' = "loaded" /\ loaded' = result
    BY <1>3, <1>5
  <2>2. IsTyped /\ IsSent /\ stage \in {"built", "sent", "received"}
    BY <1>1 DEF PathInv
  <2>3. PICK made : made = Made
    OBVIOUS
  <2>4. made = build(builder, tables[1], tables[2])
    BY ONLY <2>3 DEF Made
  <2>5. SameParts(made, block)
    <3>1. SameParts(Made, block)
      BY ONLY <2>2, BuiltFacts
    <3> QED BY ONLY <2>3, <3>1
  <2>6. /\ tables[1] \in Seq(STRING) /\ tables[2] \in Seq(STRING)
    BY ONLY <2>2, TablesTyped
  <2>7. LoadedSymbols \in Seq(STRING) /\ LoadedKeys \in Seq(STRING)
    BY LoadedSymbolsTyped, TokenAssumption
  <2>8. /\ Says(result, BlockStatements(builder), builder.scopes)
        /\ Usable(result) /\ Knows(result, LoadedSymbols)
    BY ONLY <1>2, <1>4, <1>5, <2>4, <2>5, <2>6, <2>7, LoadFacts
  <2>9. IsTyped'
    BY <1>1, <2>1 DEF PathInv, IsTyped, WellTyped
  <2>10. IsLoaded'
    BY ONLY <1>1, <1>4, <2>1, <2>8 DEF IsLoaded, LoadKeepsMeaning, Says, Usable, Knows
  <2> QED BY <2>1, <2>9, <2>10 DEF PathInv, IsSent, IsSaved
<1>6. CASE result.error # ""
  <2>1. stage' = "invalid"
    BY <1>3, <1>6
  <2>2. IsTyped'
    BY <1>1, <2>1 DEF PathInv, IsTyped
  <2> QED BY <2>1, <2>2 DEF PathInv, IsSent, IsLoaded, IsSaved, LoadKeepsMeaning
<1> QED BY <1>5, <1>6

LEMMA BuildAuthorizerStep ==
    ASSUME PathInv, BuildAuthorizer PROVE PathInv'
<1>1. /\ stage = "building" /\ target = "authorizer"
      /\ target' = target /\ builder' = builder /\ tables' = tables
  BY DEF BuildAuthorizer
<1>2. CASE PanicsAtBuild(builder)
  <2>1. stage' = "panicked"
    BY <1>2 DEF BuildAuthorizer
  <2>2. IsTyped'
    BY <1>1, <2>1 DEF PathInv, IsTyped
  <2> QED BY <2>1, <2>2 DEF PathInv, IsSent, IsLoaded, IsSaved, LoadKeepsMeaning
<1>3. CASE ~PanicsAtBuild(builder)
  <2>1. PICK result : result = build_inner(builder, LoadedSymbols, LoadedKeys)
    OBVIOUS
  <2>2. stage' = "loaded" /\ loaded' = result
    BY <1>3, <2>1 DEF BuildAuthorizer
  <2>3. WellTyped(builder)
    BY <1>1 DEF PathInv, IsTyped
  <2>4. LoadedSymbols \in Seq(STRING) /\ LoadedKeys \in Seq(STRING)
    BY LoadedSymbolsTyped, TokenAssumption
  <2>5. /\ TranslateAll(result.statements, result.symbols, result.keys) = InOrder(builder)
        /\ TranslateScopes(result.scopes, result.keys) = builder.scopes
        /\ Usable(result) /\ Knows(result, LoadedSymbols)
    BY ONLY <2>1, <2>3, <2>4, InnerFacts
  <2>6. IsTyped'
    BY <1>1, <2>2 DEF PathInv, IsTyped, WellTyped
  <2>7. IsLoaded'
    BY ONLY <1>1, <2>2, <2>5 DEF IsLoaded, LoadKeepsMeaning, Usable, Knows
  <2> QED BY <2>2, <2>6, <2>7 DEF PathInv, IsSent, IsSaved
<1> QED BY <1>2, <1>3

LEMMA SaveStep ==
    ASSUME PathInv, Save \/ Snapshot PROVE PathInv'
<1>1. target = "authorizer" /\ target' = target /\ builder' = builder /\ tables' = tables
  BY DEF Save, Snapshot
<1>2. CASE stage' = "panicked"
  <2>1. IsTyped'
    BY <1>1, <1>2 DEF PathInv, IsTyped
  <2> QED BY <1>2, <2>1 DEF PathInv, IsSent, IsLoaded, IsSaved, LoadKeepsMeaning
<1>3. CASE stage' # "panicked"
  <2>1. /\ ~Panics(builder)
        /\ \/ stage' = "saved" /\ proto' = saved(builder)
           \/ stage' = "snapshot" /\ proto' = snapshot(builder)
    BY <1>3 DEF Save, Snapshot, PathInv, IsLoaded
  <2>2. WellTyped(builder)
    BY DEF Save, Snapshot, PathInv, IsTyped
  <2>3. IsTyped'
    BY <1>1, <2>2 DEF PathInv, IsTyped, WellTyped
  <2>4. ~Panics(builder')
    BY <1>1, <2>1
  <2>5. IsSaved'
    BY <1>1, <2>1, <2>4 DEF IsSaved
  <2> QED BY <2>1, <2>3, <2>5 DEF PathInv, IsSent, IsLoaded, LoadKeepsMeaning
<1> QED BY <1>2, <1>3

LEMMA RestoreStep ==
    ASSUME PathInv, Restore \/ Use PROVE PathInv'
<1>1. /\ target' = target /\ tables' = tables
      /\ \/ stage' \in {"reloaded", "restored", "answered", "panicked"}
         \/ stage' = "unreadable" /\ stage \in {"saved", "snapshot"}
  BY DEF Restore, Use
<1>5. ASSUME stage' = "reloaded" PROVE Usable(loaded')
  <2>1. PICK b, p : b = builder /\ p = proto
    OBVIOUS
  <2>2. PICK made : made = restored(p)
    OBVIOUS
  <2>3. PICK world : world = WorldOf(made)
    OBVIOUS
  <2>4. stage = "saved" /\ RestorableSaved(p) /\ loaded' = build_inner(world, << >>, << >>)
    BY <1>5, <2>1, <2>2, <2>3 DEF Restore, Use, WorldOf
  <2>5. WellTyped(b) /\ ~Panics(b) /\ p = saved(b)
    BY <2>1, <2>4 DEF PathInv, IsTyped, IsSaved
  <2>6. WellTyped(world)
    BY ONLY <2>2, <2>3, <2>4, <2>5, WorldFacts
  <2>7. << >> \in Seq(STRING)
    OBVIOUS
  <2>8. PICK result : result = build_inner(world, << >>, << >>)
    OBVIOUS
  <2>9. Usable(result)
    BY ONLY <2>6, <2>7, <2>8, InnerFacts
  <2> QED BY ONLY <2>4, <2>8, <2>9
<1>2. IsTyped'
  BY <1>1 DEF PathInv, IsTyped
<1>3. stage' = "unreadable" => target = "authorizer"
  BY <1>1 DEF PathInv, IsSaved
<1>4. IsSent'
  BY <1>1, <1>3 DEF IsSent
<1>6. IsLoaded'
  BY <1>1, <1>5 DEF IsLoaded, LoadKeepsMeaning, Usable
<1> QED BY <1>1, <1>2, <1>4, <1>6 DEF PathInv, IsSaved

\* The inductive invariant holds on the way of every block.
THEOREM PathInvHolds == PathSpec => []PathInv
<1>1. Start => PathInv
  BY StartOfPath
<1>2. PathInv /\ [Edit \/ Travel \/ Use]_way => PathInv'
  <2> SUFFICES ASSUME PathInv, [Edit \/ Travel \/ Use]_way PROVE PathInv'
    OBVIOUS
  <2>1. CASE Edit \/ Travel \/ Use
    BY <2>1, EditStep, BuildStep, SerializeStep, DeserializeStep, LoadStep, BuildAuthorizerStep,
       SaveStep, RestoreStep DEF Travel
  <2>2. CASE UNCHANGED way
    <3>1. /\ target' = target /\ builder' = builder /\ stage' = stage /\ tables' = tables
          /\ block' = block /\ proto' = proto /\ loaded' = loaded
      BY <2>2 DEF way
    <3>2. Made' = Made /\ Least' = Least
      BY <3>1 DEF Made, Least
    <3>3. IsTyped'
      BY <3>1 DEF PathInv, IsTyped, WellTyped
    <3>4. IsSent'
      BY <3>1, <3>2 DEF PathInv, IsSent
    <3>5. IsLoaded'
      BY <3>1 DEF PathInv, IsLoaded, LoadKeepsMeaning, Usable, Knows
    <3>6. IsSaved'
      BY <3>1 DEF PathInv, IsSaved
    <3> QED BY <3>3, <3>4, <3>5, <3>6 DEF PathInv
  <2> QED BY <2>1, <2>2
<1> QED BY <1>1, <1>2, PTL DEF PathSpec

LEMMA VersionCoversStep ==
    ASSUME PathInv PROVE VersionCoversFeatures
<1> SUFFICES ASSUME stage \in {"built", "received"} PROVE VersionCoversFeatures
  BY DEF VersionCoversFeatures
<1>1. IsTyped /\ IsSent /\ stage \in {"built", "sent", "received"}
  BY DEF PathInv
<1>2. WellSent(builder, Least, block) /\ Least \in {3, 5} /\ (target = "third_party" => Least = 5)
  BY ONLY <1>1, BuiltFacts
<1>3. PICK v, A, l : v = block.version /\ A = Range(block.statements) /\ l = block.scopes
  OBVIOUS
<1>4. v \in Int /\ Covers(v, A, l) /\ (target = "third_party" => v >= 5)
  BY ONLY <1>2, <1>3 DEF WellSent
<1>5. /\ (\E s \in A : Found33(s)) => v >= 6
      /\ v = 6 => \E s \in A : Has33(s)
      /\ (l # << >> \/ \E s \in A : Has31(s)) => v >= 4
      /\ v = 4 => l # << >> \/ \E s \in A : Has31(s)
      /\ target = "third_party" => v >= 5
  BY ONLY <1>4 DEF Covers, Scoped
<1> QED BY ONLY <1>3, <1>5 DEF VersionCoversFeatures, DATALOG_3_1, DATALOG_3_2, DATALOG_3_3

\* get_schema_version and build: the version that a block declares is the one of
\* what is in it, in its terms and the closures of its expressions, neither
\* below nor above it; but for arrays, maps and the nulls in a term that has one,
\* or in a set of sets, that get_schema_version overlooks.
THEOREM VersionCoversFeaturesHolds == PathSpec => []VersionCoversFeatures
BY PathInvHolds, VersionCoversStep, PTL

LEMMA WireKeepsStep ==
    ASSUME PathInv PROVE WireKeepsBlocks
<1>1. PICK S : S = BlockStatements(builder)
  OBVIOUS
<1>2. AllEven(S) <=> ~\E s \in Range(S) : \E x \in Values(s) : IsOddSet(x)
  BY ONLY OddIs
<1>3. (stage = "unreadable" /\ target # "authorizer") => ~AllEven(S)
  BY <1>1 DEF PathInv, IsSent
<1>4. stage = "received" => /\ SameParts(Made, block) /\ block.version >= Made.version
                            /\ AllEven(S)
  <2> SUFFICES ASSUME stage = "received"
               PROVE  /\ SameParts(Made, block) /\ block.version >= Made.version
                      /\ AllEven(S)
    OBVIOUS
  <2>1. IsTyped /\ IsSent /\ stage \in {"built", "sent", "received"}
    BY DEF PathInv
  <2>2. SameParts(Made, block) /\ block.version >= Made.version
    BY ONLY <2>1, BuiltFacts
  <2>3. AllEven(S)
    BY <1>1, <2>1 DEF IsSent
  <2> QED BY <2>2, <2>3
<1> QED BY ONLY <1>1, <1>2, <1>3, <1>4 DEF WireKeepsBlocks, SameParts, Made

\* token_block_to_proto_block and proto_block_to_token_block: a block is received
\* as it was built, and it is refused only when a set in it holds several kinds.
THEOREM WireKeepsBlocksHolds == PathSpec => []WireKeepsBlocks
BY PathInvHolds, WireKeepsStep, PTL

\* load_and_translate_block and build_unauthenticated: in the tables of the
\* authorizer, whatever they hold, statements and scopes are those of the builder.
THEOREM LoadKeepsMeaningHolds == PathSpec => []LoadKeepsMeaning
<1>1. PathInv => LoadKeepsMeaning
  BY DEF PathInv, IsLoaded
<1> QED BY <1>1, PathInvHolds, PTL

LEMMA RestoringStep ==
    ASSUME PathInv, [Edit \/ Travel \/ Use]_way, stage \in {"saved", "snapshot"},
           ~UNCHANGED way
    PROVE  IF stage' = "unreadable" THEN Odd(builder) \/ (stage = "saved" /\ NamesKeys(builder))
           ELSE /\ InOrder(builder') = InOrder(builder) /\ builder'.scopes = Kept
                /\ stage = "saved" => SaidBy(loaded') = ChecksAndPolicies(builder)
<1>1. Restore
  BY DEF Edit, Travel, Use, BuildBlock, Serialize, Deserialize, Load, BuildAuthorizer, Save, Snapshot
<1>2. /\ WellTyped(builder) /\ ~Panics(builder)
      /\ proto = IF stage = "saved" THEN saved(builder) ELSE snapshot(builder)
  BY DEF PathInv, IsTyped, IsSaved
<1>3. PICK b, p : b = builder /\ p = proto
  OBVIOUS
<1>4. WellTyped(b) /\ ~Panics(b)
  BY <1>2, <1>3
<1>5. AllEven(InOrder(b)) <=> ~Odd(b)
  <2>1. PICK S : S = InOrder(b)
    OBVIOUS
  <2>2. AllEven(S) <=> ~\E s \in Range(S) : \E x \in Values(s) : IsOddSet(x)
    BY ONLY OddIs
  <2> QED BY ONLY <2>1, <2>2 DEF Odd
<1>6. CASE stage = "saved"
  <2>1. p = saved(b)
    BY <1>2, <1>3, <1>6
  <2>2. /\ RestorableSaved(p) <=> AllEven(InOrder(b)) /\ AllKeys(InOrder(b), << >>) = << >>
        /\ RestorableSaved(p) => InOrder(restored(p)) = InOrder(b) /\ restored(p).scopes = << >>
    BY ONLY <1>4, <2>1, SavedFacts
  <2>3. PICK made : made = restored(p)
    OBVIOUS
  <2>4. PICK world : world = WorldOf(made)
    OBVIOUS
  <2>5. CASE RestorableSaved(p)
    <3>1. builder' = made /\ stage' # "unreadable" /\ loaded' = build_inner(world, << >>, << >>)
      BY <1>1, <1>3, <1>6, <2>3, <2>4, <2>5 DEF Restore, WorldOf
    <3>2. WellTyped(world) /\ InOrder(world) = ChecksAndPolicies(b)
      BY ONLY <1>4, <2>1, <2>3, <2>4, <2>5, WorldFacts DEF ChecksAndPolicies
    <3>3. PICK result : result = build_inner(world, << >>, << >>)
      OBVIOUS
    <3>4. << >> \in Seq(STRING)
      OBVIOUS
    <3>5. TranslateAll(result.statements, result.symbols, result.keys) = InOrder(world)
      BY ONLY <3>2, <3>3, <3>4, InnerFacts
    <3>6. SaidBy(loaded') = ChecksAndPolicies(builder)
      BY ONLY <1>3, <3>1, <3>2, <3>3, <3>5 DEF SaidBy
    <3> QED BY ONLY <1>3, <1>6, <2>2, <2>3, <2>5, <3>1, <3>6 DEF Kept
  <2>6. CASE ~RestorableSaved(p)
    <3>1. stage' = "unreadable"
      BY <1>1, <1>3, <1>6, <2>6 DEF Restore
    <3> QED BY ONLY <1>3, <1>5, <1>6, <2>2, <2>6, <3>1 DEF NamesKeys
  <2> QED BY <2>5, <2>6
<1>7. CASE stage = "snapshot"
  <2>1. p = snapshot(b)
    BY <1>2, <1>3, <1>7
  <2>2. /\ RestorableSnapshot(p) <=> AllEven(InOrder(b))
        /\ RestorableSnapshot(p) => InOrder(restored(p)) = InOrder(b) /\ restored(p).scopes = b.scopes
    BY ONLY <1>4, <2>1, SnapshotFacts
  <2>3. CASE RestorableSnapshot(p)
    <3>1. builder' = restored(p) /\ stage' # "unreadable"
      BY <1>1, <1>3, <1>7, <2>3 DEF Restore
    <3> QED BY ONLY <1>3, <1>7, <2>2, <2>3, <3>1 DEF Kept
  <2>4. CASE ~RestorableSnapshot(p)
    <3>1. stage' = "unreadable"
      BY <1>1, <1>3, <1>7, <2>4 DEF Restore
    <3> QED BY ONLY <1>3, <1>5, <2>2, <2>4, <3>1
  <2> QED BY <2>3, <2>4
<1> QED BY <1>6, <1>7

\* AuthorizerPolicies, snapshot and from_snapshot: what is restored holds the
\* statements that were saved, and what was saved as policies runs its checks
\* and its policies. What cannot be restored holds a set of several kinds or,
\* when it was saved, a statement that names a key: of the versions and kinds
\* that the readers refuse, what the writers make has none.
THEOREM RestoringKeepsStatementsHolds == PathSpec => RestoringKeepsStatements
<1>1. PathInv /\ [Edit \/ Travel \/ Use]_way =>
         [(stage \in {"saved", "snapshot"}) =>
             IF stage' = "unreadable" THEN Odd(builder) \/ (stage = "saved" /\ NamesKeys(builder))
             ELSE /\ InOrder(builder') = InOrder(builder) /\ builder'.scopes = Kept
                  /\ stage = "saved" => SaidBy(loaded') = ChecksAndPolicies(builder)]_way
  BY RestoringStep
<1> QED BY <1>1, PathInvHolds, PTL DEF PathSpec, RestoringKeepsStatements

-----------------------------------------------------------------------------
(* The search for bindings: what the variables have after some facts is told   *)
(* by the pairs of a variable and a value that these facts ask for.            *)

\* The values that a fact asks for, in the first m terms of a predicate.
Asked(p, fact, m) ==
    {<<p[3][l][2], fact[3][l]>> : l \in {k \in 1..m : p[3][k][1] = "var"}}

\* Pairs of a variable and a value.
ArePairs(D, V, X) == \A d \in D : \E v \in V, x \in X : d = <<v, x>>

\* Each variable has the value that is asked for it, if any.
Meets(variables, D, V, X) ==
    /\ variables \in [V -> X \cup {Free}]
    /\ ArePairs(D, V, X)
    /\ \A v \in V, x \in X : variables[v] = x <=> <<v, x>> \in D

\* No variable is asked to have two values.
Consistent(D) == \A v, x, y : (<<v, x>> \in D /\ <<v, y>> \in D) => x = y

\* What is found of the variables when some pairs are asked for.
Finds(found, D, V, X) ==
    /\ found.ok \in BOOLEAN
    /\ found.ok => Meets(found.variables, D, V, X)
    /\ ~found.ok => ~Consistent(D)

LEMMA MeetsConsistently ==
    ASSUME NEW V, NEW X, NEW D, NEW variables, Meets(variables, D, V, X)
    PROVE  Consistent(D)
<1>1. \A v, x : <<v, x>> \in D => v \in V /\ x \in X
  BY DEF Meets, ArePairs
<1> QED BY <1>1 DEF Meets, Consistent

LEMMA InsertIs ==
    ASSUME NEW V, NEW X, Free \notin X, NEW D, NEW variables, Meets(variables, D, V, X),
           NEW v \in V, NEW x \in X, NEW found, found = insert(variables, v, x),
           NEW E, E = D \cup {<<v, x>>}
    PROVE  Finds(found, E, V, X)
<1>1. DOMAIN variables = V /\ variables[v] \in X \cup {Free}
  BY DEF Meets
<1>2. CASE variables[v] = Free
  <2> DEFINE after == [variables EXCEPT ![v] = x]
  <2>1. found = [ok |-> TRUE, variables |-> after]
    BY <1>1, <1>2 DEF insert
  <2>2. after \in [V -> X \cup {Free}]
    BY DEF Meets
  <2>3. ArePairs(E, V, X)
    BY DEF Meets, ArePairs
  <2>4. ASSUME NEW w \in V, NEW y \in X
        PROVE  after[w] = y <=> <<w, y>> \in E
    <3>1. after[w] = IF w = v THEN x ELSE variables[w]
      BY <1>1
    <3>2. variables[w] = y <=> <<w, y>> \in D
      BY DEF Meets
    <3>3. <<w, y>> = <<v, x>> <=> w = v /\ y = x
      OBVIOUS
    <3>4. w = v => variables[w] # y
      BY <1>2
    <3> QED BY <3>1, <3>2, <3>3, <3>4
  <2> HIDE DEF after
  <2>5. Meets(after, E, V, X)
    BY <2>2, <2>3, <2>4 DEF Meets
  <2> QED BY <2>1, <2>5 DEF Finds
<1>3. CASE variables[v] # Free
  <2>1. found = [ok |-> variables[v] = x, variables |-> variables]
    BY <1>1, <1>3 DEF insert
  <2> DEFINE same == variables[v] = x
  <2>6. PICK ok \in BOOLEAN : ok <=> same
    OBVIOUS
  <2>7. same = ok
    BY <2>6
  <2>8. found = [ok |-> ok, variables |-> variables]
    BY <2>1, <2>7
  <2>2. found.ok <=> variables[v] = x
    BY <2>6, <2>8
  <2>3. found.ok \in BOOLEAN /\ found.variables = variables
    BY <2>8
  <2>4. CASE variables[v] = x
    <3>1. E = D
      BY <2>4 DEF Meets
    <3> QED BY <2>2, <2>3, <2>4, <3>1 DEF Finds
  <2>5. CASE variables[v] # x
    <3>1. <<v, variables[v]>> \in D
      BY <1>1, <1>3 DEF Meets
    <3>2. <<v, variables[v]>> \in E /\ <<v, x>> \in E
      BY <3>1
    <3>3. ~Consistent(E)
      BY <2>5, <3>2 DEF Consistent
    <3> QED BY <2>2, <2>3, <2>5, <3>3 DEF Finds
  <2> QED BY <2>4, <2>5
<1> QED BY <1>2, <1>3

\* What Unify has after each term.
UnifyFrom(variables, p, fact, g, n) ==
    [i \in 0..n |->
        IF i = 0 THEN [ok |-> TRUE, variables |-> variables]
        ELSE IF g[i - 1].ok /\ p[3][i][1] = "var"
             THEN insert(g[i - 1].variables, p[3][i][2], fact[3][i]) ELSE g[i - 1]]

LEMMA UnifyRuns ==
    ASSUME NEW variables, NEW p, NEW fact, NEW m \in Nat, m = Len(p[3])
    PROVE  \E g : g = UnifyFrom(variables, p, fact, g, m) /\ Unify(variables, p, fact) = g[m]
<1> DEFINE Zero == [ok |-> TRUE, variables |-> variables]
           After(before, i) ==
               IF before.ok /\ p[3][i][1] = "var"
               THEN insert(before.variables, p[3][i][2], fact[3][i]) ELSE before
           From(g, n) == [i \in 0..n |-> IF i = 0 THEN Zero ELSE After(g[i - 1], i)]
           T == {n \in Nat : \E g : g = From(g, n)}
<1>0. \A g, n : From(g, n) = UnifyFrom(variables, p, fact, g, n)
  BY DEF UnifyFrom
<1>5. Unify(variables, p, fact) = (CHOOSE g : g = From(g, m))[m]
  BY DEF Unify
<1> HIDE DEF Zero, After
<1>1. 0 \in T
  <2> DEFINE g == [i \in 0..0 |-> Zero]
  <2>1. g = From(g, 0)
    OBVIOUS
  <2> QED BY <2>1
<1>2. ASSUME NEW n \in Nat, n \in T
      PROVE  n + 1 \in T
  <2>1. PICK g : g = From(g, n)
    BY <1>2
  <2> DEFINE h == [i \in 0..(n + 1) |-> IF i = 0 THEN Zero ELSE After(g[i - 1], i)]
  <2>2. \A i \in 0..n : h[i] = g[i]
    BY <2>1
  <2>3. \A i \in 0..(n + 1) : i # 0 => i - 1 \in 0..n
    OBVIOUS
  <2>4. h = From(h, n + 1)
    BY <2>2, <2>3
  <2> HIDE DEF h
  <2>5. \E k : k = From(k, n + 1)
    BY <2>4
  <2> QED BY <2>5
<1> HIDE DEF T
<1>3. m \in T
  BY <1>1, <1>2, NumberInduction
<1>4. \E g : g = From(g, m)
  BY <1>3 DEF T
<1> QED BY <1>0, <1>4, <1>5

\* The terms of predicates and facts.
AreTerms(X) == Free \notin X /\ \A t \in X : t[1] = "var" => t = <<"var", t[2]>>

LEMMA UnifyIs ==
    ASSUME NEW V, NEW X, Free \notin X, NEW D, NEW variables, Meets(variables, D, V, X),
           NEW p, NEW fact, NEW m \in Nat, p[3] \in Seq(X), fact[3] \in Seq(X),
           Len(p[3]) = m, Len(fact[3]) = m,
           \A k \in 1..m : p[3][k][1] = "var" => p[3][k][2] \in V,
           NEW found, found = Unify(variables, p, fact)
    PROVE  Finds(found, D \cup Asked(p, fact, m), V, X)
<1>0. m = Len(p[3])
  OBVIOUS
<1>1. PICK g : g = UnifyFrom(variables, p, fact, g, m) /\ found = g[m]
  <2>1. \E g : g = UnifyFrom(variables, p, fact, g, m) /\ Unify(variables, p, fact) = g[m]
    BY ONLY <1>0, m \in Nat, UnifyRuns
  <2> QED BY <2>1
<1>2. g[0] = [ok |-> TRUE, variables |-> variables]
  BY <1>1 DEF UnifyFrom
<1>3. ASSUME NEW i \in 1..m
      PROVE  g[i] = IF g[i - 1].ok /\ p[3][i][1] = "var"
                    THEN insert(g[i - 1].variables, p[3][i][2], fact[3][i]) ELSE g[i - 1]
  <2>1. i \in 0..m /\ i # 0
    BY <1>3
  <2> QED BY <1>1, <2>1 DEF UnifyFrom
<1>4. \A k \in 1..m : fact[3][k] \in X
  BY LenProperties
<1> DEFINE FoundAt(i) == Finds(g[i], D \cup Asked(p, fact, i), V, X)
           T == {i \in Nat : i \in 0..m => FoundAt(i)}
<1>5. 0 \in T
  <2>1. Asked(p, fact, 0) = {}
    BY DEF Asked
  <2>2. D \cup Asked(p, fact, 0) = D
    BY <2>1
  <2>3. g[0].ok = TRUE /\ g[0].variables = variables
    BY <1>2
  <2>4. FoundAt(0)
    BY <2>2, <2>3 DEF Finds
  <2> QED BY <2>4
<1>6. ASSUME NEW n \in Nat, n \in T
      PROVE  n + 1 \in T
  <2> SUFFICES ASSUME n + 1 \in 0..m PROVE FoundAt(n + 1)
    OBVIOUS
  <2>1. n + 1 \in 1..m /\ (n + 1) - 1 = n /\ n \in 0..m
    OBVIOUS
  <2>2. Finds(g[n], D \cup Asked(p, fact, n), V, X)
    BY <1>6, <2>1
  <2>3. g[n + 1] = IF g[n].ok /\ p[3][n + 1][1] = "var"
                   THEN insert(g[n].variables, p[3][n + 1][2], fact[3][n + 1]) ELSE g[n]
    BY <1>3, <2>1
  <2>4. Asked(p, fact, n + 1) =
           IF p[3][n + 1][1] = "var"
           THEN Asked(p, fact, n) \cup {<<p[3][n + 1][2], fact[3][n + 1]>>} ELSE Asked(p, fact, n)
    <3>1. \A k : k \in 1..(n + 1) <=> k \in 1..n \/ k = n + 1
      OBVIOUS
    <3> QED BY <3>1 DEF Asked
  <2>5. CASE p[3][n + 1][1] # "var"
    BY <2>2, <2>3, <2>4, <2>5
  <2>6. CASE p[3][n + 1][1] = "var" /\ ~g[n].ok
    <3>1. g[n + 1] = g[n]
      BY <2>3, <2>6
    <3>2. ~Consistent(D \cup Asked(p, fact, n))
      BY <2>2, <2>6 DEF Finds
    <3>3. ~Consistent(D \cup Asked(p, fact, n + 1))
      BY <2>4, <2>6, <3>2 DEF Consistent
    <3> QED BY <2>2, <2>6, <3>1, <3>3 DEF Finds
  <2>7. CASE p[3][n + 1][1] = "var" /\ g[n].ok
    <3>1. PICK v \in V, x \in X : v = p[3][n + 1][2] /\ x = fact[3][n + 1]
      BY <1>4, <2>1, <2>7
    <3>2. PICK before : before = g[n].variables
      OBVIOUS
    <3>3. PICK E, F : E = D \cup Asked(p, fact, n) /\ F = E \cup {<<v, x>>}
      OBVIOUS
    <3>4. Meets(before, E, V, X)
      BY <2>2, <2>7, <3>2, <3>3 DEF Finds
    <3>5. PICK after : after = g[n + 1]
      OBVIOUS
    <3>6. after = insert(before, v, x)
      BY <2>3, <2>7, <3>1, <3>2, <3>5
    <3>7. Finds(after, F, V, X)
      BY ONLY <3>3, <3>4, <3>6, Free \notin X, v \in V, x \in X, InsertIs
    <3>8. F = D \cup Asked(p, fact, n + 1)
      BY <2>4, <2>7, <3>1, <3>3
    <3> QED BY <3>5, <3>7, <3>8
  <2> QED BY <2>5, <2>6, <2>7
<1> HIDE DEF T
<1>7. Nat \subseteq T
  BY <1>5, <1>6, NumberInduction
<1>8. m \in T
  BY <1>7
<1> QED BY <1>1, <1>8 DEF T

\* Pairs that are consistent are met in one way.
LEMMA MeetsOnce ==
    ASSUME NEW V, NEW X, Free \notin X, NEW D, Consistent(D),
           ArePairs(D, V, X)
    PROVE  /\ \E variables : Meets(variables, D, V, X)
           /\ \A a, b : Meets(a, D, V, X) /\ Meets(b, D, V, X) => a = b
<1> DEFINE given(v) == {x \in X : <<v, x>> \in D}
           variables == [v \in V |-> IF given(v) = {} THEN Free ELSE CHOOSE x \in given(v) : TRUE]
<1>1. ASSUME NEW v \in V
      PROVE  /\ variables[v] \in X \cup {Free}
             /\ \A x \in X : variables[v] = x <=> <<v, x>> \in D
  <2>1. CASE given(v) = {}
    BY <2>1
  <2>2. CASE given(v) # {}
    <3>1. variables[v] \in given(v)
      BY <2>2
    <3> HIDE DEF variables
    <3>2. \A x \in X : <<v, x>> \in D => x = variables[v]
      BY <3>1 DEF Consistent
    <3> QED BY <3>1, <3>2
  <2> QED BY <2>1, <2>2
<1>2. variables = [v \in V |-> variables[v]]
  OBVIOUS
<1> HIDE DEF variables
<1>3. variables \in [V -> X \cup {Free}]
  BY <1>1, <1>2
<1>4. Meets(variables, D, V, X)
  BY <1>1, <1>3 DEF Meets
<1>5. ASSUME NEW a, NEW b, Meets(a, D, V, X), Meets(b, D, V, X)
      PROVE  a = b
  <2>1. a \in [V -> X \cup {Free}] /\ b \in [V -> X \cup {Free}]
    BY <1>5 DEF Meets
  <2>2. ASSUME NEW v \in V
        PROVE  a[v] = b[v]
    <3>1. \A x \in X : a[v] = x <=> b[v] = x
      BY <1>5 DEF Meets
    <3>2. a[v] \in X \cup {Free} /\ b[v] \in X \cup {Free}
      BY <2>1
    <3> QED BY <3>1, <3>2
  <2> QED BY <2>1, <2>2
<1> QED BY <1>4, <1>5

\* A body of n predicates, and facts, with terms of X and variables of V.
IsBody(body, n, V, X) ==
    /\ n \in Nat /\ Free \notin X
    /\ \A i \in 1..n :
          /\ body[i][3] \in Seq(X)
          /\ \A k \in DOMAIN body[i][3] : body[i][3][k][1] = "var" => body[i][3][k][2] \in V
AreFacts(F, X) == \A f \in F : f.predicate[3] \in Seq(X)

\* A choice of facts for the first k predicates, and what they ask for.
Chooses(c, body, k, F) ==
    c \in [1..k -> F] /\ \A i \in 1..k : match_preds(body[i], c[i].predicate)
AllAsked(c, body, k) ==
    UNION {Asked(body[i], c[i].predicate, Len(body[i][3])) : i \in 1..k}
OriginsOf(c, k) == UNION {c[i].origin : i \in 1..k}

LEMMA AskedFacts ==
    ASSUME NEW V, NEW X, NEW p, p[3] \in Seq(X), NEW fact, fact[3] \in Seq(X),
           match_preds(p, fact),
           \A k \in DOMAIN p[3] : p[3][k][1] = "var" => p[3][k][2] \in V
    PROVE  /\ Len(p[3]) \in Nat /\ Len(fact[3]) = Len(p[3])
           /\ \A d : d \in Asked(p, fact, Len(p[3])) <=>
                        \E k \in DOMAIN p[3] : p[3][k][1] = "var" /\ d = <<p[3][k][2], fact[3][k]>>
           /\ ArePairs(Asked(p, fact, Len(p[3])), V, X)
<1>1. /\ Len(p[3]) \in Nat /\ DOMAIN p[3] = 1..Len(p[3])
      /\ DOMAIN fact[3] = 1..Len(fact[3]) /\ \A k \in DOMAIN fact[3] : fact[3][k] \in X
  BY LenProperties
<1>2. Len(fact[3]) = Len(p[3])
  BY DEF match_preds
<1>3. \A d : d \in Asked(p, fact, Len(p[3])) <=>
                \E k \in DOMAIN p[3] : p[3][k][1] = "var" /\ d = <<p[3][k][2], fact[3][k]>>
  BY <1>1 DEF Asked
<1> QED BY <1>1, <1>2, <1>3 DEF ArePairs

LEMMA AllAskedFacts ==
    ASSUME NEW V, NEW X, NEW body, NEW n, IsBody(body, n, V, X), NEW F, AreFacts(F, X),
           NEW k \in 0..n, NEW c, Chooses(c, body, k, F)
    PROVE  ArePairs(AllAsked(c, body, k), V, X)
<1>1. ASSUME NEW i \in 1..k
      PROVE  ArePairs(Asked(body[i], c[i].predicate, Len(body[i][3])), V, X)
  <2>1. PICK p, fact : p = body[i] /\ fact = c[i].predicate
    OBVIOUS
  <2>2. i \in 1..n
    BY DEF IsBody
  <2>3. /\ p[3] \in Seq(X) /\ match_preds(p, fact)
        /\ \A j \in DOMAIN p[3] : p[3][j][1] = "var" => p[3][j][2] \in V
    BY <2>1, <2>2 DEF IsBody, Chooses
  <2>4. fact[3] \in Seq(X)
    BY <2>1 DEF Chooses, AreFacts
  <2>5. ArePairs(Asked(p, fact, Len(p[3])), V, X)
    BY ONLY <2>3, <2>4, AskedFacts
  <2> QED BY <2>1, <2>5
<1> QED BY <1>1 DEF AllAsked, ArePairs

\* A choice for one predicate more: what it asks for, and its origins.
Extends(e, c, f, body, k) ==
    /\ AllAsked(e, body, k + 1) =
          AllAsked(c, body, k) \cup Asked(body[k + 1], f.predicate, Len(body[k + 1][3]))
    /\ OriginsOf(e, k + 1) = OriginsOf(c, k) \cup f.origin

LEMMA ChoiceGrows ==
    ASSUME NEW body, NEW F, NEW k \in Nat, NEW c, Chooses(c, body, k, F), NEW f \in F,
           match_preds(body[k + 1], f.predicate)
    PROVE  \E e : Chooses(e, body, k + 1, F) /\ Extends(e, c, f, body, k)
<1> DEFINE e == [i \in 1..(k + 1) |-> IF i <= k THEN c[i] ELSE f]
<1>1. \A i : i \in 1..(k + 1) <=> (i \in 1..k \/ i = k + 1)
  OBVIOUS
<1>2. (\A i \in 1..k : e[i] = c[i]) /\ e[k + 1] = f
  OBVIOUS
<1>3. e \in [1..(k + 1) -> F]
  BY DEF Chooses
<1> HIDE DEF e
<1>4. Chooses(e, body, k + 1, F)
  BY <1>1, <1>2, <1>3 DEF Chooses
<1>5. AllAsked(e, body, k + 1) =
         AllAsked(c, body, k) \cup Asked(body[k + 1], f.predicate, Len(body[k + 1][3]))
  BY <1>1, <1>2 DEF AllAsked
<1>6. OriginsOf(e, k + 1) = OriginsOf(c, k) \cup f.origin
  BY <1>1, <1>2 DEF OriginsOf
<1> QED BY <1>4, <1>5, <1>6 DEF Extends

LEMMA ChoiceShrinks ==
    ASSUME NEW body, NEW F, NEW k \in Nat, NEW e, Chooses(e, body, k + 1, F)
    PROVE  \E c : \E f \in F :
              /\ Chooses(c, body, k, F) /\ match_preds(body[k + 1], f.predicate)
              /\ Extends(e, c, f, body, k)
<1> DEFINE c == [i \in 1..k |-> e[i]]
           f == e[k + 1]
<1>1. \A i : i \in 1..(k + 1) <=> (i \in 1..k \/ i = k + 1)
  OBVIOUS
<1>2. \A i \in 1..k : c[i] = e[i]
  OBVIOUS
<1>3. c \in [1..k -> F] /\ f \in F
  BY <1>1 DEF Chooses
<1> HIDE DEF c
<1>4. Chooses(c, body, k, F) /\ match_preds(body[k + 1], f.predicate)
  BY <1>1, <1>2, <1>3 DEF Chooses
<1>5. AllAsked(e, body, k + 1) =
         AllAsked(c, body, k) \cup Asked(body[k + 1], f.predicate, Len(body[k + 1][3]))
  BY <1>1, <1>2 DEF AllAsked
<1>6. OriginsOf(e, k + 1) = OriginsOf(c, k) \cup f.origin
  BY <1>1, <1>2 DEF OriginsOf
<1> QED BY <1>3, <1>4, <1>5, <1>6 DEF Extends

\* The solutions for the first k predicates.
Solutions(body, k, F, V, X) ==
    {s \in [origin : SUBSET UNION {f.origin : f \in F}, values : [V -> X \cup {Free}]] :
        \E c : /\ Chooses(c, body, k, F) /\ s.origin = OriginsOf(c, k)
               /\ Meets(s.values, AllAsked(c, body, k), V, X)}

LEMMA SolutionIs ==
    ASSUME NEW body, NEW k \in Nat, NEW F, NEW V, NEW X, NEW c, Chooses(c, body, k, F),
           NEW o, o = OriginsOf(c, k), NEW values, Meets(values, AllAsked(c, body, k), V, X)
    PROVE  [origin |-> o, values |-> values] \in Solutions(body, k, F, V, X)
<1>1. OriginsOf(c, k) \subseteq UNION {f.origin : f \in F}
  BY DEF OriginsOf, Chooses
<1>2. values \in [V -> X \cup {Free}]
  BY DEF Meets
<1> QED BY <1>1, <1>2 DEF Solutions

\* What Longer makes of a solution with one fact.
With(s, p, f) ==
    IF match_preds(p, f.predicate) /\ Unify(s.values, p, f.predicate).ok
    THEN <<[origin |-> s.origin \cup f.origin,
            values |-> Unify(s.values, p, f.predicate).variables]>>
    ELSE << >>

LEMMA LongerIs ==
    ASSUME NEW s, NEW p, NEW facts
    PROVE  Longer(s, p, facts) = FlattenSeq([i \in DOMAIN facts |-> With(s, p, facts[i])])
BY DEF Longer, With

\* It meets what is asked for, if that can be met.
JoinsFact(s, p, f, D, V, X) ==
    /\ With(s, p, f) # << >> =>
          /\ match_preds(p, f.predicate)
          /\ \E values : /\ Meets(values, D, V, X)
                         /\ With(s, p, f) = <<[origin |-> s.origin \cup f.origin,
                                               values |-> values]>>
    /\ (match_preds(p, f.predicate) /\ Consistent(D)) => With(s, p, f) # << >>

\* A solution with the next predicate and a fact: there is one when what they ask
\* for is consistent.
LEMMA WithIs ==
    ASSUME NEW V, NEW X, NEW body, NEW n, IsBody(body, n, V, X), NEW F, AreFacts(F, X),
           NEW k \in Nat, k < n, NEW c, Chooses(c, body, k, F), NEW f \in F,
           NEW s, s.origin = OriginsOf(c, k), Meets(s.values, AllAsked(c, body, k), V, X),
           NEW p, p = body[k + 1],
           NEW D, D = AllAsked(c, body, k) \cup Asked(p, f.predicate, Len(p[3]))
    PROVE  JoinsFact(s, p, f, D, V, X)
<1>1. CASE ~match_preds(p, f.predicate)
  BY <1>1 DEF With, JoinsFact
<1>2. CASE match_preds(p, f.predicate)
  <2>1. PICK fact, found : fact = f.predicate /\ found = Unify(s.values, p, fact)
    OBVIOUS
  <2>2. k + 1 \in 1..n
    BY DEF IsBody
  <2>3. /\ p[3] \in Seq(X) /\ Free \notin X /\ fact[3] \in Seq(X) /\ match_preds(p, fact)
        /\ \A j \in DOMAIN p[3] : p[3][j][1] = "var" => p[3][j][2] \in V
    BY <1>2, <2>1, <2>2 DEF IsBody, AreFacts
  <2>4. PICK m : m = Len(p[3])
    OBVIOUS
  <2>5. m \in Nat /\ Len(p[3]) = m /\ Len(fact[3]) = m /\ DOMAIN p[3] = 1..m
    <3>1. Len(fact[3]) = Len(p[3])
      BY <2>3 DEF match_preds
    <3> QED BY <2>3, <2>4, <3>1, LenProperties
  <2>6. \A j \in 1..m : p[3][j][1] = "var" => p[3][j][2] \in V
    BY <2>3, <2>5
  <2>7. PICK E, variables : E = AllAsked(c, body, k) /\ variables = s.values
    OBVIOUS
  <2>8. Meets(variables, E, V, X) /\ found = Unify(variables, p, fact)
    BY <2>1, <2>7
  <2>9. Finds(found, E \cup Asked(p, fact, m), V, X)
    BY ONLY <2>3, <2>5, <2>6, <2>8, UnifyIs
  <2>10. D = E \cup Asked(p, fact, m)
    BY <2>1, <2>4, <2>7
  <2>11. With(s, p, f) = IF found.ok THEN <<[origin |-> s.origin \cup f.origin,
                                             values |-> found.variables]>> ELSE << >>
    BY <1>2, <2>1 DEF With
  <2>12. \A x : <<x>> # << >>
    OBVIOUS
  <2>13. CASE found.ok
    BY <1>2, <2>9, <2>10, <2>11, <2>12, <2>13 DEF Finds, JoinsFact
  <2>14. CASE ~found.ok
    BY <2>9, <2>10, <2>11, <2>14 DEF Finds, JoinsFact
  <2> QED BY <2>13, <2>14
<1> QED BY <1>1, <1>2

AtMostOne(w, S) == w \in Seq(S) /\ \A t \in Range(w) : w = <<t>>

LEMMA WithSolves ==
    ASSUME NEW V, NEW X, NEW body, NEW n, IsBody(body, n, V, X), NEW F, AreFacts(F, X),
           NEW k \in Nat, k < n, NEW p, p = body[k + 1],
           NEW s \in Solutions(body, k, F, V, X), NEW f \in F
    PROVE  AtMostOne(With(s, p, f), Solutions(body, k + 1, F, V, X))
<1>1. PICK c : /\ Chooses(c, body, k, F) /\ s.origin = OriginsOf(c, k)
               /\ Meets(s.values, AllAsked(c, body, k), V, X)
  BY DEF Solutions
<1>2. PICK D : D = AllAsked(c, body, k) \cup Asked(p, f.predicate, Len(p[3]))
  OBVIOUS
<1>3. /\ IsBody(body, n, V, X) /\ AreFacts(F, X) /\ k \in Nat /\ k < n /\ p = body[k + 1]
      /\ f \in F
  OBVIOUS
<1>4. JoinsFact(s, p, f, D, V, X)
  BY ONLY <1>1, <1>2, <1>3, WithIs
<1>5. CASE With(s, p, f) = << >>
  <2>1. Range(<< >>) = {}
    BY DEF Range
  <2>2. << >> \in Seq(Solutions(body, k + 1, F, V, X))
    OBVIOUS
  <2> QED BY <1>5, <2>1, <2>2 DEF AtMostOne
<1>6. CASE With(s, p, f) # << >>
  <2>1. PICK values : /\ Meets(values, D, V, X)
                      /\ With(s, p, f) = <<[origin |-> s.origin \cup f.origin, values |-> values]>>
    BY <1>4, <1>6 DEF JoinsFact
  <2>2. match_preds(body[k + 1], f.predicate)
    BY <1>3, <1>4, <1>6 DEF JoinsFact
  <2>3. PICK e : Chooses(e, body, k + 1, F) /\ Extends(e, c, f, body, k)
    BY ONLY <1>1, <1>3, <2>2, ChoiceGrows
  <2>4. PICK o : o = s.origin \cup f.origin
    OBVIOUS
  <2>5. k + 1 \in Nat /\ o = OriginsOf(e, k + 1) /\ Meets(values, AllAsked(e, body, k + 1), V, X)
    <3>1. AllAsked(e, body, k + 1) = D
      BY ONLY <1>2, <1>3, <2>3 DEF Extends
    <3>2. OriginsOf(e, k + 1) = o
      BY ONLY <1>1, <2>3, <2>4 DEF Extends
    <3> QED BY <2>1, <3>1, <3>2
  <2>6. [origin |-> o, values |-> values] \in Solutions(body, k + 1, F, V, X)
    BY ONLY <2>3, <2>5, SolutionIs
  <2>7. PICK t : t = [origin |-> o, values |-> values]
    OBVIOUS
  <2>8. With(s, p, f) = <<t>> /\ t \in Solutions(body, k + 1, F, V, X)
    BY <2>1, <2>4, <2>6, <2>7
  <2>9. <<t>> \in Seq(Solutions(body, k + 1, F, V, X)) /\ Range(<<t>>) = {t}
    BY <2>8 DEF Range
  <2> QED BY <2>8, <2>9 DEF AtMostOne
<1> QED BY <1>5, <1>6

\* All the solutions that there are with one fact more.
Lists(l, s, p, F, S) ==
    l \in Seq(S) /\ \A t : t \in Range(l) <=> \E f \in F : With(s, p, f) = <<t>>

LEMMA LongerFacts ==
    ASSUME NEW V, NEW X, NEW body, NEW n, IsBody(body, n, V, X),
           NEW F, AreFacts(F, X), NEW facts \in Seq(F), F = Range(facts),
           NEW k \in Nat, k < n, NEW p, p = body[k + 1],
           NEW s \in Solutions(body, k, F, V, X)
    PROVE  Lists(Longer(s, p, facts), s, p, F, Solutions(body, k + 1, F, V, X))
<1> DEFINE W == [i \in 1..Len(facts) |-> With(s, p, facts[i])]
<1>1. /\ Len(facts) \in Nat /\ DOMAIN facts = 1..Len(facts)
      /\ \A i \in DOMAIN facts : facts[i] \in F
      /\ \A f \in F : \E i \in DOMAIN facts : facts[i] = f
  BY MappedFacts
<1>0. IsBody(body, n, V, X) /\ AreFacts(F, X) /\ k \in Nat /\ k < n /\ p = body[k + 1]
  OBVIOUS
<1>2. \A f \in F : AtMostOne(With(s, p, f), Solutions(body, k + 1, F, V, X))
  BY ONLY <1>0, s \in Solutions(body, k, F, V, X), WithSolves
<1>3. W \in [1..Len(facts) -> Seq(Solutions(body, k + 1, F, V, X))]
  BY <1>1, <1>2 DEF AtMostOne
<1>4. Longer(s, p, facts) = FlattenSeq(W)
  BY <1>1, LongerIs
<1>5. \A i \in 1..Len(facts) : W[i] = With(s, p, facts[i])
  OBVIOUS
<1> HIDE DEF W
<1>6. /\ FlattenSeq(W) \in Seq(Solutions(body, k + 1, F, V, X))
      /\ \A t : t \in Range(FlattenSeq(W)) <=> \E i \in 1..Len(facts) : t \in Range(W[i])
  BY ONLY <1>1, <1>3, FlattenFacts
<1>7. \A t : t \in Range(<<t>>)
  BY DEF Range
<1>8. ASSUME NEW t
      PROVE  t \in Range(FlattenSeq(W)) <=> \E f \in F : With(s, p, f) = <<t>>
  <2>1. ASSUME NEW i \in 1..Len(facts), t \in Range(W[i])
        PROVE  \E f \in F : With(s, p, f) = <<t>>
    BY <1>1, <1>2, <1>5, <2>1 DEF AtMostOne
  <2>2. ASSUME NEW f \in F, With(s, p, f) = <<t>>
        PROVE  \E i \in 1..Len(facts) : t \in Range(W[i])
    BY <1>1, <1>5, <1>7, <2>2
  <2> QED BY <1>6, <2>1, <2>2
<1> QED BY <1>4, <1>6, <1>8 DEF Lists

\* Each level of CombineIt has the solutions for one predicate more.
LEMMA LevelGrows ==
    ASSUME NEW V, NEW X, NEW body, NEW n, IsBody(body, n, V, X),
           NEW F, AreFacts(F, X), NEW facts \in Seq(F), F = Range(facts),
           NEW k \in Nat, k < n, NEW p, p = body[k + 1],
           NEW L \in Seq(Solutions(body, k, F, V, X)), Range(L) = Solutions(body, k, F, V, X),
           NEW M, M = FlattenSeq([i \in DOMAIN L |-> Longer(L[i], p, facts)])
    PROVE  /\ M \in Seq(Solutions(body, k + 1, F, V, X))
           /\ Range(M) = Solutions(body, k + 1, F, V, X)
<1> DEFINE S == Solutions(body, k, F, V, X)
           N == Solutions(body, k + 1, F, V, X)
           W == [i \in 1..Len(L) |-> Longer(L[i], p, facts)]
<1>1. /\ Len(L) \in Nat /\ DOMAIN L = 1..Len(L)
      /\ \A i \in DOMAIN L : L[i] \in S
      /\ \A s \in S : \E i \in DOMAIN L : L[i] = s
  BY MappedFacts
<1>0. /\ IsBody(body, n, V, X) /\ AreFacts(F, X) /\ facts \in Seq(F) /\ F = Range(facts)
      /\ k \in Nat /\ k < n /\ p = body[k + 1]
  OBVIOUS
<1>2. \A s \in S : Lists(Longer(s, p, facts), s, p, F, N)
  BY ONLY <1>0, LongerFacts
<1>3. M = FlattenSeq(W)
  BY <1>1
<1>4. \A i \in 1..Len(L) : W[i] = Longer(L[i], p, facts)
  OBVIOUS
<1> HIDE DEF N, S
<1>5. W \in [1..Len(L) -> Seq(N)]
  BY <1>1, <1>2 DEF Lists
<1> HIDE DEF W
<1>6. /\ M \in Seq(N)
      /\ \A t : t \in Range(M) <=> \E i \in 1..Len(L) : t \in Range(W[i])
  BY ONLY <1>1, <1>3, <1>5, FlattenFacts
<1>7. Range(M) \subseteq N
  <2>1. \A t \in Range(M) : t \in N
    BY <1>6, MappedFacts
  <2> QED BY <2>1
<1>8. ASSUME NEW t \in N
      PROVE  t \in Range(M)
  <2>1. PICK e : /\ Chooses(e, body, k + 1, F) /\ t.origin = OriginsOf(e, k + 1)
                 /\ Meets(t.values, AllAsked(e, body, k + 1), V, X)
    BY DEF N, Solutions
  <2>2. PICK c : \E f \in F :
              /\ Chooses(c, body, k, F) /\ match_preds(body[k + 1], f.predicate)
              /\ Extends(e, c, f, body, k)
    BY ONLY <2>1, k \in Nat, ChoiceShrinks
  <2>3. PICK f \in F :
              /\ Chooses(c, body, k, F) /\ match_preds(body[k + 1], f.predicate)
              /\ Extends(e, c, f, body, k)
    BY <2>2
  <2>4. PICK C, D, o : /\ C = AllAsked(c, body, k) /\ o = OriginsOf(c, k)
                       /\ D = AllAsked(c, body, k) \cup Asked(p, f.predicate, Len(p[3]))
    OBVIOUS
  <2>5. D = AllAsked(e, body, k + 1) /\ t.origin = o \cup f.origin
    BY <2>1, <2>3, <2>4 DEF Extends
  <2>6. Meets(t.values, D, V, X) /\ Consistent(D)
    <3>1. Meets(t.values, D, V, X)
      BY <2>1, <2>5
    <3>2. PICK values : values = t.values
      OBVIOUS
    <3> QED BY <3>1, <3>2, MeetsConsistently
  <2>7. Free \notin X /\ k \in 0..n
    BY DEF IsBody
  <2>8. ArePairs(C, V, X) /\ Consistent(C)
    <3>1. ArePairs(AllAsked(c, body, k), V, X)
      BY ONLY <2>3, <2>7, IsBody(body, n, V, X), AreFacts(F, X), AllAskedFacts
    <3>2. C \subseteq D
      BY <2>4
    <3> QED BY <2>4, <2>6, <3>1, <3>2 DEF Consistent
  <2>9. PICK variables : Meets(variables, C, V, X)
    BY ONLY <2>7, <2>8, MeetsOnce
  <2>10. PICK s : s = [origin |-> o, values |-> variables]
    OBVIOUS
  <2>11. s \in S /\ s.origin = o /\ s.values = variables
    <3>1. k \in Nat /\ Chooses(c, body, k, F) /\ o = OriginsOf(c, k)
          /\ Meets(variables, AllAsked(c, body, k), V, X)
      BY <2>3, <2>4, <2>9
    <3>2. [origin |-> o, values |-> variables] \in Solutions(body, k, F, V, X)
      BY ONLY <3>1, SolutionIs
    <3> QED BY <2>10, <3>2 DEF S
  <2>12. /\ IsBody(body, n, V, X) /\ AreFacts(F, X) /\ k \in Nat /\ k < n /\ p = body[k + 1]
         /\ Chooses(c, body, k, F) /\ f \in F /\ s.origin = OriginsOf(c, k)
         /\ Meets(s.values, AllAsked(c, body, k), V, X)
         /\ D = AllAsked(c, body, k) \cup Asked(p, f.predicate, Len(p[3]))
    BY <2>3, <2>4, <2>9, <2>11
  <2>13. JoinsFact(s, p, f, D, V, X)
    BY ONLY <2>12, WithIs
  <2>14. match_preds(p, f.predicate)
    BY <2>3, <2>12
  <2>15. PICK values : /\ Meets(values, D, V, X)
                       /\ With(s, p, f) = <<[origin |-> s.origin \cup f.origin, values |-> values]>>
    BY ONLY <2>6, <2>13, <2>14 DEF JoinsFact
  <2>16. values = t.values
    <3>1. ArePairs(D, V, X)
      BY <2>15 DEF Meets
    <3>2. \A a, b : Meets(a, D, V, X) /\ Meets(b, D, V, X) => a = b
      BY ONLY <2>6, <2>7, <3>1, MeetsOnce
    <3> QED BY <2>6, <2>15, <3>2
  <2>17. t = [origin |-> t.origin, values |-> t.values]
    BY DEF N, Solutions
  <2>18. With(s, p, f) = <<t>>
    BY <2>5, <2>11, <2>15, <2>16, <2>17
  <2>19. t \in Range(Longer(s, p, facts))
    BY <1>2, <2>11, <2>18 DEF Lists
  <2>20. PICK i \in 1..Len(L) : L[i] = s
    BY <1>1, <2>11
  <2> QED BY <1>4, <1>6, <2>19, <2>20
<1>9. Range(M) = N
  BY <1>7, <1>8
<1> QED BY <1>6, <1>9 DEF N

\* What CombineIt has at each level.
LevelsOf(variables, predicates, facts, g, n) ==
    [i \in 0..n |-> IF i = 0 THEN <<[origin |-> {}, values |-> variables]>>
                    ELSE FlattenSeq([j \in DOMAIN g[i - 1] |->
                                        Longer(g[i - 1][j], predicates[i], facts)])]
Completed(found) ==
    FlattenSeq([i \in DOMAIN found |-> IF complete(found[i].values) THEN <<found[i]>> ELSE << >>])

LEMMA CombineRuns ==
    ASSUME NEW variables, NEW predicates, NEW facts, NEW m \in Nat, m = Len(predicates)
    PROVE  \E g : /\ g = LevelsOf(variables, predicates, facts, g, m)
                  /\ CombineIt(variables, predicates, facts) = Completed(g[m])
<1> DEFINE Zero == <<[origin |-> {}, values |-> variables]>>
           After(before, i) ==
               FlattenSeq([j \in DOMAIN before |-> Longer(before[j], predicates[i], facts)])
           From(g, n) == [i \in 0..n |-> IF i = 0 THEN Zero ELSE After(g[i - 1], i)]
           T == {n \in Nat : \E g : g = From(g, n)}
<1>0. \A g, n : From(g, n) = LevelsOf(variables, predicates, facts, g, n)
  BY DEF LevelsOf
<1>5. CombineIt(variables, predicates, facts) = Completed((CHOOSE g : g = From(g, m))[m])
  BY DEF CombineIt, Completed
<1> HIDE DEF Zero, After
<1>1. 0 \in T
  <2> DEFINE g == [i \in 0..0 |-> Zero]
  <2>1. g = From(g, 0)
    OBVIOUS
  <2> QED BY <2>1
<1>2. ASSUME NEW n \in Nat, n \in T
      PROVE  n + 1 \in T
  <2>1. PICK g : g = From(g, n)
    BY <1>2
  <2> DEFINE h == [i \in 0..(n + 1) |-> IF i = 0 THEN Zero ELSE After(g[i - 1], i)]
  <2>2. \A i \in 0..n : h[i] = g[i]
    BY <2>1
  <2>3. \A i \in 0..(n + 1) : i # 0 => i - 1 \in 0..n
    OBVIOUS
  <2>4. h = From(h, n + 1)
    BY <2>2, <2>3
  <2> HIDE DEF h
  <2>5. \E k : k = From(k, n + 1)
    BY <2>4
  <2> QED BY <2>5
<1> HIDE DEF T
<1>3. m \in T
  BY <1>1, <1>2, NumberInduction
<1>4. \E g : g = From(g, m)
  BY <1>3 DEF T
<1> QED BY <1>0, <1>4, <1>5

\* The first level has one solution, in which no variable has a value.
LEMMA NoPredicates ==
    ASSUME NEW V, NEW X, NEW body, NEW n, IsBody(body, n, V, X), NEW F,
           NEW variables, variables = [v \in V |-> Free],
           NEW s, s = [origin |-> {}, values |-> variables]
    PROVE  Solutions(body, 0, F, V, X) = {s}
<1>1. \A c : /\ AllAsked(c, body, 0) = {} /\ OriginsOf(c, 0) = {}
             /\ Chooses(c, body, 0, F) <=> c \in [1..0 -> F]
  BY DEF AllAsked, OriginsOf, Chooses
<1>2. PICK c : c \in [1..0 -> F]
  <2> DEFINE c == [i \in 1..0 |-> i]
  <2>1. c \in [1..0 -> F]
    OBVIOUS
  <2> QED BY <2>1
<1>3. Meets(variables, {}, V, X)
  BY DEF IsBody, Meets, ArePairs
<1>4. \A a : Meets(a, {}, V, X) => a = variables
  <2>1. Consistent({}) /\ ArePairs({}, V, X) /\ Free \notin X
    BY DEF Consistent, ArePairs, IsBody
  <2>2. \A a, b : Meets(a, {}, V, X) /\ Meets(b, {}, V, X) => a = b
    BY ONLY <2>1, MeetsOnce
  <2> QED BY <1>3, <2>2
<1>5. s \in Solutions(body, 0, F, V, X)
  <2>1. PICK o : o = {}
    OBVIOUS
  <2>2. /\ 0 \in Nat /\ Chooses(c, body, 0, F) /\ o = OriginsOf(c, 0)
        /\ Meets(variables, AllAsked(c, body, 0), V, X)
    BY <1>1, <1>2, <1>3, <2>1
  <2>3. [origin |-> o, values |-> variables] \in Solutions(body, 0, F, V, X)
    BY ONLY <2>2, SolutionIs
  <2> QED BY <2>1, <2>3
<1>6. ASSUME NEW t \in Solutions(body, 0, F, V, X)
      PROVE  t = s
  <2>1. t = [origin |-> t.origin, values |-> t.values]
    BY DEF Solutions
  <2>2. t.origin = {} /\ Meets(t.values, {}, V, X)
    BY <1>1 DEF Solutions
  <2>3. t.values = variables
    BY <1>4, <2>2
  <2> QED BY <2>1, <2>2, <2>3
<1> QED BY <1>5, <1>6

\* A pair that is asked for, somewhere in a body.
AskedIn(d, c, body, k) ==
    \E i \in 1..k : \E j \in DOMAIN body[i][3] :
        body[i][3][j][1] = "var" /\ d = <<body[i][3][j][2], c[i].predicate[3][j]>>

LEMMA AllAskedIs ==
    ASSUME NEW V, NEW X, NEW body, NEW n, IsBody(body, n, V, X), NEW c
    PROVE  \A d : d \in AllAsked(c, body, n) <=> AskedIn(d, c, body, n)
<1>1. ASSUME NEW i \in 1..n
      PROVE  DOMAIN body[i][3] = 1..Len(body[i][3])
  <2>1. body[i][3] \in Seq(X)
    BY DEF IsBody
  <2>2. PICK t : t = body[i][3]
    OBVIOUS
  <2> QED BY <2>1, <2>2, LenProperties
<1> QED BY <1>1, SMTT(60) DEF AllAsked, Asked, AskedIn

\* Every variable of the body has a value in a solution.
LEMMA SolutionsComplete ==
    ASSUME NEW V, NEW X, NEW P, NEW body \in Seq(P), NEW n, n = Len(body), IsBody(body, n, V, X),
           V = Bound(body), NEW F, AreFacts(F, X), NEW s \in Solutions(body, n, F, V, X)
    PROVE  complete(s.values)
<1>1. PICK c : /\ Chooses(c, body, n, F)
               /\ Meets(s.values, AllAsked(c, body, n), V, X)
  BY DEF Solutions
<1>2. n \in Nat /\ DOMAIN body = 1..n /\ Free \notin X
  BY LenProperties DEF IsBody
<1>3. n \in 0..n
  BY <1>2
<1>4. ArePairs(AllAsked(c, body, n), V, X)
  BY ONLY <1>1, <1>3, IsBody(body, n, V, X), AreFacts(F, X), AllAskedFacts
<1>5. \A d : d \in AllAsked(c, body, n) <=> AskedIn(d, c, body, n)
  BY ONLY IsBody(body, n, V, X), AllAskedIs
<1>6. ASSUME NEW v \in V
      PROVE  s.values[v] # Free
  <2>1. PICK i \in 1..n : v \in Variables(body[i][3])
    BY <1>2 DEF Bound, Range
  <2>2. PICK j \in DOMAIN body[i][3] : body[i][3][j][1] = "var" /\ v = body[i][3][j][2]
    BY <2>1 DEF Variables
  <2>3. PICK x : x = c[i].predicate[3][j]
    OBVIOUS
  <2>4. AskedIn(<<v, x>>, c, body, n)
    BY <2>2, <2>3 DEF AskedIn
  <2>5. <<v, x>> \in AllAsked(c, body, n)
    BY <1>5, <2>4
  <2>6. x \in X
    BY <1>4, <2>5 DEF ArePairs
  <2> QED BY <1>1, <1>2, <2>5, <2>6 DEF Meets
<1>7. DOMAIN s.values = V
  BY <1>1 DEF Meets
<1> QED BY <1>6, <1>7 DEF complete, Range

\* What is found with a list of complete solutions.
LEMMA AllCompleted ==
    ASSUME NEW S, NEW found \in Seq(S), \A s \in S : complete(s.values)
    PROVE  Completed(found) \in Seq(S) /\ Range(Completed(found)) = Range(found)
<1> DEFINE W == [i \in 1..Len(found) |-> <<found[i]>>]
<1>1. /\ Len(found) \in Nat /\ DOMAIN found = 1..Len(found)
      /\ \A i \in DOMAIN found : found[i] \in S
  BY MappedFacts
<1>2. Completed(found) = FlattenSeq(W)
  <2>1. [i \in DOMAIN found |-> IF complete(found[i].values) THEN <<found[i]>> ELSE << >>] = W
    BY <1>1
  <2> QED BY <2>1 DEF Completed
<1>3. W \in [1..Len(found) -> Seq(S)]
  <2>1. \A i \in 1..Len(found) : <<found[i]>> \in Seq(S)
    BY <1>1
  <2> QED BY <2>1
<1>4. \A i \in 1..Len(found) : Range(W[i]) = {found[i]}
  BY DEF Range
<1> HIDE DEF W
<1>5. /\ FlattenSeq(W) \in Seq(S)
      /\ \A t : t \in Range(FlattenSeq(W)) <=> \E i \in 1..Len(found) : t \in Range(W[i])
  BY ONLY <1>1, <1>3, FlattenFacts
<1>6. \A t : t \in Range(found) <=> \E i \in 1..Len(found) : t = found[i]
  BY <1>1 DEF Range
<1>7. \A t : t \in Range(FlattenSeq(W)) <=> t \in Range(found)
  <2> SUFFICES ASSUME NEW t PROVE t \in Range(FlattenSeq(W)) <=> t \in Range(found)
    OBVIOUS
  <2>1. t \in Range(FlattenSeq(W)) <=> \E i \in 1..Len(found) : t \in Range(W[i])
    BY <1>5
  <2>2. \A i \in 1..Len(found) : t \in Range(W[i]) <=> t = found[i]
    BY <1>4
  <2> QED BY ONLY <1>6, <2>1, <2>2
<1> QED BY <1>2, <1>5, <1>7

\* CombineIt finds the solutions for all the predicates.
LEMMA CombineFacts ==
    ASSUME NEW V, NEW X, NEW P, NEW body \in Seq(P), NEW n, n = Len(body), IsBody(body, n, V, X),
           V = Bound(body), NEW F, AreFacts(F, X), NEW facts \in Seq(F), F = Range(facts),
           NEW variables, variables = [v \in V |-> Free],
           NEW found, found = CombineIt(variables, body, facts)
    PROVE  /\ found \in Seq(Solutions(body, n, F, V, X))
           /\ Range(found) = Solutions(body, n, F, V, X)
<1> DEFINE S(k) == Solutions(body, k, F, V, X)
<1>0. /\ IsBody(body, n, V, X) /\ AreFacts(F, X) /\ facts \in Seq(F) /\ F = Range(facts)
      /\ n \in Nat /\ n = Len(body)
  BY DEF IsBody
<1>1. PICK g : g = LevelsOf(variables, body, facts, g, n) /\ found = Completed(g[n])
  <2>1. \E g : /\ g = LevelsOf(variables, body, facts, g, n)
               /\ CombineIt(variables, body, facts) = Completed(g[n])
    BY ONLY <1>0, CombineRuns
  <2> QED BY <2>1
<1>2. g[0] = <<[origin |-> {}, values |-> variables]>>
  <2>1. 0 \in 0..n
    BY <1>0
  <2> QED BY <1>1, <2>1 DEF LevelsOf
<1>3. ASSUME NEW i \in 1..n
      PROVE  g[i] = FlattenSeq([j \in DOMAIN g[i - 1] |-> Longer(g[i - 1][j], body[i], facts)])
  <2>1. i \in 0..n /\ i # 0
    BY <1>0
  <2> QED BY <1>1, <2>1 DEF LevelsOf
<1> DEFINE T == {i \in Nat : i <= n => g[i] \in Seq(S(i)) /\ Range(g[i]) = S(i)}
<1> HIDE DEF S
<1>4. 0 \in T
  <2>1. PICK s : s = [origin |-> {}, values |-> variables]
    OBVIOUS
  <2>2. S(0) = {s}
    BY ONLY <1>0, <2>1, variables = [v \in V |-> Free], NoPredicates DEF S
  <2>3. g[0] = <<s>>
    BY <1>2, <2>1
  <2>4. <<s>> \in Seq({s}) /\ Range(<<s>>) = {s}
    BY DEF Range
  <2> QED BY <2>2, <2>3, <2>4
<1>5. ASSUME NEW k \in Nat, k \in T
      PROVE  k + 1 \in T
  <2> SUFFICES ASSUME k + 1 <= n PROVE g[k + 1] \in Seq(S(k + 1)) /\ Range(g[k + 1]) = S(k + 1)
    OBVIOUS
  <2>1. k < n /\ k + 1 \in 1..n /\ (k + 1) - 1 = k
    BY <1>0
  <2>2. PICK L, M, p : L = g[k] /\ M = g[k + 1] /\ p = body[k + 1]
    OBVIOUS
  <2>3. L \in Seq(S(k)) /\ Range(L) = S(k)
    BY <1>0, <1>5, <2>1, <2>2
  <2>4. M = FlattenSeq([i \in DOMAIN L |-> Longer(L[i], p, facts)])
    BY <1>3, <2>1, <2>2
  <2>5. M \in Seq(S(k + 1)) /\ Range(M) = S(k + 1)
    BY ONLY <1>0, <2>1, <2>2, <2>3, <2>4, k \in Nat, LevelGrows DEF S
  <2> QED BY <2>2, <2>5
<1> HIDE DEF T
<1>6. Nat \subseteq T
  BY <1>4, <1>5, NumberInduction
<1>7. n \in T
  BY <1>0, <1>6
<1>8. g[n] \in Seq(S(n)) /\ Range(g[n]) = S(n)
  BY <1>0, <1>7 DEF T
<1>9. \A s \in S(n) : complete(s.values)
  BY ONLY <1>0, body \in Seq(P), V = Bound(body), SolutionsComplete DEF S
<1>10. Completed(g[n]) \in Seq(S(n)) /\ Range(Completed(g[n])) = Range(g[n])
  BY ONLY <1>8, <1>9, AllCompleted
<1> QED BY <1>1, <1>8, <1>10 DEF S

\* The facts of a choice agree when what they ask for is consistent.
LEMMA AgreeIs ==
    ASSUME NEW V, NEW X, AreTerms(X), NEW body, NEW n, IsBody(body, n, V, X), DOMAIN body = 1..n,
           NEW F, NEW c \in [1..n -> F]
    PROVE  Agree(body, c) <=> Chooses(c, body, n, F) /\ Consistent(AllAsked(c, body, n))
<1>1. \A d : d \in AllAsked(c, body, n) <=> AskedIn(d, c, body, n)
  BY ONLY IsBody(body, n, V, X), AllAskedIs
<1>2. ASSUME NEW i \in 1..n, NEW k \in DOMAIN body[i][3], body[i][3][k][1] = "var"
      PROVE  body[i][3][k] = <<"var", body[i][3][k][2]>>
  <2>1. body[i][3] \in Seq(X)
    BY DEF IsBody
  <2>2. body[i][3][k] \in X
    BY <1>2, <2>1
  <2> QED BY <1>2, <2>2 DEF AreTerms
<1>3. ASSUME Agree(body, c)
      PROVE  Chooses(c, body, n, F) /\ Consistent(AllAsked(c, body, n))
  <2>1. Chooses(c, body, n, F)
    BY <1>3 DEF Agree, Chooses
  <2>2. ASSUME NEW v, NEW x, NEW y, <<v, x>> \in AllAsked(c, body, n), <<v, y>> \in AllAsked(c, body, n)
        PROVE  x = y
    <3>1. AskedIn(<<v, x>>, c, body, n) /\ AskedIn(<<v, y>>, c, body, n)
      BY <1>1, <2>2
    <3>2. PICK i \in 1..n : \E k \in DOMAIN body[i][3] :
              body[i][3][k][1] = "var" /\ <<v, x>> = <<body[i][3][k][2], c[i].predicate[3][k]>>
      BY <3>1 DEF AskedIn
    <3>3. PICK k \in DOMAIN body[i][3] :
              body[i][3][k][1] = "var" /\ <<v, x>> = <<body[i][3][k][2], c[i].predicate[3][k]>>
      BY <3>2
    <3>4. PICK j \in 1..n : \E l \in DOMAIN body[j][3] :
              body[j][3][l][1] = "var" /\ <<v, y>> = <<body[j][3][l][2], c[j].predicate[3][l]>>
      BY <3>1 DEF AskedIn
    <3>5. PICK l \in DOMAIN body[j][3] :
              body[j][3][l][1] = "var" /\ <<v, y>> = <<body[j][3][l][2], c[j].predicate[3][l]>>
      BY <3>4
    <3>6. /\ v = body[i][3][k][2] /\ x = c[i].predicate[3][k]
          /\ v = body[j][3][l][2] /\ y = c[j].predicate[3][l]
      BY <3>3, <3>5
    <3>7. body[i][3][k] = <<"var", v>> /\ body[j][3][l] = <<"var", v>>
      BY <1>2, <3>3, <3>5, <3>6
    <3>8. body[i][3][k] = body[j][3][l] /\ body[i][3][k][1] = "var"
      BY <3>3, <3>7
    <3>9. i \in DOMAIN body /\ j \in DOMAIN body
      OBVIOUS
    <3>10. \A e, f \in DOMAIN body : \A g \in DOMAIN body[e][3], h \in DOMAIN body[f][3] :
              (body[e][3][g][1] = "var" /\ body[e][3][g] = body[f][3][h]) =>
                  c[e].predicate[3][g] = c[f].predicate[3][h]
      BY <1>3 DEF Agree
    <3>11. c[i].predicate[3][k] = c[j].predicate[3][l]
      BY ONLY <3>8, <3>9, <3>10, k \in DOMAIN body[i][3], l \in DOMAIN body[j][3]
    <3> QED BY ONLY <3>6, <3>11
  <2> QED BY <2>1, <2>2 DEF Consistent
<1>4. ASSUME Chooses(c, body, n, F), Consistent(AllAsked(c, body, n))
      PROVE  Agree(body, c)
  <2>1. \A i \in DOMAIN body : match_preds(body[i], c[i].predicate)
    BY <1>4 DEF Chooses
  <2>2. ASSUME NEW i \in 1..n, NEW j \in 1..n, NEW k \in DOMAIN body[i][3],
               NEW l \in DOMAIN body[j][3], body[i][3][k][1] = "var", body[i][3][k] = body[j][3][l]
        PROVE  c[i].predicate[3][k] = c[j].predicate[3][l]
    <3>1. PICK v, x, y : v = body[i][3][k][2] /\ x = c[i].predicate[3][k] /\ y = c[j].predicate[3][l]
      OBVIOUS
    <3>2. AskedIn(<<v, x>>, c, body, n)
      BY <2>2, <3>1 DEF AskedIn
    <3>3. AskedIn(<<v, y>>, c, body, n)
      BY <2>2, <3>1 DEF AskedIn
    <3>4. x = y
      BY <1>1, <1>4, <3>2, <3>3 DEF Consistent
    <3> QED BY <3>1, <3>4
  <2> QED BY <2>1, <2>2 DEF Agree
<1> QED BY <1>3, <1>4

\* The binding of a choice meets what is asked for.
LEMMA BindingIs ==
    ASSUME NEW V, NEW X, AreTerms(X), NEW body, NEW n, IsBody(body, n, V, X), DOMAIN body = 1..n,
           V = Bound(body), NEW F, AreFacts(F, X), NEW c, Chooses(c, body, n, F),
           Consistent(AllAsked(c, body, n)),
           NEW b, b = Binding(body, c)
    PROVE  /\ b.origin = OriginsOf(c, n) /\ Meets(b.values, AllAsked(c, body, n), V, X)
           /\ b = [origin |-> b.origin, values |-> b.values]
<1> DEFINE D == AllAsked(c, body, n)
           given(v) == UNION {{c[i].predicate[3][k] :
                                  k \in {l \in DOMAIN body[i][3] : body[i][3][l] = <<"var", v>>}} :
                              i \in DOMAIN body}
           values == [v \in V |-> CHOOSE value \in given(v) : TRUE]
           o == UNION {c[i].origin : i \in DOMAIN body}
<1>1. b = [origin |-> o, values |-> values]
  BY DEF Binding
<1>2. o = OriginsOf(c, n)
  BY DEF OriginsOf
<1>3. \A d : d \in D <=> AskedIn(d, c, body, n)
  BY ONLY IsBody(body, n, V, X), AllAskedIs
<1>4. ASSUME NEW i \in 1..n, NEW k \in DOMAIN body[i][3], body[i][3][k][1] = "var"
      PROVE  body[i][3][k] = <<"var", body[i][3][k][2]>>
  <2>1. body[i][3] \in Seq(X)
    BY DEF IsBody
  <2>2. body[i][3][k] \in X
    BY <1>4, <2>1
  <2> QED BY <1>4, <2>2 DEF AreTerms
<1>5. ASSUME NEW v, NEW x
      PROVE  x \in given(v) <=> <<v, x>> \in D
  <2>1. ASSUME x \in given(v)
        PROVE  <<v, x>> \in D
    <3>1. PICK i \in 1..n : \E k \in DOMAIN body[i][3] :
              body[i][3][k] = <<"var", v>> /\ x = c[i].predicate[3][k]
      BY <2>1
    <3>2. PICK k \in DOMAIN body[i][3] : body[i][3][k] = <<"var", v>> /\ x = c[i].predicate[3][k]
      BY <3>1
    <3>3. body[i][3][k][1] = "var" /\ body[i][3][k][2] = v
      BY <3>2
    <3>4. AskedIn(<<v, x>>, c, body, n)
      BY <3>2, <3>3 DEF AskedIn
    <3> QED BY <1>3, <3>4
  <2>2. ASSUME <<v, x>> \in D
        PROVE  x \in given(v)
    <3>1. AskedIn(<<v, x>>, c, body, n)
      BY <1>3, <2>2
    <3>2. PICK i \in 1..n : \E k \in DOMAIN body[i][3] :
              body[i][3][k][1] = "var" /\ <<v, x>> = <<body[i][3][k][2], c[i].predicate[3][k]>>
      BY <3>1 DEF AskedIn
    <3>3. PICK k \in DOMAIN body[i][3] :
              body[i][3][k][1] = "var" /\ <<v, x>> = <<body[i][3][k][2], c[i].predicate[3][k]>>
      BY <3>2
    <3>4. v = body[i][3][k][2] /\ x = c[i].predicate[3][k]
      BY <3>3
    <3>5. body[i][3][k] = <<"var", v>>
      BY <1>4, <3>3, <3>4
    <3>6. i \in DOMAIN body /\ k \in {l \in DOMAIN body[i][3] : body[i][3][l] = <<"var", v>>}
      BY <3>5
    <3>7. x \in {c[i].predicate[3][l] : l \in {m \in DOMAIN body[i][3] : body[i][3][m] = <<"var", v>>}}
      BY ONLY <3>4, <3>6
    <3> QED BY ONLY <3>6, <3>7
  <2> QED BY <2>1, <2>2
<1>6. ArePairs(D, V, X)
  <2>1. n \in 0..n
    BY DEF IsBody
  <2> QED BY ONLY <2>1, IsBody(body, n, V, X), AreFacts(F, X), Chooses(c, body, n, F), AllAskedFacts
<1> HIDE DEF given
<1>7. ASSUME NEW v \in V
      PROVE  given(v) # {}
  <2>1. PICK i \in 1..n : v \in Variables(body[i][3])
    BY DEF Bound, Range
  <2>2. PICK j \in DOMAIN body[i][3] : body[i][3][j][1] = "var" /\ v = body[i][3][j][2]
    BY <2>1 DEF Variables
  <2>3. PICK x : x = c[i].predicate[3][j]
    OBVIOUS
  <2>4. AskedIn(<<v, x>>, c, body, n)
    BY <2>2, <2>3 DEF AskedIn
  <2> QED BY <1>3, <1>5, <2>4
<1>8. ASSUME NEW v \in V
      PROVE  values[v] \in given(v)
  BY <1>7
<1>9. values = [v \in V |-> values[v]]
  OBVIOUS
<1> HIDE DEF values, D, o
<1>10. \A v \in V : <<v, values[v]>> \in D
  BY <1>5, <1>8
<1>11. \A v, x : <<v, x>> \in D => v \in V /\ x \in X
  BY <1>6 DEF ArePairs
<1>12. values \in [V -> X \cup {Free}]
  BY <1>9, <1>10, <1>11
<1>13. \A v \in V, x \in X : values[v] = x <=> <<v, x>> \in D
  BY <1>10 DEF D, Consistent
<1>14. Meets(values, D, V, X)
  BY <1>6, <1>12, <1>13 DEF Meets
<1> QED BY <1>1, <1>2, <1>14 DEF D

\* What is found is all the bindings.
LEMMA BindingsAre ==
    ASSUME NEW V, NEW X, AreTerms(X), NEW body, NEW n, IsBody(body, n, V, X), DOMAIN body = 1..n,
           V = Bound(body), NEW F, AreFacts(F, X), NEW rule, rule.body = body
    PROVE  Bindings(rule, F) = Solutions(body, n, F, V, X)
<1>0. /\ AreTerms(X) /\ IsBody(body, n, V, X) /\ DOMAIN body = 1..n /\ V = Bound(body)
      /\ AreFacts(F, X) /\ n \in Nat /\ Free \notin X
  BY DEF IsBody
<1>1. \A c \in [1..n -> F] : Agree(body, c) <=> Chooses(c, body, n, F) /\ Consistent(AllAsked(c, body, n))
  BY ONLY <1>0, AgreeIs
<1>2. \A t : t \in Bindings(rule, F) <=> \E c \in [1..n -> F] : Agree(body, c) /\ t = Binding(body, c)
  BY DEF Bindings
<1>3. ASSUME NEW t \in Bindings(rule, F)
      PROVE  t \in Solutions(body, n, F, V, X)
  <2>1. PICK c \in [1..n -> F] : Agree(body, c) /\ t = Binding(body, c)
    BY <1>2, <1>3
  <2>2. Chooses(c, body, n, F) /\ Consistent(AllAsked(c, body, n))
    BY <1>1, <2>1
  <2>3. /\ t.origin = OriginsOf(c, n) /\ Meets(t.values, AllAsked(c, body, n), V, X)
        /\ t = [origin |-> t.origin, values |-> t.values]
    BY ONLY <1>0, <2>1, <2>2, BindingIs
  <2>4. PICK o, values : o = t.origin /\ values = t.values
    OBVIOUS
  <2>5. o = OriginsOf(c, n) /\ Meets(values, AllAsked(c, body, n), V, X)
    BY <2>3, <2>4
  <2>6. [origin |-> o, values |-> values] \in Solutions(body, n, F, V, X)
    BY ONLY <1>0, <2>2, <2>5, SolutionIs
  <2> QED BY <2>3, <2>4, <2>6
<1>4. ASSUME NEW s \in Solutions(body, n, F, V, X)
      PROVE  s \in Bindings(rule, F)
  <2>1. PICK c : /\ Chooses(c, body, n, F) /\ s.origin = OriginsOf(c, n)
                 /\ Meets(s.values, AllAsked(c, body, n), V, X)
    BY DEF Solutions
  <2>2. c \in [1..n -> F]
    BY <2>1 DEF Chooses
  <2>3. PICK D : D = AllAsked(c, body, n)
    OBVIOUS
  <2>4. PICK values : values = s.values
    OBVIOUS
  <2>5. Meets(values, D, V, X)
    BY <2>1, <2>3, <2>4
  <2>6. Consistent(D) /\ ArePairs(D, V, X)
    BY <2>5, MeetsConsistently DEF Meets
  <2>7. Agree(body, c) /\ Consistent(AllAsked(c, body, n))
    BY <1>1, <2>1, <2>2, <2>3, <2>6
  <2>8. PICK b : b = Binding(body, c)
    OBVIOUS
  <2>9. /\ b.origin = OriginsOf(c, n) /\ Meets(b.values, AllAsked(c, body, n), V, X)
        /\ b = [origin |-> b.origin, values |-> b.values]
    BY ONLY <1>0, <2>1, <2>7, <2>8, BindingIs
  <2>10. \A d, e : Meets(d, D, V, X) /\ Meets(e, D, V, X) => d = e
    BY ONLY <1>0, <2>6, MeetsOnce
  <2>11. b.values = s.values
    BY <2>3, <2>4, <2>5, <2>9, <2>10
  <2>12. s = [origin |-> s.origin, values |-> s.values]
    BY DEF Solutions
  <2>13. s = b
    BY ONLY <2>1, <2>9, <2>11, <2>12
  <2> QED BY <1>2, <2>2, <2>7, <2>8, <2>13
<1> QED BY <1>3, <1>4

\* The values of variables are terms, and a variable of a body has a name.
LEMMA TermsAreTerms ==
    ASSUME NEW W PROVE AreTerms(TermsOver(W))
<1>1. Free \notin TermsOver(W)
  <2> SUFFICES ASSUME Free \in TermsOver(W) PROVE FALSE
    OBVIOUS
  <2>1. PICK x : x = Free
    OBVIOUS
  <2>2. x \in TermsOver(W) /\ x \in Nodes(W, MaxNesting)
    BY <2>1, NodesNested
  <2>3. x[1] \in LeafKinds \cup {"var", "str", "set", "array", "map"}
                     \cup {"unary", "binary", "value", "closure"}
    BY ONLY <2>2, OverKinds
  <2>4. x[1] = "free"
    BY ONLY <2>1 DEF Free
  <2> QED BY ONLY <2>3, <2>4 DEF LeafKinds
<1>2. ASSUME NEW t \in TermsOver(W), t[1] = "var" PROVE t = <<"var", t[2]>>
  <2>1. t \in Nodes(W, MaxNesting)
    BY NodesNested
  <2>2. t[1] \in {"var", "str"} => t = <<t[1], t[2]>>
    BY ONLY <2>1, OverKinds
  <2> QED BY ONLY <1>2, <2>2
<1> QED BY <1>1, <1>2 DEF AreTerms

\* A rule and facts whose names are indices of one table.
LEMMA BodyFacts ==
    ASSUME NEW W, NEW K, NEW rule \in RulesIn(W, K), NEW body, body = rule.body,
           NEW n, n = Len(body), NEW V, V = Bound(body), NEW X, X = TermsOver(W)
    PROVE  /\ body \in Seq(PredicatesOver(W)) /\ DOMAIN body = 1..n
           /\ AreTerms(X) /\ IsBody(body, n, V, X)
<1>1. body \in Seq(PredicatesOver(W))
  BY RuleShape
<1>2. /\ n \in Nat /\ DOMAIN body = 1..n
      /\ \A i \in DOMAIN body : body[i] \in PredicatesOver(W) /\ body[i] \in Range(body)
  BY ONLY <1>1, n = Len(body), MappedFacts
<1>3. AreTerms(X)
  BY TermsAreTerms
<1>4. ASSUME NEW i \in 1..n
      PROVE  /\ body[i][3] \in Seq(X)
             /\ \A k \in DOMAIN body[i][3] : body[i][3][k][1] = "var" => body[i][3][k][2] \in V
  <2>1. PICK p : p = body[i]
    OBVIOUS
  <2>2. p \in PredicatesOver(W) /\ p \in Range(body)
    BY <1>2, <2>1
  <2>3. p[3] \in Seq(X)
    BY <2>2, PredicateShape
  <2>4. \A k \in DOMAIN p[3] : p[3][k][1] = "var" => p[3][k][2] \in Variables(p[3])
    BY DEF Variables
  <2>5. Variables(p[3]) \subseteq V
    BY <2>2 DEF Bound
  <2> QED BY ONLY <2>1, <2>3, <2>4, <2>5
<1> QED BY <1>1, <1>2, <1>3, <1>4 DEF IsBody, AreTerms

\* CombineIt finds all the bindings of a rule and nothing else.
LEMMA SearchFacts ==
    ASSUME NEW W, NEW K, NEW rule \in RulesIn(W, K), NEW F, AreFacts(F, TermsOver(W)),
           NEW facts \in Seq(F), F = Range(facts),
           NEW found, found = CombineIt(NewVariables(rule), rule.body, facts)
    PROVE  found \in Seq(Bindings(rule, F)) /\ Range(found) = Bindings(rule, F)
<1>1. PICK body : body = rule.body
  OBVIOUS
<1>2. PICK n, V : n = Len(body) /\ V = Bound(body)
  OBVIOUS
<1>3. PICK X, P : X = TermsOver(W) /\ P = PredicatesOver(W)
  OBVIOUS
<1>4. /\ body \in Seq(P) /\ DOMAIN body = 1..n
      /\ AreTerms(X) /\ IsBody(body, n, V, X)
  BY ONLY <1>1, <1>2, <1>3, rule \in RulesIn(W, K), BodyFacts
<1>5. AreFacts(F, X)
  BY <1>3
<1>6. PICK variables : variables = NewVariables(rule)
  OBVIOUS
<1>7. variables = [v \in V |-> Free]
  BY ONLY <1>1, <1>2, <1>6 DEF NewVariables, variables_set
<1>8. found = CombineIt(variables, body, facts)
  BY <1>1, <1>6
<1>9. /\ found \in Seq(Solutions(body, n, F, V, X))
      /\ Range(found) = Solutions(body, n, F, V, X)
  BY ONLY <1>2, <1>4, <1>5, <1>7, <1>8, facts \in Seq(F), F = Range(facts), CombineFacts
<1>10. Bindings(rule, F) = Solutions(body, n, F, V, X)
  BY ONLY <1>1, <1>2, <1>4, <1>5, BindingsAre
<1> QED BY ONLY <1>9, <1>10

\* What becomes of a solution, given what the expressions say of it.
OutcomeOf(rule, solution, result, origin) ==
    IF result = "false" THEN << >>
    ELSE IF result # "true" THEN <<Error(result)>>
    ELSE IF Instantiable(rule, solution.values)
    THEN <<Produced(rule, solution, origin)>>
    ELSE << >>

LEMMA ApplyIs ==
    ASSUME NEW rule, NEW facts, NEW origin, NEW externs, NEW symbols,
           NEW found, found = CombineIt(NewVariables(rule), rule.body, facts)
    PROVE  apply(rule, facts, origin, externs, symbols) =
               FlattenSeq([i \in DOMAIN found |->
                   OutcomeOf(rule, found[i], Test(rule, found[i].values, externs, symbols), origin)])
BY DEF apply, OutcomeOf

LEMMA ApplyFacts ==
    ASSUME NEW rule, NEW facts, NEW origin, NEW externs, NEW symbols, NEW B,
           NEW found \in Seq(B), Range(found) = B,
           found = CombineIt(NewVariables(rule), rule.body, facts),
           NEW out, out = apply(rule, facts, origin, externs, symbols)
    PROVE  /\ \E S : out \in Seq(S)
           /\ \A x : x \in Range(out) <=>
                 \E b \in B :
                    LET result == Test(rule, b.values, externs, symbols)
                    IN  \/ result \notin {"true", "false"} /\ x = Error(result)
                        \/ result = "true" /\ Instantiable(rule, b.values)
                              /\ x = Produced(rule, b, origin)
<1> DEFINE Of(b) == OutcomeOf(rule, b, Test(rule, b.values, externs, symbols), origin)
           p == [i \in 1..Len(found) |-> Of(found[i])]
           S == {Error(Test(rule, b.values, externs, symbols)) : b \in B}
                    \cup {Produced(rule, b, origin) : b \in B}
<1>1. /\ Len(found) \in Nat /\ DOMAIN found = 1..Len(found)
      /\ \A i \in 1..Len(found) : found[i] \in B
      /\ \A b : b \in B <=> \E i \in 1..Len(found) : b = found[i]
  <2>1. /\ Len(found) \in Nat /\ DOMAIN found = 1..Len(found)
        /\ \A i \in 1..Len(found) : found[i] \in B
    BY MappedFacts
  <2> QED BY <2>1, Range(found) = B DEF Range
<1>2. out = FlattenSeq(p)
  <2>1. p = [i \in DOMAIN found |->
                OutcomeOf(rule, found[i], Test(rule, found[i].values, externs, symbols), origin)]
    BY <1>1
  <2> QED BY ONLY <2>1, out = apply(rule, facts, origin, externs, symbols),
                  found = CombineIt(NewVariables(rule), rule.body, facts), ApplyIs
<1>3. ASSUME NEW b \in B
      PROVE  /\ Of(b) \in Seq(S)
             /\ \A x : x \in Range(Of(b)) <=>
                    \/ /\ Test(rule, b.values, externs, symbols) \notin {"true", "false"}
                       /\ x = Error(Test(rule, b.values, externs, symbols))
                    \/ /\ Test(rule, b.values, externs, symbols) = "true"
                       /\ Instantiable(rule, b.values) /\ x = Produced(rule, b, origin)
  <2>1. PICK r, e, q : /\ r = Test(rule, b.values, externs, symbols) /\ e = Error(r)
                       /\ q = Produced(rule, b, origin)
    OBVIOUS
  <2>2. e \in S /\ q \in S
    BY <2>1
  <2> HIDE DEF S
  <2>3. Of(b) = IF r = "false" THEN << >> ELSE IF r # "true" THEN <<e>>
                ELSE IF Instantiable(rule, b.values) THEN <<q>> ELSE << >>
    BY ONLY <2>1 DEF OutcomeOf, Of
  <2>4. /\ \A y : Range(<<y>>) = {y}
        /\ Range(<< >>) = {}
    BY DEF Range
  <2>5. << >> \in Seq(S) /\ <<e>> \in Seq(S) /\ <<q>> \in Seq(S)
    BY ONLY <2>2
  <2>6. PICK o : o = Of(b)
    OBVIOUS
  <2>7. /\ o \in Seq(S)
        /\ \A x : x \in Range(o) <=>
               \/ r \notin {"true", "false"} /\ x = e
               \/ r = "true" /\ Instantiable(rule, b.values) /\ x = q
    <3> HIDE DEF Of
    <3>1. CASE r = "false"
      BY ONLY <2>3, <2>4, <2>5, <2>6, <3>1
    <3>2. CASE r \notin {"true", "false"}
      BY ONLY <2>3, <2>4, <2>5, <2>6, <3>2
    <3>3. CASE r = "true"
      BY ONLY <2>3, <2>4, <2>5, <2>6, <3>3
    <3> QED BY ONLY <3>1, <3>2, <3>3
  <2> HIDE DEF Of
  <2> QED BY ONLY <2>1, <2>6, <2>7
<1> HIDE DEF Of, S
<1>4. p \in [1..Len(found) -> Seq(S)]
  BY <1>1, <1>3
<1>5. \A i \in 1..Len(found) : p[i] = Of(found[i])
  OBVIOUS
<1> HIDE DEF p
<1>6. /\ FlattenSeq(p) \in Seq(S)
      /\ \A x : x \in Range(FlattenSeq(p)) <=> \E i \in 1..Len(found) : x \in Range(p[i])
  BY ONLY <1>1, <1>4, FlattenFacts
<1>7. \A x : x \in Range(out) <=> \E b \in B : x \in Range(Of(b))
  <2> SUFFICES ASSUME NEW x PROVE x \in Range(out) <=> \E b \in B : x \in Range(Of(b))
    OBVIOUS
  <2>1. ASSUME x \in Range(out) PROVE \E b \in B : x \in Range(Of(b))
    <3>1. PICK i \in 1..Len(found) : x \in Range(p[i])
      BY ONLY <1>2, <1>6, <2>1
    <3>2. x \in Range(Of(found[i])) /\ found[i] \in B
      BY ONLY <1>1, <1>5, <3>1
    <3> QED BY ONLY <3>2
  <2>2. ASSUME NEW b \in B, x \in Range(Of(b)) PROVE x \in Range(out)
    <3>1. PICK i \in 1..Len(found) : b = found[i]
      BY ONLY <1>1, <2>2
    <3>2. x \in Range(p[i])
      BY ONLY <1>5, <2>2, <3>1
    <3> QED BY ONLY <1>2, <1>6, <3>2
  <2> QED BY ONLY <2>1, <2>2
<1>8. out \in Seq(S)
  BY ONLY <1>2, <1>6
<1> QED BY ONLY <1>3, <1>7, <1>8

\* The facts of a rule.
LEMMA RuleAnswer ==
    ASSUME NEW rule, NEW facts, NEW F, NEW found \in Seq(Bindings(rule, F)),
           Range(found) = Bindings(rule, F),
           found = CombineIt(NewVariables(rule), rule.body, facts)
    PROVE  Range(apply(rule, facts, MyOrigin, Externs, loaded.symbols)) = Expected(rule, F)
<1>1. PICK B : B = Bindings(rule, F)
  OBVIOUS
<1>2. PICK origin, externs, symbols :
          origin = MyOrigin /\ externs = Externs /\ symbols = loaded.symbols
  OBVIOUS
<1>3. PICK out : out = apply(rule, facts, origin, externs, symbols)
  OBVIOUS
<1>4. found \in Seq(B) /\ Range(found) = B
  BY <1>1
<1>5. \A x : x \in Range(out) <=>
         \E b \in B :
            LET result == Test(rule, b.values, externs, symbols)
            IN  \/ result \notin {"true", "false"} /\ x = Error(result)
                \/ result = "true" /\ Instantiable(rule, b.values)
                      /\ x = Produced(rule, b, origin)
  BY ONLY <1>3, <1>4, found = CombineIt(NewVariables(rule), rule.body, facts), ApplyFacts
<1>6. Errors(rule, F) = {Test(rule, b.values, externs, symbols) : b \in B} \ {"true", "false"}
  BY ONLY <1>1, <1>2 DEF Errors, Verdicts
<1>7. Expected(rule, F) =
          {Produced(rule, b, origin) :
              b \in {c \in B : /\ Instantiable(rule, c.values)
                               /\ Test(rule, c.values, externs, symbols) = "true"}}
              \cup {Error(e) : e \in Errors(rule, F)}
  BY ONLY <1>1, <1>2 DEF Expected
<1>8. ASSUME NEW x \in Range(out) PROVE x \in Expected(rule, F)
  <2>1. PICK b \in B :
            LET result == Test(rule, b.values, externs, symbols)
            IN  \/ result \notin {"true", "false"} /\ x = Error(result)
                \/ result = "true" /\ Instantiable(rule, b.values)
                      /\ x = Produced(rule, b, origin)
    BY ONLY <1>5, <1>8
  <2>2. PICK result : result = Test(rule, b.values, externs, symbols)
    OBVIOUS
  <2>3. CASE result \notin {"true", "false"}
    <3>1. x = Error(result) /\ result \in Errors(rule, F)
      BY ONLY <1>6, <2>1, <2>2, <2>3
    <3> QED BY ONLY <1>7, <3>1
  <2>4. CASE result \in {"true", "false"}
    <3>1. /\ x = Produced(rule, b, origin) /\ Instantiable(rule, b.values)
          /\ Test(rule, b.values, externs, symbols) = "true"
      BY ONLY <2>1, <2>2, <2>4
    <3>2. b \in {c \in B : /\ Instantiable(rule, c.values)
                           /\ Test(rule, c.values, externs, symbols) = "true"}
      BY ONLY <3>1, b \in B
    <3> QED BY ONLY <1>7, <3>1, <3>2
  <2> QED BY <2>3, <2>4
<1>9. ASSUME NEW x \in Expected(rule, F) PROVE x \in Range(out)
  <2>1. CASE x \in {Error(e) : e \in Errors(rule, F)}
    <3>1. PICK e \in Errors(rule, F) : x = Error(e)
      BY ONLY <2>1
    <3>2. PICK b \in B : e = Test(rule, b.values, externs, symbols) /\ e \notin {"true", "false"}
      BY ONLY <1>6, <3>1
    <3> QED BY ONLY <1>5, <3>1, <3>2
  <2>2. CASE x \notin {Error(e) : e \in Errors(rule, F)}
    <3>1. PICK b \in {c \in B : /\ Instantiable(rule, c.values)
                                /\ Test(rule, c.values, externs, symbols) = "true"} :
              x = Produced(rule, b, origin)
      BY ONLY <1>7, <1>9, <2>2
    <3>2. /\ b \in B /\ Instantiable(rule, b.values)
          /\ Test(rule, b.values, externs, symbols) = "true"
      BY ONLY <3>1
    <3> QED BY ONLY <1>5, <3>1, <3>2
  <2> QED BY <2>1, <2>2
<1> QED BY ONLY <1>2, <1>3, <1>8, <1>9

\* A sequence has an element unless it is empty.
LEMMA FirstFacts ==
    ASSUME NEW S, NEW s \in Seq(S)
    PROVE  /\ s = << >> <=> Range(s) = {}
           /\ s # << >> => Head(s) \in Range(s)
<1>1. s # << >> => 1 \in DOMAIN s /\ Head(s) = s[1]
  OBVIOUS
<1>2. s = << >> => DOMAIN s = {}
  OBVIOUS
<1> QED BY ONLY <1>1, <1>2 DEF Range

\* Whether a query of a check or a policy holds.
LEMMA FindAnswer ==
    ASSUME NEW rule, rule.head = << >>, NEW facts, NEW F, NEW found \in Seq(Bindings(rule, F)),
           Range(found) = Bindings(rule, F),
           found = CombineIt(NewVariables(rule), rule.body, facts), NEW kind, kind # "check all"
    PROVE  find_match(rule, facts, Externs, loaded.symbols) \in Possible(kind, rule, F)
<1>1. PICK B : B = Bindings(rule, F)
  OBVIOUS
<1>2. PICK externs, symbols : externs = Externs /\ symbols = loaded.symbols
  OBVIOUS
<1>3. PICK out : out = apply(rule, facts, 0, externs, symbols)
  OBVIOUS
<1>4. found \in Seq(B) /\ Range(found) = B
  BY <1>1
<1>5. PICK S : out \in Seq(S)
  BY ONLY <1>3, <1>4, found = CombineIt(NewVariables(rule), rule.body, facts), ApplyFacts
<1>6. \A x : x \in Range(out) <=>
         \E b \in B :
            LET result == Test(rule, b.values, externs, symbols)
            IN  \/ result \notin {"true", "false"} /\ x = Error(result)
                \/ result = "true" /\ Instantiable(rule, b.values)
                      /\ x = Produced(rule, b, 0)
  BY ONLY <1>3, <1>4, found = CombineIt(NewVariables(rule), rule.body, facts), ApplyFacts
<1>7. \A values : Instantiable(rule, values)
  <2>1. HeadTerms(rule) = << >>
    BY DEF HeadTerms
  <2>2. PICK s : s = << >>
    OBVIOUS
  <2>3. Range(s) = {}
    <3>1. s \in Seq({})
      BY ONLY <2>2
    <3> QED BY ONLY <2>2, <3>1, FirstFacts
  <2> QED BY <2>1, <2>2, <2>3 DEF Instantiable
<1>8. PICK V : V = Verdicts(rule, F)
  OBVIOUS
<1>9. V = {Test(rule, b.values, externs, symbols) : b \in B}
  BY ONLY <1>1, <1>2, <1>8 DEF Verdicts
<1>10. \A e : Error(e).result = e
  BY DEF Error
<1>11. \A b : Produced(rule, b, 0).result = "true"
  BY DEF Produced
<1>12. \A x \in Range(out) : x.result \in V /\ x.result # "false"
  <2> SUFFICES ASSUME NEW x \in Range(out) PROVE x.result \in V /\ x.result # "false"
    OBVIOUS
  <2>1. PICK b \in B :
            LET result == Test(rule, b.values, externs, symbols)
            IN  \/ result \notin {"true", "false"} /\ x = Error(result)
                \/ result = "true" /\ Instantiable(rule, b.values)
                      /\ x = Produced(rule, b, 0)
    BY ONLY <1>6, x \in Range(out)
  <2>2. PICK result : result = Test(rule, b.values, externs, symbols)
    OBVIOUS
  <2>3. result \in V
    BY ONLY <1>9, <2>2
  <2>4. x.result = result /\ result # "false"
    BY ONLY <1>10, <1>11, <2>1, <2>2
  <2> QED BY ONLY <2>3, <2>4
<1>13. ASSUME NEW v \in V, v # "false" PROVE Range(out) # {}
  <2>1. PICK b \in B : v = Test(rule, b.values, externs, symbols)
    BY ONLY <1>9, <1>13
  <2>2. CASE v = "true"
    BY ONLY <1>6, <1>7, <2>1, <2>2
  <2>3. CASE v # "true"
    BY ONLY <1>6, <1>13, <2>1, <2>3
  <2> QED BY <2>2, <2>3
<1>14. out = << >> <=> Range(out) = {}
  BY ONLY <1>5, FirstFacts
<1>15. find_match(rule, facts, Externs, loaded.symbols) =
           IF out = << >> THEN "false" ELSE Head(out).result
  BY ONLY <1>2, <1>3 DEF find_match
<1>16. Possible(kind, rule, F) =
           IF V = {} THEN {"false"}
           ELSE IF V \ {"true", "false"} # {} THEN V \ ({"true", "false"} \ {"true"})
           ELSE IF "true" \in V THEN {"true"} ELSE V
  BY ONLY <1>8, kind # "check all" DEF Possible
<1>17. CASE out = << >>
  <2>1. \A v \in V : v = "false"
    BY ONLY <1>13, <1>14, <1>17
  <2> QED BY ONLY <1>15, <1>16, <1>17, <2>1
<1>18. CASE out # << >>
  <2>1. PICK r : r = Head(out).result
    OBVIOUS
  <2>2. r \in V /\ r # "false"
    <3>1. Head(out) \in Range(out)
      BY ONLY <1>5, <1>18, FirstFacts
    <3> QED BY ONLY <1>12, <2>1, <3>1
  <2> QED BY ONLY <1>15, <1>16, <1>18, <2>1, <2>2
<1> QED BY <1>17, <1>18

LEMMA AllAnswer ==
    ASSUME NEW rule, NEW facts, NEW F, NEW found \in Seq(Bindings(rule, F)),
           Range(found) = Bindings(rule, F),
           found = CombineIt(NewVariables(rule), rule.body, facts)
    PROVE  check_match_all(rule, facts, Externs, loaded.symbols) \in Possible("check all", rule, F)
<1>1. PICK B : B = Bindings(rule, F)
  OBVIOUS
<1>2. PICK externs, symbols : externs = Externs /\ symbols = loaded.symbols
  OBVIOUS
<1>3. PICK results : results = [i \in DOMAIN found |-> Test(rule, found[i].values, externs, symbols)]
  OBVIOUS
<1>4. PICK others : others = {i \in DOMAIN results : results[i] # "true"}
  OBVIOUS
<1>5. /\ Len(found) \in Nat /\ DOMAIN found = 1..Len(found)
      /\ \A b : b \in B <=> \E i \in DOMAIN found : b = found[i]
  <2>1. Len(found) \in Nat /\ DOMAIN found = 1..Len(found)
    BY MappedFacts
  <2> QED BY <1>1, <2>1, Range(found) = Bindings(rule, F) DEF Range
<1>6. check_match_all(rule, facts, Externs, loaded.symbols) =
          IF results = << >> THEN "false" ELSE IF others = {} THEN "true"
          ELSE results[CHOOSE i \in others : \A j \in others : i <= j]
  BY ONLY <1>2, <1>3, <1>4, found = CombineIt(NewVariables(rule), rule.body, facts)
     DEF check_match_all
<1>7. PICK V : V = Verdicts(rule, F)
  OBVIOUS
<1>8. V = {Test(rule, b.values, externs, symbols) : b \in B}
  BY ONLY <1>1, <1>2, <1>7 DEF Verdicts
<1>9. /\ DOMAIN results = DOMAIN found
      /\ \A i \in DOMAIN results : results[i] \in V
      /\ \A v \in V : \E i \in DOMAIN results : v = results[i]
  <2>1. DOMAIN results = DOMAIN found
    BY ONLY <1>3
  <2>2. \A i \in DOMAIN found : results[i] = Test(rule, found[i].values, externs, symbols)
    BY ONLY <1>3
  <2>3. \A i \in DOMAIN found : found[i] \in B
    BY ONLY <1>5
  <2>4. ASSUME NEW i \in DOMAIN found PROVE results[i] \in V
    BY ONLY <1>8, <2>2, <2>3
  <2>5. ASSUME NEW v \in V PROVE \E i \in DOMAIN found : v = results[i]
    <3>1. PICK b \in B : v = Test(rule, b.values, externs, symbols)
      BY ONLY <1>8
    <3>2. PICK i \in DOMAIN found : b = found[i]
      BY ONLY <1>5
    <3> QED BY ONLY <2>2, <3>1, <3>2
  <2> QED BY ONLY <2>1, <2>4, <2>5
<1>10. results = << >> <=> V = {}
  <2>1. results = << >> => DOMAIN results = {}
    OBVIOUS
  <2>2. DOMAIN results = {} => results = << >>
    BY ONLY <1>3
  <2> QED BY ONLY <1>9, <2>1, <2>2
<1>11. Possible("check all", rule, F) =
           IF V = {} THEN {"false"}
           ELSE IF V \ {"true", "false"} # {} THEN V \ ({"true", "false"} \ {"false"})
           ELSE IF "false" \in V THEN {"false"} ELSE V
  BY ONLY <1>7 DEF Possible
<1>12. CASE others = {}
  <2>1. \A v \in V : v = "true"
    BY ONLY <1>4, <1>9, <1>12
  <2> QED BY ONLY <1>6, <1>10, <1>11, <1>12, <2>1
<1>13. CASE others # {}
  <2>1. others \subseteq Nat
    BY ONLY <1>4, <1>5, <1>9
  <2>2. \E i \in others : \A j \in others : i <= j
    BY ONLY <1>13, <2>1, LeastNumber
  <2>3. PICK k : k = CHOOSE i \in others : \A j \in others : i <= j
    OBVIOUS
  <2>4. k \in others
    BY ONLY <2>2, <2>3
  <2>5. results[k] \in V /\ results[k] # "true"
    BY ONLY <1>4, <1>9, <2>4
  <2>6. results # << >>
    BY ONLY <1>10, <2>5
  <2>7. check_match_all(rule, facts, Externs, loaded.symbols) = results[k]
    BY ONLY <1>6, <1>13, <2>3, <2>6
  <2> QED BY ONLY <1>11, <2>5, <2>7
<1> QED BY <1>12, <1>13

LEMMA RangeIsFinite ==
    ASSUME NEW S, NEW s \in Seq(S)
    PROVE  IsFiniteSet(Range(s))
<1>1. Len(s) \in Nat /\ DOMAIN s = 1..Len(s)
  BY LenProperties
<1>2. PICK D : D = 1..Len(s)
  OBVIOUS
<1>3. IsFiniteSet(D) /\ DOMAIN s = D
  BY ONLY <1>1, <1>2, FS_Interval
<1>4. IsFiniteSet({s[i] : i \in D})
  BY ONLY <1>3, ImageIsFinite
<1>5. Range(s) = {s[i] : i \in D}
  BY ONLY <1>3 DEF Range
<1> QED BY ONLY <1>4, <1>5

\* The facts of a finite set in any order.
LEMMA OrderFacts ==
    ASSUME NEW S, IsFiniteSet(S), NEW s \in [1..Cardinality(S) -> S]
    PROVE  s \in Seq(Range(s)) /\ Range(s) \subseteq S
<1>1. PICK n : n = Cardinality(S)
  OBVIOUS
<1>2. n \in Nat
  BY ONLY <1>1, IsFiniteSet(S), FS_CardinalityType
<1>3. s \in [1..n -> S]
  BY ONLY <1>1, s \in [1..Cardinality(S) -> S]
<1>4. s \in [1..n -> Range(s)] /\ Range(s) \subseteq S
  BY ONLY <1>3 DEF Range
<1>5. s \in Seq(Range(s))
  BY ONLY <1>2, <1>4
<1> QED BY ONLY <1>4, <1>5

\* The names of the facts of the other blocks are in the table before anything
\* is loaded.
LEMMA OthersNamed ==
    ASSUME NEW fact \in Range(TokenFacts)
    PROVE  /\ fact[2] \in PredicatesOver(STRING)
           /\ PredicateNames(fact[2]) \subseteq Range(LoadedSymbols)
<1>1. PICK F : F = [i \in DOMAIN TokenFacts |-> <<"fact", TokenFacts[i][2]>>]
  OBVIOUS
<1>2. /\ Len(TokenFacts) \in Nat /\ DOMAIN TokenFacts = 1..Len(TokenFacts)
      /\ \A i \in DOMAIN TokenFacts : TokenFacts[i] \in Nat \X PredicatesOver(STRING)
  BY TokenAssumption
<1>3. F \in Seq(StatementsOver(STRING, STRING))
  <2>1. ASSUME NEW i \in DOMAIN TokenFacts
        PROVE  <<"fact", TokenFacts[i][2]>> \in StatementsOver(STRING, STRING)
    <3>1. TokenFacts[i][2] \in PredicatesOver(STRING)
      BY <1>2
    <3> QED BY <3>1 DEF StatementsOver
  <2> QED BY <1>1, <1>2, <2>1
<1>4. << >> \in Seq(ScopesOver(STRING))
  OBVIOUS
<1>5. AllWords(F) \in Seq(STRING) /\ Range(AllWords(F)) = NamesOf(F)
  BY ONLY <1>3, <1>4, NamesOfFacts
<1>6. Range(LoadedSymbols) = NamesOf(F)
  <2>1. Range(Once(AllWords(F))) = Range(AllWords(F))
    BY ONLY <1>5, OnceFacts
  <2> QED BY ONLY <1>1, <1>5, <2>1 DEF LoadedSymbols
<1>7. PICK i \in DOMAIN TokenFacts : fact = TokenFacts[i]
  BY DEF Range
<1>8. fact[2] \in PredicatesOver(STRING)
  BY <1>2, <1>7
<1>9. PICK s : s = <<"fact", fact[2]>>
  OBVIOUS
<1>10. s \in Range(F)
  BY ONLY <1>1, <1>7, <1>9 DEF Range
<1>11. StatementNames(s) = PredicateNames(fact[2])
  BY ONLY <1>9 DEF StatementNames, StatementWords, PredicateNames
<1>12. StatementNames(s) \subseteq NamesOf(F)
  BY ONLY <1>10 DEF NamesOf
<1> QED BY ONLY <1>6, <1>8, <1>11, <1>12

OwnFacts ==
    {[origin |-> {MyOrigin}, predicate |-> s[2]] :
        s \in {x \in Range(loaded.statements) : x[1] = "fact"}}
OtherFacts ==
    {[origin |-> {fact[1]}, predicate |-> TranslatePredicate(fact[2], IndexIn(loaded.symbols))] :
        fact \in Range(TokenFacts)}

LEMMA KnownIs ==
    /\ KnownFacts = OwnFacts \cup (IF stage = "reloaded" THEN {} ELSE OtherFacts)
    /\ Relevant \subseteq KnownFacts
<1>1. KnownFacts = OwnFacts \cup (IF stage = "reloaded" THEN {} ELSE OtherFacts)
  BY DEF KnownFacts, OwnFacts, OtherFacts
<1>2. Relevant \subseteq KnownFacts
  BY DEF Relevant
<1> QED BY <1>1, <1>2

LEMMA KnownFinite ==
    ASSUME Usable(loaded)
    PROVE  IsFiniteSet(KnownFacts)
<1>1. PICK o, f : o = MyOrigin /\ f = IndexIn(loaded.symbols)
  OBVIOUS
<1>2. IsFiniteSet(OwnFacts)
  <2>1. PICK X : X = Range(loaded.statements)
    OBVIOUS
  <2>2. IsFiniteSet(X)
    BY <2>1, RangeIsFinite DEF Usable
  <2>3. PICK S : S = {x \in X : x[1] = "fact"}
    OBVIOUS
  <2>4. IsFiniteSet(S)
    <3>1. S \in SUBSET X
      BY ONLY <2>3
    <3> QED BY ONLY <2>2, <3>1, FS_Subset
  <2>5. PICK h : h = [s \in S |-> [origin |-> {o}, predicate |-> s[2]]]
    OBVIOUS
  <2>6. DOMAIN h = S
    BY ONLY <2>5
  <2>7. IsFiniteSet({h[s] : s \in S})
    BY ONLY <2>4, <2>6, ImageIsFinite
  <2>8. OwnFacts = {h[s] : s \in S}
    <3>1. \A s \in S : h[s] = [origin |-> {o}, predicate |-> s[2]]
      BY ONLY <2>5
    <3>2. OwnFacts = {[origin |-> {o}, predicate |-> s[2]] : s \in S}
      BY ONLY <1>1, <2>1, <2>3 DEF OwnFacts
    <3> QED BY ONLY <3>1, <3>2
  <2> QED BY ONLY <2>7, <2>8
<1>3. IsFiniteSet(OtherFacts)
  <2>1. PICK X : X = Range(TokenFacts)
    OBVIOUS
  <2>2. IsFiniteSet(X)
    BY <2>1, RangeIsFinite, TokenAssumption
  <2>3. PICK h : h = [fact \in X |-> [origin |-> {fact[1]}, predicate |-> TranslatePredicate(fact[2], f)]]
    OBVIOUS
  <2>4. DOMAIN h = X
    BY ONLY <2>3
  <2>5. IsFiniteSet({h[x] : x \in X})
    BY ONLY <2>2, <2>4, ImageIsFinite
  <2>6. OtherFacts = {h[x] : x \in X}
    <3>1. \A fact \in X : h[fact] = [origin |-> {fact[1]}, predicate |-> TranslatePredicate(fact[2], f)]
      BY ONLY <2>3
    <3>2. OtherFacts = {[origin |-> {fact[1]}, predicate |-> TranslatePredicate(fact[2], f)] : fact \in X}
      BY ONLY <1>1, <2>1 DEF OtherFacts
    <3> QED BY ONLY <3>1, <3>2
  <2> QED BY ONLY <2>5, <2>6
<1>4. IsFiniteSet(OwnFacts \cup OtherFacts)
  BY <1>2, <1>3, FS_Union
<1>5. KnownFacts \in SUBSET (OwnFacts \cup OtherFacts)
  BY KnownIs
<1> QED BY ONLY <1>4, <1>5, FS_Subset

LEMMA KnownTyped ==
    ASSUME Usable(loaded), stage # "reloaded" => Knows(loaded, LoadedSymbols)
    PROVE  AreFacts(KnownFacts, TermsOver(DOMAIN loaded.symbols))
<1>1. PICK T, W : T = loaded.symbols /\ W = DOMAIN T
  OBVIOUS
<1>2. PICK K : K = DOMAIN loaded.keys
  OBVIOUS
<1>3. T \in Seq(STRING) /\ loaded.statements \in Seq(StatementsOver(W, K))
  BY <1>1, <1>2 DEF Usable
<1>4. \A p \in PredicatesOver(W) : p[3] \in Seq(TermsOver(W))
  BY PredicateShape
<1>5. ASSUME NEW x \in OwnFacts PROVE x.predicate[3] \in Seq(TermsOver(W))
  <2>1. PICK s \in Range(loaded.statements) : s[1] = "fact" /\ x.predicate = s[2]
    BY <1>5 DEF OwnFacts
  <2>2. s \in StatementsOver(W, K)
    BY <1>3, <2>1, MappedFacts
  <2>3. s[2] \in PredicatesOver(W)
    BY ONLY <2>1, <2>2, StatementShape
  <2> QED BY ONLY <1>4, <2>1, <2>3
<1>6. ASSUME NEW x \in OtherFacts, stage # "reloaded" PROVE x.predicate[3] \in Seq(TermsOver(W))
  <2>1. PICK fact \in Range(TokenFacts) : x.predicate = TranslatePredicate(fact[2], IndexIn(T))
    BY <1>1, <1>6 DEF OtherFacts
  <2>2. PICK p, f : p = fact[2] /\ f = IndexIn(T)
    OBVIOUS
  <2>3. p \in PredicatesOver(STRING) /\ PredicateNames(p) \subseteq Range(LoadedSymbols)
    BY ONLY <2>1, <2>2, OthersNamed
  <2>4. PredicateNames(p) \in SUBSET Range(T)
    BY <1>1, <1>6, <2>3 DEF Knows
  <2>5. Suits(PredicateNames(p), f, W)
    <3>1. Suits(PredicateNames(p), IndexIn(T), DOMAIN T)
      BY ONLY <1>3, <2>4, IndexSuits
    <3> QED BY ONLY <1>1, <2>2, <3>1
  <2>6. TranslatePredicate(p, f) \in PredicatesOver(W)
    BY ONLY <2>3, <2>5, TranslatePredicateType
  <2> QED BY ONLY <1>4, <2>1, <2>2, <2>6
<1>7. \A x \in KnownFacts : x \in OwnFacts \/ (x \in OtherFacts /\ stage # "reloaded")
  BY KnownIs
<1> QED BY <1>1, <1>5, <1>6, <1>7 DEF AreFacts

LEMMA AnswerOfRule ==
    ASSUME NEW W, NEW K, NEW rule \in RulesIn(W, K), NEW F, AreFacts(F, TermsOver(W)),
           NEW facts \in Seq(F), F = Range(facts)
    PROVE  /\ Range(apply(rule, facts, MyOrigin, Externs, loaded.symbols)) = Expected(rule, F)
           /\ \A kind : rule.head = << >> /\ kind # "check all" =>
                 find_match(rule, facts, Externs, loaded.symbols) \in Possible(kind, rule, F)
           /\ check_match_all(rule, facts, Externs, loaded.symbols) \in Possible("check all", rule, F)
<1>1. PICK found : found = CombineIt(NewVariables(rule), rule.body, facts)
  OBVIOUS
<1>2. found \in Seq(Bindings(rule, F)) /\ Range(found) = Bindings(rule, F)
  BY ONLY <1>1, rule \in RulesIn(W, K), AreFacts(F, TermsOver(W)), facts \in Seq(F),
     F = Range(facts), SearchFacts
<1>3. Range(apply(rule, facts, MyOrigin, Externs, loaded.symbols)) = Expected(rule, F)
  BY ONLY <1>1, <1>2, RuleAnswer
<1>4. ASSUME NEW kind, rule.head = << >>, kind # "check all"
      PROVE  find_match(rule, facts, Externs, loaded.symbols) \in Possible(kind, rule, F)
  BY ONLY <1>1, <1>2, <1>4, FindAnswer
<1>5. check_match_all(rule, facts, Externs, loaded.symbols) \in Possible("check all", rule, F)
  BY ONLY <1>1, <1>2, AllAnswer
<1> QED BY ONLY <1>3, <1>4, <1>5

\* The answers of a statement are what its bindings say.
IsAnswer(s, result, F) ==
    /\ s[1] = "rule" => Range(result) = Expected(s[2], F)
    /\ IsQuery(s) => \A q \in DOMAIN s[3] : result[q] \in Possible(s[2], s[3][q], F)

LEMMA AnswerFacts ==
    ASSUME NEW W, NEW K, NEW s \in StatementsOver(W, K), NEW F, AreFacts(F, TermsOver(W)),
           NEW facts \in Seq(F), F = Range(facts)
    PROVE  IsAnswer(s, Answer(s, facts), F)
<1>1. /\ s[1] = "rule" => s[2] \in RulesOver(W, K)
      /\ IsQuery(s) => s[3] \in Seq(QueriesOver(W, K))
  BY StatementShape DEF IsQuery
<1>2. ASSUME NEW r \in RulesIn(W, K)
      PROVE  /\ Range(apply(r, facts, MyOrigin, Externs, loaded.symbols)) = Expected(r, F)
             /\ \A kind : r.head = << >> /\ kind # "check all" =>
                   find_match(r, facts, Externs, loaded.symbols) \in Possible(kind, r, F)
             /\ check_match_all(r, facts, Externs, loaded.symbols) \in Possible("check all", r, F)
  BY ONLY r \in RulesIn(W, K), AreFacts(F, TermsOver(W)), facts \in Seq(F), F = Range(facts),
     AnswerOfRule, ZenonT(60)
<1>3. ASSUME s[1] = "rule"
      PROVE  Range(Answer(s, facts)) = Expected(s[2], F)
  <2>1. s[2] \in RulesIn(W, K)
    BY <1>1, <1>3 DEF RulesIn
  <2>2. Answer(s, facts) = apply(s[2], facts, MyOrigin, Externs, loaded.symbols)
    BY ONLY <1>3 DEF Answer
  <2> QED BY ONLY <1>2, <2>1, <2>2
<1>4. ASSUME IsQuery(s), NEW q \in DOMAIN s[3]
      PROVE  Answer(s, facts)[q] \in Possible(s[2], s[3][q], F)
  <2>1. PICK r, kind : r = s[3][q] /\ kind = s[2]
    OBVIOUS
  <2>2. r \in QueriesOver(W, K)
    BY <1>1, <1>4, <2>1, MappedFacts
  <2>3. r \in RulesIn(W, K)
    BY ONLY <2>2 DEF RulesIn
  <2>4. r.head = << >>
    BY ONLY <2>2, <2>3, RuleShape
  <2>5. Answer(s, facts)[q] =
            IF kind = "check all" THEN check_match_all(r, facts, Externs, loaded.symbols)
            ELSE find_match(r, facts, Externs, loaded.symbols)
    <3>1. s[1] \in {"check", "policy"} /\ s[1] # "rule"
      BY ONLY <1>4 DEF IsQuery
    <3>2. Answer(s, facts) =
              [i \in DOMAIN s[3] |->
                  IF kind = "check all" THEN check_match_all(s[3][i], facts, Externs, loaded.symbols)
                  ELSE find_match(s[3][i], facts, Externs, loaded.symbols)]
      BY ONLY <2>1, <3>1 DEF Answer
    <3> QED BY ONLY <1>4, <2>1, <3>2
  <2>6. CASE kind = "check all"
    BY ONLY <1>2, <2>1, <2>3, <2>5, <2>6
  <2>7. CASE kind # "check all"
    BY ONLY <1>2, <2>1, <2>3, <2>4, <2>5, <2>7
  <2> QED BY <2>6, <2>7
<1> QED BY <1>3, <1>4 DEF IsAnswer

\* AnswersCombineBindings with what it depends on as arguments.
VerdictsOf(rule, F, externs, symbols) ==
    {Test(rule, b.values, externs, symbols) : b \in Bindings(rule, F)}
ExpectedOf(rule, F, origin, externs, symbols) ==
    {Produced(rule, b, origin) :
        b \in {c \in Bindings(rule, F) :
                  /\ Instantiable(rule, c.values)
                  /\ Test(rule, c.values, externs, symbols) = "true"}}
        \cup {Error(e) : e \in VerdictsOf(rule, F, externs, symbols) \ {"true", "false"}}
PossibleOf(kind, rule, F, externs, symbols) ==
    LET found == VerdictsOf(rule, F, externs, symbols)
        decisive == IF kind = "check all" THEN "false" ELSE "true"
    IN  IF found = {} THEN {"false"}
        ELSE IF found \ {"true", "false"} # {} THEN found \ ({"true", "false"} \ {decisive})
        ELSE IF decisive \in found THEN {decisive}
        ELSE found
Answered(statements, facts, results, origin, externs, symbols) ==
    \A i \in DOMAIN statements :
        LET s == statements[i]
        IN  /\ s[1] = "rule" => Range(results[i]) = ExpectedOf(s[2], Range(facts), origin, externs, symbols)
            /\ IsQuery(s) =>
                  \A q \in DOMAIN s[3] :
                      results[i][q] \in PossibleOf(s[2], s[3][q], Range(facts), externs, symbols)

LEMMA AnsweredIs ==
    AnswersCombineBindings <=>
        (stage = "answered" => Answered(loaded.statements, walked, answers,
                                        MyOrigin, Externs, loaded.symbols))
BY Zenon DEF AnswersCombineBindings, Answered, Expected, ExpectedOf, Possible, PossibleOf, Verdicts,
   VerdictsOf, Errors

LEMMA AnsweredIsAfter ==
    AnswersCombineBindings' <=>
        (stage' = "answered" => Answered(loaded'.statements, walked', answers',
                                         MyOrigin', Externs', loaded'.symbols))
BY Zenon DEF AnswersCombineBindings, Answered, Expected, ExpectedOf, Possible, PossibleOf, Verdicts,
   VerdictsOf, Errors

LEMMA AllAnswered ==
    ASSUME Usable(loaded), stage # "reloaded" => Knows(loaded, LoadedSymbols),
           NEW facts \in [1..Cardinality(Relevant) -> Relevant],
           NEW results, results = [i \in DOMAIN loaded.statements |->
                                      Answer(loaded.statements[i], facts)]
    PROVE  Answered(loaded.statements, facts, results, MyOrigin, Externs, loaded.symbols)
<1>1. PICK W, K, F : W = DOMAIN loaded.symbols /\ K = DOMAIN loaded.keys /\ F = Range(facts)
  OBVIOUS
<1>2. IsFiniteSet(Relevant)
  <2>1. IsFiniteSet(KnownFacts)
    BY KnownFinite
  <2>2. Relevant \in SUBSET KnownFacts
    BY ONLY KnownIs
  <2> QED BY ONLY <2>1, <2>2, FS_Subset
<1>3. facts \in Seq(F) /\ F \subseteq Relevant
  <2>1. facts \in Seq(Range(facts)) /\ Range(facts) \subseteq Relevant
    BY ONLY <1>2, facts \in [1..Cardinality(Relevant) -> Relevant], OrderFacts
  <2> QED BY ONLY <1>1, <2>1
<1>4. AreFacts(F, TermsOver(W))
  <2>1. AreFacts(KnownFacts, TermsOver(W))
    BY <1>1, KnownTyped
  <2>2. F \subseteq KnownFacts
    BY ONLY <1>3, KnownIs
  <2> QED BY ONLY <2>1, <2>2 DEF AreFacts
<1>5. loaded.statements \in Seq(StatementsOver(W, K))
  BY <1>1 DEF Usable
<1>6. ASSUME NEW i \in DOMAIN loaded.statements
      PROVE  IsAnswer(loaded.statements[i], results[i], F)
  <2>1. PICK s : s = loaded.statements[i]
    OBVIOUS
  <2>2. s \in StatementsOver(W, K)
    BY ONLY <1>5, <2>1, MappedFacts
  <2>3. IsAnswer(s, Answer(s, facts), F)
    BY ONLY <1>1, <1>3, <1>4, <2>2, AnswerFacts
  <2>4. results[i] = Answer(s, facts)
    BY <2>1
  <2> QED BY ONLY <2>1, <2>3, <2>4
<1>7. /\ \A r : Expected(r, F) = ExpectedOf(r, F, MyOrigin, Externs, loaded.symbols)
      /\ \A kind, r : Possible(kind, r, F) = PossibleOf(kind, r, F, Externs, loaded.symbols)
  BY ONLY DEF Expected, ExpectedOf, Possible, PossibleOf, Verdicts, VerdictsOf, Errors
<1> QED BY ONLY <1>1, <1>6, <1>7 DEF Answered, IsAnswer

LEMMA RunOnceStep ==
    ASSUME PathInv, RunOnce, ~Panics(builder) PROVE AnswersCombineBindings'
<1>1. /\ stage \in {"loaded", "reloaded"} /\ stage' = "answered"
      /\ target' = target /\ builder' = builder /\ loaded' = loaded
  BY DEF RunOnce, Use
<1>2. Usable(loaded) /\ (stage # "reloaded" => Knows(loaded, LoadedSymbols))
  BY <1>1 DEF PathInv, IsLoaded
<1>3. PICK facts \in [1..Cardinality(Relevant) -> Relevant] :
          /\ walked' = facts
          /\ answers' = [i \in DOMAIN loaded.statements |-> Answer(loaded.statements[i], facts)]
  BY DEF RunOnce
<1>4. PICK results : results = [i \in DOMAIN loaded.statements |-> Answer(loaded.statements[i], facts)]
  OBVIOUS
<1>5. Answered(loaded.statements, facts, results, MyOrigin, Externs, loaded.symbols)
  BY ONLY <1>2, <1>4, facts \in [1..Cardinality(Relevant) -> Relevant], AllAnswered
<1>6. MyOrigin' = MyOrigin /\ Externs' = Externs
  BY <1>1 DEF MyOrigin, Externs, Authority, ThisBlock, TheAuthorizer
<1>7. walked' = facts /\ answers' = results
  BY ONLY <1>3, <1>4
<1>8. Answered(loaded'.statements, walked', answers',
               MyOrigin', Externs', loaded'.symbols)
  BY ONLY <1>1, <1>5, <1>6, <1>7
<1> QED BY ONLY <1>8, AnsweredIsAfter

LEMMA NoAnswerStep ==
    ASSUME Edit \/ Travel \/ (RunOnce /\ Panics(builder)) PROVE AnswersCombineBindings'
<1>1. stage' # "answered"
  BY DEF RunOnce, Use, Edit, Travel, BuildBlock, Serialize, Deserialize, Load, BuildAuthorizer, Save, Snapshot, Restore
<1> QED BY ONLY <1>1, AnsweredIsAfter

\* Everything that happens to a block that is run happens to it on its way.
THEOREM RunImplementsPath == RunSpec => PathSpec
<1>1. StartRun => Start
  BY DEF StartRun
<1>2. [StepRun]_run => [Edit \/ Travel \/ Use]_way
  BY DEF StepRun, RunOnce, run
<1> QED BY <1>1, <1>2, PTL DEF RunSpec, PathSpec

\* Rule::apply, find_match and check_match_all: whatever the builder was told and
\* the other blocks say, whatever the expressions may be, and in whatever order
\* the facts are walked, the facts of a rule are those of all the bindings that its
\* expressions accept, and a query is decided by the bindings alone.
THEOREM AnswersCombineBindingsHolds == RunSpec => []AnswersCombineBindings
<1>1. StartRun => AnswersCombineBindings
  BY DEF StartRun, Start, AnswersCombineBindings
<1>2. PathInv /\ AnswersCombineBindings /\ [StepRun]_run => AnswersCombineBindings'
  <2> SUFFICES ASSUME PathInv, AnswersCombineBindings, [StepRun]_run PROVE AnswersCombineBindings'
    OBVIOUS
  <2>1. CASE StepRun
    BY <2>1, RunOnceStep, NoAnswerStep DEF StepRun
  <2>2. CASE UNCHANGED run
    <3>1. /\ target' = target /\ builder' = builder /\ stage' = stage
          /\ loaded' = loaded /\ walked' = walked /\ answers' = answers
      BY <2>2 DEF run, way
    <3>2. MyOrigin' = MyOrigin /\ Externs' = Externs
      BY <3>1 DEF MyOrigin, Externs, Authority, ThisBlock, TheAuthorizer
    <3>3. stage = "answered" => Answered(loaded.statements, walked, answers,
                                         MyOrigin, Externs, loaded.symbols)
      BY ONLY AnswersCombineBindings, AnsweredIs
    <3>4. stage' = "answered" => Answered(loaded'.statements, walked', answers',
                                          MyOrigin', Externs', loaded'.symbols)
      BY ONLY <3>1, <3>2, <3>3
    <3> QED BY ONLY <3>4, AnsweredIsAfter
  <2> QED BY <2>1, <2>2
<1>3. RunSpec => []PathInv
  BY RunImplementsPath, PathInvHolds, PTL
<1> QED BY <1>1, <1>2, <1>3, PTL DEF RunSpec
===============================================================================
