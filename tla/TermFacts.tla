------------------------------ MODULE TermFacts -------------------------------
(* Lemmas about terms and operations for every bound on their nesting: what    *)
(* they hold, by induction on the levels of which they are made, the names in  *)
(* them, and what is kept of one whose names are replaced by indices and back, *)
(* or that is sent and read.                                                   *)
EXTENDS BlockPathProperties, SequenceFacts

-----------------------------------------------------------------------------
(* The levels of terms and operations.                                         *)

LevelsFrom(W, g) ==
    [n \in 0..MaxNesting |-> IF n = 0 THEN [terms |-> {}, ops |-> {}] ELSE Above(W, g[n - 1])]

LEMMA LevelsAre ==
    ASSUME NEW W
    PROVE  Levels(W) = LevelsFrom(W, Levels(W))
<1> DEFINE Zero == [terms |-> {}, ops |-> {}]
           From(g, n) == [i \in 0..n |-> IF i = 0 THEN Zero ELSE Above(W, g[i - 1])]
           T == {n \in Nat : \E g : g = From(g, n)}
<1> HIDE DEF Zero
<1>1. 0 \in T
  <2> DEFINE g == [i \in 0..0 |-> Zero]
  <2>1. g = From(g, 0)
    OBVIOUS
  <2> QED BY <2>1
<1>2. ASSUME NEW n \in Nat, n \in T
      PROVE  n + 1 \in T
  <2>1. PICK g : g = From(g, n)
    BY <1>2
  <2> DEFINE h == [i \in 0..(n + 1) |-> IF i = 0 THEN Zero ELSE Above(W, g[i - 1])]
  <2>2. \A i \in 0..n : h[i] = g[i]
    BY <2>1
  <2>3. \A i \in 0..(n + 1) : i # 0 => i - 1 \in 0..n
    OBVIOUS
  <2>4. h = From(h, n + 1)
    BY <2>2, <2>3
  <2> HIDE DEF h
  <2>5. \E k : k = From(k, n + 1)
    BY <2>4
  <2> QED BY <2>5
<1> HIDE DEF T
<1>3. MaxNesting \in T
  BY <1>1, <1>2, NumberInduction, NestingAssumption
<1>4. \E g : g = LevelsFrom(W, g)
  BY <1>3 DEF T, LevelsFrom, Zero
<1>5. Levels(W) = CHOOSE g : g = LevelsFrom(W, g)
  BY DEF Levels, LevelsFrom
<1> QED BY <1>4, <1>5

Level(W, n) == Levels(W)[n]
Nodes(W, n) == Level(W, n).terms \cup Level(W, n).ops

LEMMA LevelFacts ==
    ASSUME NEW W
    PROVE  /\ Level(W, 0) = [terms |-> {}, ops |-> {}]
           /\ \A n \in Nat : n < MaxNesting => Level(W, n + 1) = Above(W, Level(W, n))
<1>1. Levels(W) = LevelsFrom(W, Levels(W))
  BY LevelsAre
<1>2. /\ 0 \in 0..MaxNesting
      /\ \A n \in Nat : n < MaxNesting => n + 1 \in 0..MaxNesting /\ n + 1 # 0 /\ (n + 1) - 1 = n
  BY NestingAssumption
<1> QED BY <1>1, <1>2 DEF Level, LevelsFrom

FixedTerms ==
    ({"int"} \X Int) \cup ({"param"} \X STRING) \cup ({"date"} \X Int)
        \cup ({"bytes"} \X Seq(Int)) \cup ({"bool"} \X BOOLEAN) \cup {Null}
FixedOps == ({"unary"} \X UnaryNames) \cup ({"binary"} \X BinaryNames)
Named(W) == {"var", "str"} \X W
Calls(W) == {"unary", "binary"} \X {"Ffi"} \X W
Sets(below) == {"set"} \X FiniteSubsets(below.terms)
Arrays(below) == {"array"} \X Seq(below.terms)
Maps(W, below) == {"map"} \X FiniteMaps(MapKeys(W), below.terms)
Held(below) == {"value"} \X below.terms
Closures(W, below) == {"closure"} \X Seq(W) \X Seq(below.ops)

LEMMA NodesAbove ==
    ASSUME NEW W, NEW below
    PROVE  /\ Above(W, below).terms = FixedTerms \cup Named(W) \cup Sets(below) \cup Arrays(below)
                                         \cup Maps(W, below)
           /\ Above(W, below).ops = FixedOps \cup Calls(W) \cup Held(below) \cup Closures(W, below)
  BY Zenon DEF Above, FixedTerms, FixedOps, Named, Calls, Sets, Arrays, Maps, Held, Closures,
     Leaves, MapKeys, Operators

\* The first element of a term or an operation, its kind.
LeafKinds == {"int", "param", "date", "bytes", "bool", "null"}

LEMMA Kinds ==
    ASSUME NEW W, NEW below, NEW y
    PROVE  /\ y \in FixedTerms => y[1] \in LeafKinds
           /\ y \in FixedOps => y[1] \in {"unary", "binary"} /\ y = <<y[1], y[2]>> /\ y[2] # "Ffi"
           /\ y \in Named(W) => y[1] \in {"var", "str"} /\ y = <<y[1], y[2]>> /\ y[2] \in W
           /\ y \in Calls(W) => /\ y[1] \in {"unary", "binary"}
                                /\ y = <<y[1], y[2], y[3]>> /\ y[2] = "Ffi" /\ y[3] \in W
           /\ y \in Sets(below) => /\ y[1] = "set" /\ y = <<y[1], y[2]>>
                                   /\ y[2] \subseteq below.terms /\ IsFiniteSet(y[2])
           /\ y \in Arrays(below) => /\ y[1] = "array" /\ y = <<y[1], y[2]>>
                                     /\ y[2] \in Seq(below.terms)
           /\ y \in Maps(W, below) => /\ y[1] = "map" /\ y = <<y[1], y[2]>>
                                      /\ y[2] \subseteq MapKeys(W) \X below.terms
                                      /\ IsFiniteSet(y[2])
                                      /\ \A d, e \in y[2] : d[1] = e[1] => d = e
           /\ y \in Held(below) => y[1] = "value" /\ y = <<y[1], y[2]>> /\ y[2] \in below.terms
           /\ y \in Closures(W, below) => /\ y[1] = "closure" /\ y = <<y[1], y[2], y[3]>>
                                          /\ y[2] \in Seq(W) /\ y[3] \in Seq(below.ops)
<1>1. y \in FixedTerms => y[1] \in LeafKinds
  BY DEF FixedTerms, LeafKinds, Null
<1>2. y \in FixedOps => y[1] \in {"unary", "binary"} /\ y = <<y[1], y[2]>> /\ y[2] # "Ffi"
  BY DEF FixedOps, UnaryNames, BinaryNames
<1>3. y \in Named(W) => y[1] \in {"var", "str"} /\ y = <<y[1], y[2]>> /\ y[2] \in W
  BY DEF Named
<1>4. y \in Calls(W) => /\ y[1] \in {"unary", "binary"}
                        /\ y = <<y[1], y[2], y[3]>> /\ y[2] = "Ffi" /\ y[3] \in W
  BY DEF Calls
<1>5. y \in Sets(below) => /\ y[1] = "set" /\ y = <<y[1], y[2]>>
                           /\ y[2] \subseteq below.terms /\ IsFiniteSet(y[2])
  BY DEF Sets, FiniteSubsets
<1>6. y \in Arrays(below) => y[1] = "array" /\ y = <<y[1], y[2]>> /\ y[2] \in Seq(below.terms)
  BY DEF Arrays
<1>7. y \in Maps(W, below) => /\ y[1] = "map" /\ y = <<y[1], y[2]>>
                              /\ y[2] \subseteq MapKeys(W) \X below.terms /\ IsFiniteSet(y[2])
                              /\ \A d, e \in y[2] : d[1] = e[1] => d = e
  <2>1. ASSUME y \in Maps(W, below)
        PROVE  y[1] = "map" /\ y = <<y[1], y[2]>> /\ y[2] \in FiniteMaps(MapKeys(W), below.terms)
    BY <2>1 DEF Maps
  <2> QED BY <2>1 DEF FiniteMaps, FiniteSubsets
<1>8. y \in Held(below) => y[1] = "value" /\ y = <<y[1], y[2]>> /\ y[2] \in below.terms
  BY DEF Held
<1>9. y \in Closures(W, below) => /\ y[1] = "closure" /\ y = <<y[1], y[2], y[3]>>
                                  /\ y[2] \in Seq(W) /\ y[3] \in Seq(below.ops)
  BY DEF Closures
<1> QED BY <1>1, <1>2, <1>3, <1>4, <1>5, <1>6, <1>7, <1>8, <1>9

\* Larger sets of names and of what is below make larger ones.
LEMMA SeqGrows ==
    ASSUME NEW A, NEW B, A \subseteq B
    PROVE  Seq(A) \subseteq Seq(B)
  OBVIOUS

LEMMA AboveGrows ==
    ASSUME NEW V, NEW W, V \subseteq W, NEW a, NEW b,
           a.terms \subseteq b.terms, a.ops \subseteq b.ops
    PROVE  /\ Above(V, a).terms \subseteq Above(W, b).terms
           /\ Above(V, a).ops \subseteq Above(W, b).ops
<1>1. Named(V) \subseteq Named(W) /\ Calls(V) \subseteq Calls(W)
  BY DEF Named, Calls
<1>2. FiniteSubsets(a.terms) \subseteq FiniteSubsets(b.terms)
  BY DEF FiniteSubsets
<1>3. Sets(a) \subseteq Sets(b)
  BY <1>2 DEF Sets
<1>4. Arrays(a) \subseteq Arrays(b)
  BY SeqGrows DEF Arrays
<1>5. MapKeys(V) \X a.terms \subseteq MapKeys(W) \X b.terms
  BY DEF MapKeys
<1>6. Maps(V, a) \subseteq Maps(W, b)
  <2>1. FiniteMaps(MapKeys(V), a.terms) \subseteq FiniteMaps(MapKeys(W), b.terms)
    BY <1>5 DEF FiniteMaps, FiniteSubsets
  <2> QED BY <2>1 DEF Maps
<1>7. Held(a) \subseteq Held(b)
  BY DEF Held
<1>8. Seq(V) \subseteq Seq(W) /\ Seq(a.ops) \subseteq Seq(b.ops)
  BY SeqGrows
<1>9. Closures(V, a) \subseteq Closures(W, b)
  BY <1>8 DEF Closures
<1> QED BY <1>1, <1>3, <1>4, <1>6, <1>7, <1>9, NodesAbove

LEMMA LevelsGrow ==
    ASSUME NEW W, NEW n \in Nat, n < MaxNesting
    PROVE  /\ Level(W, n).terms \subseteq Level(W, n + 1).terms
           /\ Level(W, n).ops \subseteq Level(W, n + 1).ops
<1> DEFINE T == {k \in Nat : k < MaxNesting => /\ Level(W, k).terms \subseteq Level(W, k + 1).terms
                                               /\ Level(W, k).ops \subseteq Level(W, k + 1).ops}
<1>1. 0 \in T
  BY LevelFacts
<1>2. ASSUME NEW k \in Nat, k \in T
      PROVE  k + 1 \in T
  <2>1. CASE k + 1 < MaxNesting
    <3>1. k < MaxNesting
      BY <2>1, NestingAssumption
    <3>2. Level(W, k + 1) = Above(W, Level(W, k))
      BY <3>1, LevelFacts
    <3>3. Level(W, (k + 1) + 1) = Above(W, Level(W, k + 1))
      BY <2>1, LevelFacts, k + 1 \in Nat
    <3>4. ASSUME NEW a, NEW b, a.terms \subseteq b.terms, a.ops \subseteq b.ops
          PROVE  /\ Above(W, a).terms \subseteq Above(W, b).terms
                 /\ Above(W, a).ops \subseteq Above(W, b).ops
      BY <3>4, AboveGrows
    <3>5. /\ Above(W, Level(W, k)).terms \subseteq Above(W, Level(W, k + 1)).terms
          /\ Above(W, Level(W, k)).ops \subseteq Above(W, Level(W, k + 1)).ops
      BY <1>2, <3>1, <3>4
    <3> QED BY <3>2, <3>3, <3>5
  <2> QED BY <2>1
<1> HIDE DEF T
<1>3. n \in T
  BY <1>1, <1>2, NumberInduction
<1> QED BY <1>3 DEF T

\* The levels are within the last one.
LEMMA LevelsWithin ==
    ASSUME NEW W
    PROVE  \A n \in Nat : n <= MaxNesting => /\ Level(W, n).terms \subseteq TermsOver(W)
                                             /\ Level(W, n).ops \subseteq OpsOver(W)
<1> DEFINE In(n) == /\ Level(W, n).terms \subseteq TermsOver(W)
                    /\ Level(W, n).ops \subseteq OpsOver(W)
           T == {k \in Nat : k <= MaxNesting => In(MaxNesting - k)}
<1>1. 0 \in T
  <2>1. MaxNesting - 0 = MaxNesting
    BY NestingAssumption
  <2> QED BY <2>1 DEF Level, TermsOver, OpsOver
<1>2. ASSUME NEW k \in Nat, k \in T
      PROVE  k + 1 \in T
  <2>1. CASE k + 1 <= MaxNesting
    <3>1. /\ MaxNesting - (k + 1) \in Nat /\ MaxNesting - (k + 1) < MaxNesting
          /\ (MaxNesting - (k + 1)) + 1 = MaxNesting - k /\ k <= MaxNesting
      BY <2>1, NestingAssumption
    <3>2. In(MaxNesting - k)
      BY <1>2, <3>1
    <3> HIDE DEF In
    <3>3. /\ Level(W, MaxNesting - (k + 1)).terms \subseteq Level(W, MaxNesting - k).terms
          /\ Level(W, MaxNesting - (k + 1)).ops \subseteq Level(W, MaxNesting - k).ops
      BY <3>1, LevelsGrow
    <3> QED BY <3>2, <3>3 DEF In
  <2> QED BY <2>1
<1> HIDE DEF T
<1>3. \A k \in Nat : k \in T
  BY <1>1, <1>2, NumberInduction
<1>4. ASSUME NEW n \in Nat, n <= MaxNesting
      PROVE  In(n)
  <2>1. MaxNesting - n \in Nat /\ MaxNesting - (MaxNesting - n) = n /\ MaxNesting - n <= MaxNesting
    BY <1>4, NestingAssumption
  <2>2. MaxNesting - n \in T
    BY <1>3, <2>1
  <2> QED BY <2>1, <2>2 DEF T
<1> QED BY <1>4

-----------------------------------------------------------------------------
(* What is right below a term or an operation.                                 *)

\* A finite set is listed with all its elements.
LEMMA ListedFacts ==
    ASSUME NEW S, IsFiniteSet(S)
    PROVE  Listed(S) \in Seq(S) /\ Range(Listed(S)) = S
<1> DEFINE n == Cardinality(S)
<1>1. n \in Nat /\ \E f : f \in Bijection(1..n, S)
  BY FS_CardinalityType DEF ExistsBijection
<1>2. \E f \in [1..n -> S] : IsInjective(f)
  BY <1>1 DEF Bijection, Injection, IsInjective
<1>3. Listed(S) \in [1..n -> S] /\ IsInjective(Listed(S))
  BY <1>2 DEF Listed, SetToSeq
<1>4. IsFiniteSet(1..n) /\ Cardinality(1..n) = n
  BY <1>1, FS_Interval
<1>5. Listed(S) \in Surjection(1..n, S)
  <2>1. Listed(S) \in Injection(1..n, S)
    BY <1>3 DEF Injection
  <2> QED BY <1>4, <2>1, FS_Injection
<1>6. Listed(S) \in Seq(S)
  BY <1>1, <1>3, SeqDef
<1> QED BY <1>3, <1>5, <1>6 DEF Range, Surjection

\* The kinds of terms and operations of one level more.
Shape(W, n, y) ==
    \/ y \in FixedTerms \/ y \in FixedOps \/ y \in Named(W) \/ y \in Calls(W)
    \/ y \in Sets(Level(W, n)) \/ y \in Arrays(Level(W, n)) \/ y \in Maps(W, Level(W, n))
    \/ y \in Held(Level(W, n)) \/ y \in Closures(W, Level(W, n))

LEMMA Shapes ==
    ASSUME NEW W, NEW n \in Nat, n < MaxNesting
    PROVE  /\ \A y : y \in Nodes(W, n + 1) <=> Shape(W, n, y)
           /\ \A y : y \in Level(W, n + 1).terms <=>
                        \/ y \in FixedTerms \/ y \in Named(W) \/ y \in Sets(Level(W, n))
                        \/ y \in Arrays(Level(W, n)) \/ y \in Maps(W, Level(W, n))
           /\ \A y : y \in Level(W, n + 1).ops <=>
                        \/ y \in FixedOps \/ y \in Calls(W) \/ y \in Held(Level(W, n))
                        \/ y \in Closures(W, Level(W, n))
<1>1. Level(W, n + 1) = Above(W, Level(W, n))
  BY LevelFacts
<1>2. Level(W, n + 1).terms = FixedTerms \cup Named(W) \cup Sets(Level(W, n))
                                 \cup Arrays(Level(W, n)) \cup Maps(W, Level(W, n))
  BY <1>1, NodesAbove
<1>3. Level(W, n + 1).ops = FixedOps \cup Calls(W) \cup Held(Level(W, n))
                               \cup Closures(W, Level(W, n))
  BY <1>1, NodesAbove
<1> QED BY <1>2, <1>3 DEF Nodes, Shape

LEMMA NodesOfZero ==
    ASSUME NEW W
    PROVE  Nodes(W, 0) = {}
BY LevelFacts DEF Nodes

\* The keys of a map are terms, if there are any.
LEMMA KeysAreTerms ==
    ASSUME NEW W, NEW n \in Nat, n < MaxNesting, Level(W, n).terms # {}
    PROVE  MapKeys(W) \subseteq Level(W, n).terms
<1>1. n # 0
  BY LevelFacts
<1>2. n - 1 \in Nat /\ (n - 1) + 1 = n /\ n - 1 < MaxNesting
  BY <1>1, NestingAssumption
<1>3. \A y : y \in FixedTerms \/ y \in Named(W) => y \in Level(W, n).terms
  BY <1>2, Shapes
<1>4. MapKeys(W) \subseteq FixedTerms \cup Named(W)
  BY DEF MapKeys, FixedTerms, Named
<1> QED BY <1>3, <1>4

\* The keys and the values of a map.
LEMMA EntriesOfMap ==
    ASSUME NEW K, NEW T, NEW S \in SUBSET (K \X T), IsFiniteSet(S)
    PROVE  /\ FlattenSeq(Listed(S)) \in Seq(K \cup T)
           /\ Range(FlattenSeq(Listed(S))) = UNION {{e[1], e[2]} : e \in S}
<1> DEFINE l == Listed(S)
<1>1. l \in Seq(S) /\ Range(l) = S
  BY ListedFacts
<1>2. ASSUME NEW e \in S
      PROVE  e \in Seq(K \cup T) /\ Range(e) = {e[1], e[2]}
  <2>1. PICK k \in K, t \in T : e = <<k, t>>
    OBVIOUS
  <2>2. e \in Seq(K \cup T) /\ Len(e) = 2
    BY <2>1
  <2> QED BY <2>1, <2>2 DEF Range
<1> HIDE DEF l
<1>3. l \in Seq(Seq(K \cup T))
  <2>1. S \subseteq Seq(K \cup T)
    BY <1>2
  <2> QED BY <1>1, <2>1, SeqGrows
<1>4. /\ FlattenSeq(l) \in Seq(K \cup T)
      /\ Range(FlattenSeq(l)) = UNION {Range(l[i]) : i \in 1..Len(l)}
  BY <1>3, FlattenType, FlattenRange
<1>5. UNION {Range(l[i]) : i \in 1..Len(l)} = UNION {{e[1], e[2]} : e \in S}
  <2>1. \A i \in 1..Len(l) : l[i] \in S /\ Range(l[i]) = {l[i][1], l[i][2]}
    BY <1>1, <1>2
  <2>2. \A e \in S : \E i \in 1..Len(l) : e = l[i]
    BY <1>1 DEF Range
  <2>3. ASSUME NEW z
        PROVE  z \in UNION {Range(l[i]) : i \in 1..Len(l)} <=> z \in UNION {{e[1], e[2]} : e \in S}
    <3>1. z \in UNION {Range(l[i]) : i \in 1..Len(l)} <=>
             \E i \in 1..Len(l) : z \in {l[i][1], l[i][2]}
      BY <2>1
    <3>2. z \in UNION {{e[1], e[2]} : e \in S} <=> \E e \in S : z \in {e[1], e[2]}
      OBVIOUS
    <3> QED BY <2>1, <2>2, <3>1, <3>2
  <2> QED BY <2>3
<1> QED BY <1>4, <1>5 DEF l

\* They are of one level less, terms below a term, and all of them are there.
LEMMA PartsFacts ==
    ASSUME NEW W, NEW n \in Nat, n < MaxNesting, NEW y \in Nodes(W, n + 1)
    PROVE  /\ Parts(y) \in Seq(Nodes(W, n))
           /\ y \in Level(W, n + 1).terms => Parts(y) \in Seq(Level(W, n).terms)
           /\ y[1] = "set" => Range(Parts(y)) = y[2]
           /\ y[1] = "map" => Range(Parts(y)) = UNION {{e[1], e[2]} : e \in y[2]}
<1> DEFINE t == Level(W, n).terms
           o == Level(W, n).ops
<1>0. Seq(t) \subseteq Seq(Nodes(W, n)) /\ Seq(o) \subseteq Seq(Nodes(W, n))
  BY SeqGrows DEF Nodes
<1>1. << >> \in Seq(t)
  BY EmptySeq
<1>2. ASSUME NEW z \in Level(W, n + 1).terms
      PROVE  z[1] \notin {"value", "closure"}
  <2>1. \/ z \in FixedTerms \/ z \in Named(W) \/ z \in Sets(Level(W, n))
        \/ z \in Arrays(Level(W, n)) \/ z \in Maps(W, Level(W, n))
    BY Shapes
  <2>2. z[1] \in LeafKinds \cup {"var", "str", "set", "array", "map"}
    BY <2>1, Kinds
  <2> QED BY <2>2 DEF LeafKinds
<1> USE DEF Parts
<1>3. CASE y \in FixedTerms \/ y \in FixedOps \/ y \in Named(W) \/ y \in Calls(W)
  <2>1. y[1] \notin {"set", "array", "map", "value", "closure"}
    BY <1>3, Kinds DEF LeafKinds
  <2> QED BY <1>0, <1>1, <2>1
<1>4. CASE y \in Sets(Level(W, n))
  <2>1. y[1] = "set" /\ y[2] \subseteq t /\ IsFiniteSet(y[2])
    BY <1>4, Kinds
  <2>2. Parts(y) = Listed(y[2]) /\ Listed(y[2]) \in Seq(y[2]) /\ Range(Listed(y[2])) = y[2]
    BY <2>1, ListedFacts
  <2>3. Seq(y[2]) \subseteq Seq(t)
    BY <2>1, SeqGrows
  <2> QED BY <1>0, <2>1, <2>2, <2>3
<1>5. CASE y \in Arrays(Level(W, n))
  <2>1. y[1] = "array" /\ y[2] \in Seq(t)
    BY <1>5, Kinds
  <2> QED BY <1>0, <2>1
<1>6. CASE y \in Maps(W, Level(W, n))
  <2>1. y[1] = "map" /\ y[2] \subseteq MapKeys(W) \X t /\ IsFiniteSet(y[2])
    BY <1>6, Kinds
  <2>2. /\ FlattenSeq(Listed(y[2])) \in Seq(MapKeys(W) \cup t)
        /\ Range(FlattenSeq(Listed(y[2]))) = UNION {{e[1], e[2]} : e \in y[2]}
    BY <2>1, EntriesOfMap
  <2>3. CASE t = {}
    <3>1. y[2] = {}
      BY <2>1, <2>3
    <3>2. Listed({}) \in Seq({})
      BY <2>1, <3>1, ListedFacts
    <3>3. Listed({}) = << >>
      BY <3>2
    <3>4. FlattenSeq(Listed(y[2])) = << >>
      BY <3>1, <3>3, FlattenOfEmpty
    <3> QED BY <1>0, <1>1, <2>1, <2>2, <3>4
  <2>4. CASE t # {}
    <3>1. MapKeys(W) \cup t \subseteq t
      BY <2>4, KeysAreTerms
    <3>2. Seq(MapKeys(W) \cup t) \subseteq Seq(t)
      BY <3>1, SeqGrows
    <3> QED BY <1>0, <2>1, <2>2, <3>2
  <2> QED BY <2>3, <2>4
<1>7. CASE y \in Held(Level(W, n))
  <2>1. y[1] = "value" /\ y[2] \in t
    BY <1>7, Kinds
  <2>2. <<y[2]>> \in Seq(t)
    <3>1. Options(t) \subseteq Seq(t)
      BY OptionsType
    <3> QED BY <2>1, <3>1 DEF Options
  <2> QED BY <1>0, <1>2, <2>1, <2>2
<1>8. CASE y \in Closures(W, Level(W, n))
  <2>1. y[1] = "closure" /\ y[3] \in Seq(o)
    BY <1>8, Kinds
  <2> QED BY <1>0, <1>2, <2>1
<1>9. Shape(W, n, y)
  BY Shapes
<1> QED BY <1>3, <1>4, <1>5, <1>6, <1>7, <1>8, <1>9 DEF Shape

-----------------------------------------------------------------------------
(* What is in a term or an operation at any depth. P gives what is right below *)
(* each element of U, and level n of L holds what is nested n times at most.   *)

Nested(U, P, L) ==
    /\ P \in [U -> SUBSET U]
    /\ L[0] = {} /\ L[MaxNesting] = U
    /\ \A n \in Nat : n < MaxNesting =>
          L[n] \subseteq L[n + 1] /\ \A y \in L[n + 1] : y \in U /\ P[y] \subseteq L[n]

\* One step from what is near x.
Step(near, U, P) ==
    \A n \in Nat : n < MaxNesting /\ near[n] \subseteq U =>
        near[n + 1] = near[n] \cup UNION {P[y] : y \in near[n]}

LEMMA NearExists ==
    ASSUME NEW U, NEW P \in [U -> SUBSET U], NEW x \in U
    PROVE  \E near : /\ near \in [0..MaxNesting -> SUBSET U]
                     /\ near[0] = {x}
                     /\ Step(near, U, P)
<1> DEFINE Good(near, k) ==
               /\ near \in [0..k -> SUBSET U] /\ near[0] = {x}
               /\ \A n \in Nat : n < k => near[n + 1] = near[n] \cup UNION {P[y] : y \in near[n]}
           T == {k \in Nat : \E near : Good(near, k)}
<1>1. 0 \in T
  <2>1. Good([i \in 0..0 |-> {x}], 0)
    OBVIOUS
  <2> QED BY <2>1
<1>2. ASSUME NEW k \in Nat, k \in T
      PROVE  k + 1 \in T
  <2>1. PICK near : Good(near, k)
    BY <1>2
  <2> DEFINE next == near[k] \cup UNION {P[y] : y \in near[k]}
             further == [i \in 0..(k + 1) |-> IF i = k + 1 THEN next ELSE near[i]]
  <2>2. near[k] \in SUBSET U
    BY <2>1
  <2>3. next \in SUBSET U
    BY <2>2
  <2> HIDE DEF next
  <2>4. further \in [0..(k + 1) -> SUBSET U] /\ further[0] = {x}
    BY <2>1, <2>3
  <2>5. \A n \in Nat : n < k + 1 => further[n] = near[n]
    OBVIOUS
  <2>6. \A n \in Nat : n < k => further[n + 1] = near[n + 1]
    OBVIOUS
  <2>7. further[k + 1] = next
    OBVIOUS
  <2> HIDE DEF further
  <2>8. ASSUME NEW n \in Nat, n < k + 1
        PROVE  further[n + 1] = further[n] \cup UNION {P[y] : y \in further[n]}
    <3>1. CASE n = k
      BY <2>5, <2>7, <2>8, <3>1 DEF next
    <3>2. CASE n < k
      BY <2>1, <2>5, <2>6, <2>8, <3>2
    <3> QED BY <2>8, <3>1, <3>2
  <2>9. Good(further, k + 1)
    BY <2>4, <2>8
  <2> HIDE DEF Good
  <2> QED BY <2>9
<1> HIDE DEF T
<1>3. MaxNesting \in T
  BY <1>1, <1>2, NumberInduction, NestingAssumption
<1> QED BY <1>3 DEF T, Step

\* What is near in the end is x and what is below it, and nothing else.
LEMMA NearFacts ==
    ASSUME NEW U, NEW P, NEW L, Nested(U, P, L), NEW x \in U,
           NEW near, near[0] = {x}, Step(near, U, P)
    PROVE  /\ x \in near[MaxNesting] /\ near[MaxNesting] \subseteq U
           /\ \A y \in near[MaxNesting] : P[y] \subseteq near[MaxNesting]
           /\ \A C : x \in C /\ (\A y \in C \cap U : P[y] \subseteq C) => near[MaxNesting] \subseteq C
<1> DEFINE Deep(n) == \A y \in near[n] : P[y] \subseteq near[n] \/ y \in L[MaxNesting - n]
           Small(n) == \A C : x \in C /\ (\A y \in C \cap U : P[y] \subseteq C) => near[n] \subseteq C
           Fine(n) == x \in near[n] /\ near[n] \subseteq U /\ Deep(n) /\ Small(n)
           T == {n \in Nat : n <= MaxNesting => Fine(n)}
<1>0. P \in [U -> SUBSET U] /\ L[0] = {} /\ L[MaxNesting] = U
  BY DEF Nested
<1>1. 0 \in T
  <2>1. MaxNesting - 0 = MaxNesting
    BY NestingAssumption
  <2> QED BY <1>0, <2>1
<1>2. ASSUME NEW n \in Nat, n \in T
      PROVE  n + 1 \in T
  <2> SUFFICES ASSUME n + 1 <= MaxNesting
               PROVE  Fine(n + 1)
    OBVIOUS
  <2>1. n <= MaxNesting /\ n < MaxNesting
    BY NestingAssumption
  <2>2. Fine(n)
    BY <1>2, <2>1
  <2>3. near[n + 1] = near[n] \cup UNION {P[y] : y \in near[n]}
    BY <2>1, <2>2 DEF Step
  <2>4. x \in near[n + 1] /\ near[n + 1] \subseteq U
    BY <1>0, <2>2, <2>3
  <2>5. ASSUME NEW C, x \in C, \A y \in C \cap U : P[y] \subseteq C
        PROVE  near[n + 1] \subseteq C
    <3>1. near[n] \subseteq C \cap U
      BY <2>2, <2>5
    <3> QED BY <2>3, <2>5, <3>1
  <2>6. ASSUME NEW y \in near[n + 1], ~(P[y] \subseteq near[n + 1])
        PROVE  y \in L[MaxNesting - (n + 1)]
    <3>1. y \notin near[n]
      BY <2>3, <2>6
    <3>2. PICK z \in near[n] : y \in P[z]
      BY <2>3, <3>1
    <3>3. z \in L[MaxNesting - n]
      BY <2>2, <3>1, <3>2
    <3>4. /\ MaxNesting - (n + 1) \in Nat /\ MaxNesting - (n + 1) < MaxNesting
          /\ (MaxNesting - (n + 1)) + 1 = MaxNesting - n
      BY <2>1, NestingAssumption
    <3>5. \A m \in Nat : m < MaxNesting => \A q \in L[m + 1] : P[q] \subseteq L[m]
      BY DEF Nested
    <3>6. \A q \in L[MaxNesting - n] : P[q] \subseteq L[MaxNesting - (n + 1)]
      BY <3>4, <3>5
    <3> QED BY <3>2, <3>3, <3>6
  <2> QED BY <2>4, <2>5, <2>6
<1> HIDE DEF T
<1>3. Fine(MaxNesting)
  <2>1. MaxNesting \in T /\ MaxNesting <= MaxNesting
    BY <1>1, <1>2, NumberInduction, NestingAssumption
  <2> QED BY <2>1 DEF T
<1>4. L[MaxNesting - MaxNesting] = {}
  <2>1. MaxNesting - MaxNesting = 0
    BY NestingAssumption
  <2> QED BY <1>0, <2>1
<1> QED BY <1>3, <1>4

Below(W) == [y \in Nodes(W, MaxNesting) |-> Range(Parts(y))]
NodesAt(W) == [n \in 0..MaxNesting |-> Nodes(W, n)]
LEMMA NodesNested ==
    ASSUME NEW W
    PROVE  /\ Nested(Nodes(W, MaxNesting), Below(W), NodesAt(W))
           /\ Nodes(W, MaxNesting) = TermsOver(W) \cup OpsOver(W)
           /\ \A y \in TermsOver(W) : Parts(y) \in Seq(TermsOver(W))
           /\ \A y \in Nodes(W, MaxNesting) : Parts(y) \in Seq(Nodes(W, MaxNesting))
<1> DEFINE U == Nodes(W, MaxNesting)
<1>1. U = TermsOver(W) \cup OpsOver(W)
  BY DEF Nodes, Level, TermsOver, OpsOver
<1>2. ASSUME NEW n \in Nat, n < MaxNesting
      PROVE  /\ Nodes(W, n) \subseteq Nodes(W, n + 1) /\ Nodes(W, n + 1) \subseteq U
             /\ \A y \in Nodes(W, n + 1) : Range(Parts(y)) \subseteq Nodes(W, n)
  <2>1. Nodes(W, n) \subseteq Nodes(W, n + 1)
    BY <1>2, LevelsGrow DEF Nodes
  <2>2. Nodes(W, n + 1) \subseteq U
    <3>1. n + 1 \in Nat /\ n + 1 <= MaxNesting
      BY <1>2, NestingAssumption
    <3> QED BY <1>1, <3>1, LevelsWithin DEF Nodes
  <2>3. ASSUME NEW y \in Nodes(W, n + 1)
        PROVE  Range(Parts(y)) \subseteq Nodes(W, n)
    <3>1. Parts(y) \in Seq(Nodes(W, n))
      BY <1>2, <2>3, PartsFacts
    <3> QED BY <3>1 DEF Range
  <2> QED BY <2>1, <2>2, <2>3
<1>3. \/ MaxNesting = 0
      \/ MaxNesting - 1 \in Nat /\ MaxNesting - 1 < MaxNesting /\ (MaxNesting - 1) + 1 = MaxNesting
  BY NestingAssumption
<1>4. \A y \in U : Parts(y) \in Seq(U) /\ Range(Parts(y)) \subseteq U
  <2>1. CASE MaxNesting = 0
    BY <2>1, NodesOfZero
  <2>2. CASE MaxNesting # 0
    <3>1. ASSUME NEW y \in U
          PROVE  Parts(y) \in Seq(U) /\ Range(Parts(y)) \subseteq U
      <4>1. Parts(y) \in Seq(Nodes(W, MaxNesting - 1))
        BY <1>3, <2>2, PartsFacts
      <4>2. Nodes(W, MaxNesting - 1) \subseteq U
        BY <1>2, <1>3, <2>2
      <4> QED BY <4>1, <4>2, SeqGrows DEF Range
    <3> QED BY <3>1
  <2> QED BY <2>1, <2>2
<1>5. \A y \in TermsOver(W) : Parts(y) \in Seq(TermsOver(W))
  <2>1. CASE MaxNesting = 0
    BY <2>1, NodesOfZero, <1>1
  <2>2. CASE MaxNesting # 0
    <3>1. ASSUME NEW y \in TermsOver(W)
          PROVE  Parts(y) \in Seq(TermsOver(W))
      <4>1. y \in U /\ y \in Level(W, MaxNesting).terms
        BY <1>1 DEF Level, TermsOver
      <4>2. Parts(y) \in Seq(Level(W, MaxNesting - 1).terms)
        BY <1>3, <2>2, <4>1, PartsFacts
      <4>3. Level(W, MaxNesting - 1).terms \subseteq TermsOver(W)
        BY <1>3, <2>2, LevelsWithin
      <4> QED BY <4>2, <4>3, SeqGrows
    <3> QED BY <3>1
  <2> QED BY <2>1, <2>2
<1> HIDE DEF U
<1>6. Below(W) \in [U -> SUBSET U]
  BY <1>4 DEF Below, U
<1>7. NodesAt(W)[0] = {} /\ NodesAt(W)[MaxNesting] = U
  BY NodesOfZero, NestingAssumption DEF NodesAt, U
<1>8. ASSUME NEW n \in Nat, n < MaxNesting
      PROVE  /\ NodesAt(W)[n] \subseteq NodesAt(W)[n + 1]
             /\ \A y \in NodesAt(W)[n + 1] : y \in U /\ Below(W)[y] \subseteq NodesAt(W)[n]
  <2>1. n \in 0..MaxNesting /\ n + 1 \in 0..MaxNesting
    BY <1>8, NestingAssumption
  <2>2. NodesAt(W)[n] = Nodes(W, n) /\ NodesAt(W)[n + 1] = Nodes(W, n + 1)
    BY <2>1 DEF NodesAt
  <2>3. \A y \in U : Below(W)[y] = Range(Parts(y))
    BY DEF Below, U
  <2> QED BY <1>2, <1>8, <2>2, <2>3
<1>9. Nested(U, Below(W), NodesAt(W))
  BY <1>6, <1>7, <1>8 DEF Nested
<1> QED BY <1>1, <1>4, <1>5, <1>9 DEF U

\* Within(x) is x, and what is within its parts.
LEMMA WithinFacts ==
    ASSUME NEW W, NEW x \in Nodes(W, MaxNesting)
    PROVE  /\ x \in Within(x) /\ Within(x) \subseteq Nodes(W, MaxNesting)
           /\ \A y \in Within(x) : Range(Parts(y)) \subseteq Within(x)
           /\ \A C : x \in C /\ (\A y \in C \cap Nodes(W, MaxNesting) : Range(Parts(y)) \subseteq C)
                        => Within(x) \subseteq C
<1> DEFINE U == Nodes(W, MaxNesting)
           P == Below(W)
           Way(near) ==
               near = [n \in 0..MaxNesting |->
                          IF n = 0 THEN {x}
                          ELSE near[n - 1] \cup UNION {Range(Parts(y)) : y \in near[n - 1]}]
           near == CHOOSE near : Way(near)
<1>1. Nested(U, P, NodesAt(W))
  BY NodesNested
<1>2. \A y \in U : P[y] = Range(Parts(y))
  BY DEF Below
<1> HIDE DEF U, P
<1>3. \E n : Way(n)
  <2>1. PICK g : g \in [0..MaxNesting -> SUBSET U] /\ g[0] = {x} /\ Step(g, U, P)
    <3>1. P \in [U -> SUBSET U] /\ x \in U
      BY <1>1 DEF Nested, U
    <3> QED BY <3>1, NearExists
  <2>2. ASSUME NEW n \in 0..MaxNesting, n # 0
        PROVE  g[n] = g[n - 1] \cup UNION {Range(Parts(y)) : y \in g[n - 1]}
    <3>1. n - 1 \in Nat /\ n - 1 < MaxNesting /\ (n - 1) + 1 = n /\ n - 1 \in 0..MaxNesting
      BY <2>2, NestingAssumption
    <3>2. g[n - 1] \subseteq U
      BY <2>1, <3>1
    <3>3. g[n] = g[n - 1] \cup UNION {P[y] : y \in g[n - 1]}
      BY <2>1, <3>1, <3>2 DEF Step
    <3>4. \A y \in g[n - 1] : P[y] = Range(Parts(y))
      BY <1>2, <3>2
    <3> QED BY <3>3, <3>4
  <2>3. Way(g)
    BY <2>1, <2>2
  <2> HIDE DEF Way
  <2> QED BY <2>3
<1>4. Way(near)
  <2> HIDE DEF Way
  <2> QED BY <1>3
<1>5. Within(x) = near[MaxNesting]
  BY DEF Within, Reach
<1> HIDE DEF near
<1>6. near[0] = {x}
  BY <1>4, NestingAssumption
<1>7. Step(near, U, P)
  <2>1. ASSUME NEW n \in Nat, n < MaxNesting, near[n] \subseteq U
        PROVE  near[n + 1] = near[n] \cup UNION {P[y] : y \in near[n]}
    <3>1. n + 1 \in 0..MaxNesting /\ n + 1 # 0 /\ (n + 1) - 1 = n
      BY <2>1, NestingAssumption
    <3>2. near[n + 1] = near[n] \cup UNION {Range(Parts(y)) : y \in near[n]}
      BY <1>4, <3>1
    <3>3. \A y \in near[n] : P[y] = Range(Parts(y))
      BY <1>2, <2>1
    <3> QED BY <3>2, <3>3
  <2> QED BY <2>1 DEF Step
<1>8. x \in U
  BY DEF U
<1>9. /\ x \in near[MaxNesting] /\ near[MaxNesting] \subseteq U
      /\ \A y \in near[MaxNesting] : P[y] \subseteq near[MaxNesting]
      /\ \A C : x \in C /\ (\A y \in C \cap U : P[y] \subseteq C) => near[MaxNesting] \subseteq C
  BY <1>1, <1>6, <1>7, <1>8, NearFacts
<1> QED BY <1>2, <1>5, <1>9 DEF U

\* What holds of a term or an operation if it holds of its parts holds of all.
LEMMA NestedInduction ==
    ASSUME NEW U, NEW P, NEW L, Nested(U, P, L),
           NEW T, \A y \in U : P[y] \subseteq T => y \in T
    PROVE  U \subseteq T
<1> DEFINE N == {n \in Nat : n <= MaxNesting => L[n] \subseteq T}
<1>1. 0 \in N
  BY DEF Nested
<1>2. ASSUME NEW n \in Nat, n \in N
      PROVE  n + 1 \in N
  <2>1. CASE n + 1 <= MaxNesting
    <3>1. n < MaxNesting /\ n <= MaxNesting
      BY <2>1, NestingAssumption
    <3>2. L[n] \subseteq T
      BY <1>2, <3>1
    <3>3. \A y \in L[n + 1] : y \in U /\ P[y] \subseteq L[n]
      BY <3>1 DEF Nested
    <3> QED BY <3>2, <3>3
  <2> QED BY <2>1
<1> HIDE DEF N
<1>3. MaxNesting \in N /\ MaxNesting <= MaxNesting
  BY <1>1, <1>2, NumberInduction, NestingAssumption
<1> QED BY <1>3 DEF N, Nested

LEMMA NodeInduction ==
    ASSUME NEW W, NEW T,
           \A y \in Nodes(W, MaxNesting) : Range(Parts(y)) \subseteq T => y \in T
    PROVE  Nodes(W, MaxNesting) \subseteq T
<1>1. \A y \in Nodes(W, MaxNesting) : Below(W)[y] \subseteq T => y \in T
  BY DEF Below
<1>2. Nested(Nodes(W, MaxNesting), Below(W), NodesAt(W))
  BY NodesNested
<1> QED BY <1>1, <1>2, NestedInduction

\* The kinds of all terms and operations.
Over(W) == [terms |-> TermsOver(W), ops |-> OpsOver(W)]

LEMMA OverShapes ==
    ASSUME NEW W
    PROVE  /\ \A y \in TermsOver(W) :
                 \/ y \in FixedTerms \/ y \in Named(W) \/ y \in Sets(Over(W))
                 \/ y \in Arrays(Over(W)) \/ y \in Maps(W, Over(W))
           /\ \A y \in OpsOver(W) :
                 \/ y \in FixedOps \/ y \in Calls(W) \/ y \in Held(Over(W))
                 \/ y \in Closures(W, Over(W))
<1>1. CASE MaxNesting = 0
  BY <1>1, LevelFacts DEF Level, TermsOver, OpsOver
<1>2. CASE MaxNesting # 0
  <2>1. MaxNesting - 1 \in Nat /\ MaxNesting - 1 < MaxNesting /\ (MaxNesting - 1) + 1 = MaxNesting
    BY <1>2, NestingAssumption
  <2>2. PICK m \in Nat : m < MaxNesting /\ m + 1 = MaxNesting
    BY <2>1
  <2>3. Level(W, m + 1) = Above(W, Level(W, m))
    BY <2>2, LevelFacts
  <2>4. Over(W).terms = TermsOver(W) /\ Over(W).ops = OpsOver(W)
    BY DEF Over
  <2>5. Level(W, m).terms \subseteq Over(W).terms /\ Level(W, m).ops \subseteq Over(W).ops
    BY <2>2, <2>4, LevelsWithin, NestingAssumption
  <2>6. /\ Above(W, Level(W, m)).terms \subseteq Above(W, Over(W)).terms
        /\ Above(W, Level(W, m)).ops \subseteq Above(W, Over(W)).ops
    BY <2>5, AboveGrows
  <2>7. TermsOver(W) \subseteq Above(W, Over(W)).terms /\ OpsOver(W) \subseteq Above(W, Over(W)).ops
    BY <2>2, <2>3, <2>6 DEF TermsOver, OpsOver, Level
  <2> QED BY <2>7, NodesAbove
<1> QED BY <1>1, <1>2

\* What each kind has as parts.
LEMMA OverParts ==
    ASSUME NEW W, NEW y \in Nodes(W, MaxNesting)
    PROVE  /\ Parts(y) \in Seq(Nodes(W, MaxNesting))
           /\ y[1] = "set" => Range(Parts(y)) = y[2]
           /\ y[1] = "map" => Range(Parts(y)) = UNION {{e[1], e[2]} : e \in y[2]}
<1>1. MaxNesting # 0
  BY NodesOfZero
<1>2. MaxNesting - 1 \in Nat /\ MaxNesting - 1 < MaxNesting /\ (MaxNesting - 1) + 1 = MaxNesting
  BY <1>1, NestingAssumption
<1> QED BY <1>2, PartsFacts, NodesNested

LEMMA WithinIs ==
    ASSUME NEW W, NEW x \in Nodes(W, MaxNesting)
    PROVE  /\ Range(Parts(x)) \subseteq Nodes(W, MaxNesting)
           /\ Within(x) = {x} \cup UNION {Within(p) : p \in Range(Parts(x))}
<1> DEFINE U == Nodes(W, MaxNesting)
           C == {x} \cup UNION {Within(p) : p \in Range(Parts(x))}
<1>1. Range(Parts(x)) \subseteq U
  BY OverParts DEF Range
<1>2. \A p \in Range(Parts(x)) : p \in U /\ p \in Within(p)
  BY <1>1, WithinFacts
<1>3. ASSUME NEW y \in C \cap U
      PROVE  Range(Parts(y)) \subseteq C
  <2>1. CASE y = x
    BY <1>2, <2>1
  <2>2. CASE y # x
    <3>1. PICK p \in Range(Parts(x)) : y \in Within(p)
      BY <1>3, <2>2
    <3>2. Range(Parts(y)) \subseteq Within(p)
      BY <1>2, <3>1, WithinFacts
    <3> QED BY <3>2
  <2> QED BY <2>1, <2>2
<1>4. Within(x) \subseteq C
  <2>1. x \in C
    OBVIOUS
  <2> HIDE DEF C
  <2> QED BY <1>3, <2>1, WithinFacts
<1>5. ASSUME NEW p \in Range(Parts(x))
      PROVE  Within(p) \subseteq Within(x)
  <2>1. p \in Within(x) /\ \A y \in Within(x) : Range(Parts(y)) \subseteq Within(x)
    BY WithinFacts
  <2>2. p \in U
    BY <1>1
  <2>3. \A D : p \in D /\ (\A y \in D \cap U : Range(Parts(y)) \subseteq D) => Within(p) \subseteq D
    BY <2>2, WithinFacts
  <2> QED BY <2>1, <2>3
<1>6. C \subseteq Within(x)
  <2>1. x \in Within(x)
    BY WithinFacts
  <2> QED BY <1>5, <2>1
<1> QED BY <1>1, <1>4, <1>6

\* What is in a term are terms.
LEMMA WithinTerms ==
    ASSUME NEW W, NEW x \in TermsOver(W)
    PROVE  Within(x) \subseteq TermsOver(W)
<1>1. x \in Nodes(W, MaxNesting)
  BY NodesNested
<1>2. \A y \in TermsOver(W) : Range(Parts(y)) \subseteq TermsOver(W)
  BY NodesNested DEF Range
<1> QED BY <1>1, <1>2, WithinFacts

-----------------------------------------------------------------------------
(* The names in a term or an operation.                                        *)

WordsFrom(y, t) == OwnWords(y) \o FlattenSeq([i \in DOMAIN Parts(y) |-> t[Parts(y)[i]]])

LEMMA WordsFromSame ==
    ASSUME NEW y, NEW a, NEW b, \A p \in Range(Parts(y)) : a[p] = b[p]
    PROVE  WordsFrom(y, a) = WordsFrom(y, b)
<1>1. \A i \in DOMAIN Parts(y) : a[Parts(y)[i]] = b[Parts(y)[i]]
  BY DEF Range
<1> QED BY <1>1 DEF WordsFrom

\* One table gives the names of all terms and operations.
LEMMA WordsTable ==
    ASSUME NEW U, NEW P, NEW L, Nested(U, P, L), \A y \in U : P[y] = Range(Parts(y))
    PROVE  \E g : \A y \in U : g[y] = WordsFrom(y, g)
<1> DEFINE Good(g, n) == \A y \in L[n] : g[y] = WordsFrom(y, g)
           T == {n \in Nat : n <= MaxNesting => \E g : Good(g, n)}
<1>1. 0 \in T
  BY DEF Nested
<1>2. ASSUME NEW n \in Nat, n \in T, n + 1 <= MaxNesting
      PROVE  \E g : Good(g, n + 1)
  <2>1. n < MaxNesting /\ n <= MaxNesting
    BY <1>2, NestingAssumption
  <2>2. PICK g : Good(g, n)
    BY <1>2, <2>1
  <2>3. /\ L[n] \subseteq L[n + 1]
        /\ \A y \in L[n + 1] : Range(Parts(y)) \subseteq L[n]
    BY <2>1 DEF Nested
  <2> DEFINE h == [y \in L[n + 1] |-> WordsFrom(y, g)]
  <2>4. \A p \in L[n] : h[p] = g[p]
    BY <2>2, <2>3
  <2>5. \A y \in L[n + 1] : h[y] = WordsFrom(y, g)
    OBVIOUS
  <2> HIDE DEF h
  <2>6. \A y \in L[n + 1] : WordsFrom(y, h) = WordsFrom(y, g)
    BY <2>3, <2>4, WordsFromSame
  <2>7. Good(h, n + 1)
    BY <2>5, <2>6
  <2> HIDE DEF Good
  <2> QED BY <2>7
<1> HIDE DEF Good
<1>3. \A n \in Nat : n \in T => n + 1 \in T
  BY <1>2
<1> HIDE DEF T
<1>4. MaxNesting \in T /\ MaxNesting <= MaxNesting
  BY <1>1, <1>3, NumberInduction, NestingAssumption
<1>5. PICK g : Good(g, MaxNesting)
  BY <1>4 DEF T
<1> QED BY <1>5 DEF Good, Nested

\* The names of a term are its own, and those of its parts in their order.
LEMMA WordsIs ==
    ASSUME NEW W
    PROVE  \A x \in Nodes(W, MaxNesting) :
              Words(x) = OwnWords(x) \o FlattenSeq([i \in DOMAIN Parts(x) |-> Words(Parts(x)[i])])
<1> DEFINE U == Nodes(W, MaxNesting)
<1>1. PICK g : \A y \in U : g[y] = WordsFrom(y, g)
  <2>1. \A y \in U : Below(W)[y] = Range(Parts(y))
    BY DEF Below
  <2> QED BY <2>1, NodesNested, WordsTable
<1>2. ASSUME NEW x \in U
      PROVE  Words(x) = g[x]
  <2> DEFINE Way(w) == w = [y \in Within(x) |-> WordsFrom(y, w)]
             words == CHOOSE w : Way(w)
  <2>1. \A y \in Within(x) : y \in U /\ Range(Parts(y)) \subseteq Within(x)
    BY WithinFacts
  <2>2. \E w : Way(w)
    <3> DEFINE k == [y \in Within(x) |-> g[y]]
    <3>1. \A y \in Within(x) : k[y] = g[y]
      OBVIOUS
    <3>2. \A y \in Within(x) : WordsFrom(y, k) = WordsFrom(y, g)
      BY <2>1, <3>1, WordsFromSame
    <3>3. Way(k)
      BY <1>1, <2>1, <3>2
    <3> HIDE DEF Way
    <3> QED BY <3>3
  <2>3. Way(words)
    <3> HIDE DEF Way
    <3> QED BY <2>2
  <2>4. Words(x) = words[x]
    BY DEF Words, WordsFrom
  <2> HIDE DEF words
  <2>5. \A y \in Within(x) : words[y] = WordsFrom(y, words)
    BY <2>3
  <2> DEFINE T == {y \in U : y \in Within(x) => words[y] = g[y]}
  <2>6. ASSUME NEW y \in U, Range(Parts(y)) \subseteq T, y \in Within(x)
        PROVE  words[y] = g[y]
    <3>1. \A p \in Range(Parts(y)) : words[p] = g[p]
      BY <2>1, <2>6
    <3>2. WordsFrom(y, words) = WordsFrom(y, g)
      BY <3>1, WordsFromSame
    <3> QED BY <1>1, <2>5, <2>6, <3>2
  <2>7. U \subseteq T
    <3>1. \A y \in U : Range(Parts(y)) \subseteq T => y \in T
      BY <2>6
    <3> HIDE DEF T
    <3> QED BY <3>1, NodeInduction
  <2>8. x \in Within(x)
    BY WithinFacts
  <2> QED BY <2>4, <2>7, <2>8
<1>3. ASSUME NEW x \in U
      PROVE  WordsFrom(x, g) = OwnWords(x) \o FlattenSeq([i \in DOMAIN Parts(x) |-> Words(Parts(x)[i])])
  <2>1. Range(Parts(x)) \subseteq U
    BY WithinIs
  <2>2. \A i \in DOMAIN Parts(x) : g[Parts(x)[i]] = Words(Parts(x)[i])
    BY <1>2, <2>1 DEF Range
  <2> QED BY <2>2 DEF WordsFrom
<1> QED BY <1>1, <1>2, <1>3

\* As a set: the names of a term are those of what is in it.
OwnNames(x) == Range(OwnWords(x))
Names(x) == Range(Words(x))

LEMMA OwnWordsType ==
    ASSUME NEW W, NEW x \in Nodes(W, MaxNesting)
    PROVE  OwnWords(x) \in Seq(W)
<1>1. \A w \in W : <<w>> \in Seq(W)
  BY OptionsType DEF Options
<1>2. << >> \in Seq(W)
  BY EmptySeq
<1>3. CASE x \in TermsOver(W)
  <2>1. CASE x \in Named(W)
    <3>1. x[1] \in {"var", "str"} /\ x[2] \in W
      BY <2>1, Kinds
    <3> QED BY <1>1, <3>1 DEF OwnWords
  <2>2. CASE x \notin Named(W)
    <3>1. x[1] \in LeafKinds \cup {"set", "array", "map"}
      BY <1>3, <2>2, OverShapes, Kinds
    <3>2. x[1] \notin {"var", "str", "closure", "unary", "binary"}
      BY <3>1 DEF LeafKinds
    <3> QED BY <1>2, <3>2 DEF OwnWords
  <2> QED BY <2>1, <2>2
<1>4. CASE x \in OpsOver(W)
  <2>1. CASE x \in FixedOps
    <3>1. x[1] \notin {"var", "str", "closure"} /\ x[2] # "Ffi"
      BY <2>1, Kinds
    <3> QED BY <1>2, <3>1 DEF OwnWords
  <2>2. CASE x \in Calls(W)
    <3>1. x[1] \in {"unary", "binary"} /\ x[2] = "Ffi" /\ x[3] \in W
      BY <2>2, Kinds
    <3> QED BY <1>1, <3>1 DEF OwnWords
  <2>3. CASE x \in Held(Over(W))
    <3>1. x[1] = "value"
      BY <2>3, Kinds
    <3> QED BY <1>2, <3>1 DEF OwnWords
  <2>4. CASE x \in Closures(W, Over(W))
    <3>1. x[1] = "closure" /\ x[2] \in Seq(W)
      BY <2>4, Kinds
    <3> QED BY <3>1 DEF OwnWords
  <2> QED BY <1>4, <2>1, <2>2, <2>3, <2>4, OverShapes
<1> QED BY <1>3, <1>4, NodesNested

LEMMA WordsType ==
    ASSUME NEW W
    PROVE  /\ \A x \in Nodes(W, MaxNesting) : Words(x) \in Seq(W)
           /\ \A x \in Nodes(W, MaxNesting) :
                 Names(x) = OwnNames(x) \cup UNION {Names(p) : p \in Range(Parts(x))}
<1> DEFINE U == Nodes(W, MaxNesting)
           T == {x \in U : Words(x) \in Seq(W)}
           All(x) == [i \in DOMAIN Parts(x) |-> Words(Parts(x)[i])]
<1>1. ASSUME NEW x \in U, Range(Parts(x)) \subseteq T
      PROVE  All(x) \in Seq(Seq(W)) /\ Len(All(x)) = Len(Parts(x))
  <2>1. Parts(x) \in Seq(U)
    BY OverParts
  <2>2. \A i \in DOMAIN Parts(x) : Words(Parts(x)[i]) \in Seq(W)
    BY <1>1 DEF Range
  <2>3. Len(Parts(x)) \in Nat /\ DOMAIN Parts(x) = 1..Len(Parts(x))
    BY <2>1, LenProperties
  <2> QED BY <2>2, <2>3, SeqDef
<1>2. ASSUME NEW x \in U
      PROVE  Words(x) = OwnWords(x) \o FlattenSeq(All(x))
  BY WordsIs
<1> HIDE DEF All
<1>3. ASSUME NEW x \in U, Range(Parts(x)) \subseteq T
      PROVE  x \in T
  <2>1. OwnWords(x) \in Seq(W) /\ FlattenSeq(All(x)) \in Seq(W)
    BY <1>1, <1>3, OwnWordsType, FlattenType
  <2> QED BY <1>2, <2>1, ConcatProperties
<1> HIDE DEF T
<1>4. U \subseteq T
  BY <1>3, NodeInduction
<1>5. ASSUME NEW x \in U
      PROVE  Names(x) = OwnNames(x) \cup UNION {Names(p) : p \in Range(Parts(x))}
  <2>1. Range(Parts(x)) \subseteq U /\ Parts(x) \in Seq(U)
    BY WithinIs, OverParts
  <2>2. /\ OwnWords(x) \in Seq(W) /\ FlattenSeq(All(x)) \in Seq(W)
        /\ All(x) \in Seq(Seq(W)) /\ Len(All(x)) = Len(Parts(x))
    BY <1>1, <1>4, <2>1, OwnWordsType, FlattenType
  <2>3. Names(x) = OwnNames(x) \cup Range(FlattenSeq(All(x)))
    BY <1>2, <2>2, RangeOfConcat DEF Names, OwnNames
  <2>4. Range(FlattenSeq(All(x))) = UNION {Range(All(x)[i]) : i \in 1..Len(All(x))}
    BY <2>2, FlattenRange
  <2>5. DOMAIN Parts(x) = 1..Len(All(x))
    BY <2>1, <2>2, LenProperties
  <2>6. UNION {Range(All(x)[i]) : i \in 1..Len(All(x))} = UNION {Names(p) : p \in Range(Parts(x))}
    <3>1. \A i \in 1..Len(All(x)) : Range(All(x)[i]) = Names(Parts(x)[i])
      BY <2>5 DEF All, Names
    <3>2. \A i \in 1..Len(All(x)) : Parts(x)[i] \in Range(Parts(x))
      BY <2>5 DEF Range
    <3>3. \A p \in Range(Parts(x)) : \E i \in 1..Len(All(x)) : p = Parts(x)[i]
      BY <2>5 DEF Range
    <3> QED BY <3>1, <3>2, <3>3
  <2> QED BY <2>3, <2>4, <2>6
<1> QED BY <1>4, <1>5 DEF T

-----------------------------------------------------------------------------
(* A term or an operation with other names.                                    *)

TranslateFrom(y, f, to) ==
    LET All(s) == [i \in DOMAIN s |-> to[s[i]]]
    IN  CASE y[1] \in {"var", "str"} -> <<y[1], f[y[2]]>>
          [] y[1] = "set"     -> <<"set", {to[t] : t \in y[2]}>>
          [] y[1] = "array"   -> <<"array", All(y[2])>>
          [] y[1] = "map"     -> <<"map", {<<to[e[1]], to[e[2]]>> : e \in y[2]}>>
          [] y[1] = "value"   -> <<"value", to[y[2]]>>
          [] y[1] = "closure" ->
                <<"closure", [i \in DOMAIN y[2] |-> f[y[2][i]]], All(y[3])>>
          [] y[1] \in {"unary", "binary"} /\ y[2] = "Ffi" -> <<y[1], y[2], f[y[3]]>>
          [] OTHER            -> y

\* Two tables that agree on the parts of y agree on what is in each place of it.
LEMMA PartsAgree ==
    ASSUME NEW W, NEW y \in Nodes(W, MaxNesting), NEW a, NEW b,
           \A p \in Range(Parts(y)) : a[p] = b[p]
    PROVE  /\ y[1] = "set" => \A t \in y[2] : a[t] = b[t]
           /\ y[1] = "array" => \A i \in DOMAIN y[2] : a[y[2][i]] = b[y[2][i]]
           /\ y[1] = "map" => \A e \in y[2] : a[e[1]] = b[e[1]] /\ a[e[2]] = b[e[2]]
           /\ y[1] = "value" => a[y[2]] = b[y[2]]
           /\ y[1] = "closure" => \A i \in DOMAIN y[3] : a[y[3][i]] = b[y[3][i]]
<1>1. y[1] = "set" => Range(Parts(y)) = y[2]
  BY OverParts
<1>2. y[1] = "map" => Range(Parts(y)) = UNION {{e[1], e[2]} : e \in y[2]}
  BY OverParts
<1>3. y[1] = "array" => \A i \in DOMAIN y[2] : y[2][i] \in Range(Parts(y))
  BY DEF Parts, Range
<1>4. y[1] = "value" => y[2] \in Range(Parts(y))
  BY DEF Parts, Range
<1>5. y[1] = "closure" => \A i \in DOMAIN y[3] : y[3][i] \in Range(Parts(y))
  BY DEF Parts, Range
<1>6. y[1] = "map" => \A e \in y[2] : e[1] \in Range(Parts(y)) /\ e[2] \in Range(Parts(y))
  BY <1>2
<1> QED BY <1>1, <1>3, <1>4, <1>5, <1>6

LEMMA TranslateFromSame ==
    ASSUME NEW W, NEW f, NEW y \in Nodes(W, MaxNesting), NEW a, NEW b,
           \A p \in Range(Parts(y)) : a[p] = b[p]
    PROVE  TranslateFrom(y, f, a) = TranslateFrom(y, f, b)
<1> USE DEF TranslateFrom
<1>1. CASE y[1] = "set"
  <2>1. \A t \in y[2] : a[t] = b[t]
    BY <1>1, PartsAgree
  <2> QED BY <1>1, <2>1
<1>2. CASE y[1] = "array"
  <2>1. \A i \in DOMAIN y[2] : a[y[2][i]] = b[y[2][i]]
    BY <1>2, PartsAgree
  <2> QED BY <1>2, <2>1
<1>3. CASE y[1] = "map"
  <2>1. \A e \in y[2] : a[e[1]] = b[e[1]] /\ a[e[2]] = b[e[2]]
    BY <1>3, PartsAgree
  <2>2. {<<a[e[1]], a[e[2]]>> : e \in y[2]} = {<<b[e[1]], b[e[2]]>> : e \in y[2]}
    BY <2>1
  <2> QED BY <1>3, <2>2
<1>4. CASE y[1] = "value"
  <2>1. a[y[2]] = b[y[2]]
    BY <1>4, PartsAgree
  <2> QED BY <1>4, <2>1
<1>5. CASE y[1] = "closure"
  <2>1. \A i \in DOMAIN y[3] : a[y[3][i]] = b[y[3][i]]
    BY <1>5, PartsAgree
  <2> QED BY <1>5, <2>1
<1>6. CASE y[1] \notin {"set", "array", "map", "value", "closure"}
  BY <1>6
<1> QED BY <1>1, <1>2, <1>3, <1>4, <1>5, <1>6

LEMMA TranslateTable ==
    ASSUME NEW W, NEW f
    PROVE  \E g : \A y \in Nodes(W, MaxNesting) : g[y] = TranslateFrom(y, f, g)
<1> DEFINE U == Nodes(W, MaxNesting)
           L == NodesAt(W)
           Good(g, n) == \A y \in L[n] : g[y] = TranslateFrom(y, f, g)
           T == {n \in Nat : n <= MaxNesting => \E g : Good(g, n)}
<1>0. /\ L[0] = {} /\ L[MaxNesting] = U
      /\ \A n \in Nat : n < MaxNesting =>
            L[n] \subseteq L[n + 1] /\ \A y \in L[n + 1] : y \in U /\ Range(Parts(y)) \subseteq L[n]
  BY NodesNested DEF Nested, Below
<1> HIDE DEF L, U
<1>1. 0 \in T
  BY <1>0
<1>2. ASSUME NEW n \in Nat, n \in T, n + 1 <= MaxNesting
      PROVE  \E g : Good(g, n + 1)
  <2>1. n < MaxNesting /\ n <= MaxNesting
    BY <1>2, NestingAssumption
  <2>2. PICK g : Good(g, n)
    BY <1>2, <2>1
  <2>3. /\ L[n] \subseteq L[n + 1]
        /\ \A y \in L[n + 1] : y \in U /\ Range(Parts(y)) \subseteq L[n]
    BY <1>0, <2>1
  <2> DEFINE h == [y \in L[n + 1] |-> TranslateFrom(y, f, g)]
  <2>4. \A p \in L[n] : h[p] = g[p]
    BY <2>2, <2>3
  <2>5. \A y \in L[n + 1] : h[y] = TranslateFrom(y, f, g)
    OBVIOUS
  <2> HIDE DEF h
  <2>6. \A y \in L[n + 1] : TranslateFrom(y, f, h) = TranslateFrom(y, f, g)
    BY <2>3, <2>4, TranslateFromSame DEF U
  <2>7. Good(h, n + 1)
    BY <2>5, <2>6
  <2> HIDE DEF Good
  <2> QED BY <2>7
<1> HIDE DEF Good
<1>3. \A n \in Nat : n \in T => n + 1 \in T
  BY <1>2
<1> HIDE DEF T
<1>4. MaxNesting \in T /\ MaxNesting <= MaxNesting
  BY <1>1, <1>3, NumberInduction, NestingAssumption
<1>5. PICK g : Good(g, MaxNesting)
  BY <1>4 DEF T
<1> QED BY <1>0, <1>5 DEF Good, U

LEMMA TranslateIsTable ==
    ASSUME NEW W, NEW f
    PROVE  \E g : \A x \in Nodes(W, MaxNesting) :
              Translate(x, f) = g[x] /\ g[x] = TranslateFrom(x, f, g)
<1> DEFINE U == Nodes(W, MaxNesting)
<1>1. PICK g : \A y \in U : g[y] = TranslateFrom(y, f, g)
  BY TranslateTable
<1>2. ASSUME NEW x \in U
      PROVE  Translate(x, f) = g[x]
  <2> DEFINE Way(w) == w = [y \in Within(x) |-> TranslateFrom(y, f, w)]
             to == CHOOSE w : Way(w)
  <2>1. \A y \in Within(x) : y \in U /\ Range(Parts(y)) \subseteq Within(x)
    BY WithinFacts
  <2>2. \E w : Way(w)
    <3> DEFINE k == [y \in Within(x) |-> g[y]]
    <3>1. \A y \in Within(x) : k[y] = g[y]
      OBVIOUS
    <3>2. \A y \in Within(x) : TranslateFrom(y, f, k) = TranslateFrom(y, f, g)
      BY <2>1, <3>1, TranslateFromSame
    <3>3. Way(k)
      BY <1>1, <2>1, <3>2
    <3> HIDE DEF Way
    <3> QED BY <3>3
  <2>3. Way(to)
    <3> HIDE DEF Way
    <3> QED BY <2>2
  <2>4. Translate(x, f) = to[x]
    BY DEF Translate, TranslateFrom
  <2> HIDE DEF to
  <2>5. \A y \in Within(x) : to[y] = TranslateFrom(y, f, to)
    BY <2>3
  <2> DEFINE T == {y \in U : y \in Within(x) => to[y] = g[y]}
  <2>6. ASSUME NEW y \in U, Range(Parts(y)) \subseteq T, y \in Within(x)
        PROVE  to[y] = g[y]
    <3>1. \A p \in Range(Parts(y)) : to[p] = g[p]
      BY <2>1, <2>6
    <3>2. TranslateFrom(y, f, to) = TranslateFrom(y, f, g)
      BY <3>1, TranslateFromSame
    <3> QED BY <1>1, <2>5, <2>6, <3>2
  <2>7. U \subseteq T
    <3>1. \A y \in U : Range(Parts(y)) \subseteq T => y \in T
      BY <2>6
    <3> HIDE DEF T
    <3> QED BY <3>1, NodeInduction
  <2>8. x \in Within(x)
    BY WithinFacts
  <2> QED BY <2>4, <2>7, <2>8
<1> QED BY <1>1, <1>2

\* The same for each kind.
LEMMA TranslateIs ==
    ASSUME NEW W, NEW f, NEW x \in Nodes(W, MaxNesting)
    PROVE  /\ x[1] \in {"var", "str"} => Translate(x, f) = <<x[1], f[x[2]]>>
           /\ x[1] = "set" => Translate(x, f) = <<"set", {Translate(t, f) : t \in x[2]}>>
           /\ x[1] = "array" =>
                 Translate(x, f) = <<"array", [i \in DOMAIN x[2] |-> Translate(x[2][i], f)]>>
           /\ x[1] = "map" =>
                 Translate(x, f) =
                    <<"map", {<<Translate(e[1], f), Translate(e[2], f)>> : e \in x[2]}>>
           /\ x[1] = "value" => Translate(x, f) = <<"value", Translate(x[2], f)>>
           /\ x[1] = "closure" =>
                 Translate(x, f) = <<"closure", [i \in DOMAIN x[2] |-> f[x[2][i]]],
                                     [i \in DOMAIN x[3] |-> Translate(x[3][i], f)]>>
           /\ x[1] \in {"unary", "binary"} /\ x[2] = "Ffi" =>
                 Translate(x, f) = <<x[1], x[2], f[x[3]]>>
           /\ x[1] \in {"unary", "binary"} /\ x[2] # "Ffi" => Translate(x, f) = x
           /\ x[1] \in LeafKinds => Translate(x, f) = x
<1>1. PICK g : \A y \in Nodes(W, MaxNesting) :
                  Translate(y, f) = g[y] /\ g[y] = TranslateFrom(y, f, g)
  BY TranslateIsTable
<1>2. \A p \in Range(Parts(x)) : Translate(p, f) = g[p]
  BY <1>1, WithinIs
<1>3. Translate(x, f) = TranslateFrom(x, f, g)
  BY <1>1
<1>4. x[1] \in {"var", "str"} => Translate(x, f) = <<x[1], f[x[2]]>>
  BY <1>3 DEF TranslateFrom
<1>5. ASSUME x[1] = "set"
      PROVE  Translate(x, f) = <<"set", {Translate(t, f) : t \in x[2]}>>
  <2>1. Range(Parts(x)) = x[2]
    BY <1>5, OverParts
  <2>2. {Translate(t, f) : t \in x[2]} = {g[t] : t \in x[2]}
    BY <1>2, <2>1
  <2> QED BY <1>3, <1>5, <2>2 DEF TranslateFrom
<1>6. ASSUME x[1] = "array"
      PROVE  Translate(x, f) = <<"array", [i \in DOMAIN x[2] |-> Translate(x[2][i], f)]>>
  <2>1. \A i \in DOMAIN x[2] : Translate(x[2][i], f) = g[x[2][i]]
    BY <1>2, <1>6 DEF Parts, Range
  <2> QED BY <1>3, <1>6, <2>1 DEF TranslateFrom
<1>7. ASSUME x[1] = "map"
      PROVE  Translate(x, f) =
                <<"map", {<<Translate(e[1], f), Translate(e[2], f)>> : e \in x[2]}>>
  <2>1. Range(Parts(x)) = UNION {{e[1], e[2]} : e \in x[2]}
    BY <1>7, OverParts
  <2>2. \A e \in x[2] : Translate(e[1], f) = g[e[1]] /\ Translate(e[2], f) = g[e[2]]
    BY <1>2, <2>1
  <2>3. {<<Translate(e[1], f), Translate(e[2], f)>> : e \in x[2]}
           = {<<g[e[1]], g[e[2]]>> : e \in x[2]}
    BY <2>2
  <2> QED BY <1>3, <1>7, <2>3 DEF TranslateFrom
<1>8. ASSUME x[1] = "value"
      PROVE  Translate(x, f) = <<"value", Translate(x[2], f)>>
  <2>1. Translate(x[2], f) = g[x[2]]
    BY <1>2, <1>8 DEF Parts, Range
  <2> QED BY <1>3, <1>8, <2>1 DEF TranslateFrom
<1>9. ASSUME x[1] = "closure"
      PROVE  Translate(x, f) = <<"closure", [i \in DOMAIN x[2] |-> f[x[2][i]]],
                                 [i \in DOMAIN x[3] |-> Translate(x[3][i], f)]>>
  <2>1. \A i \in DOMAIN x[3] : Translate(x[3][i], f) = g[x[3][i]]
    BY <1>2, <1>9 DEF Parts, Range
  <2> QED BY <1>3, <1>9, <2>1 DEF TranslateFrom
<1>10. ASSUME x[1] \in {"unary", "binary"}
       PROVE  Translate(x, f) = IF x[2] = "Ffi" THEN <<x[1], x[2], f[x[3]]>> ELSE x
  BY <1>3, <1>10 DEF TranslateFrom
<1>11. x[1] \in LeafKinds => Translate(x, f) = x
  BY <1>3 DEF TranslateFrom, LeafKinds
<1> QED BY <1>4, <1>5, <1>6, <1>7, <1>8, <1>9, <1>10, <1>11

\* The names in each place of a term are among its names.
LEMMA NamesWithin ==
    ASSUME NEW W, NEW x \in Nodes(W, MaxNesting)
    PROVE  /\ \A p \in Range(Parts(x)) : p \in Nodes(W, MaxNesting) /\ Names(p) \subseteq Names(x)
           /\ x[1] \in {"var", "str"} => x[2] \in Names(x)
           /\ x[1] = "closure" => Range(x[2]) \subseteq Names(x)
           /\ x[1] \in {"unary", "binary"} /\ x[2] = "Ffi" => x[3] \in Names(x)
<1>1. Names(x) = OwnNames(x) \cup UNION {Names(p) : p \in Range(Parts(x))}
  BY WordsType
<1>2. Range(Parts(x)) \subseteq Nodes(W, MaxNesting)
  BY WithinIs
<1>3. /\ x[1] \in {"var", "str"} => x[2] \in OwnNames(x)
      /\ x[1] = "closure" => Range(x[2]) = OwnNames(x)
      /\ x[1] \in {"unary", "binary"} /\ x[2] = "Ffi" => x[3] \in OwnNames(x)
  BY DEF OwnNames, OwnWords, Range
<1> QED BY <1>1, <1>2, <1>3

LEMMA ImageIsFinite ==
    ASSUME NEW S, IsFiniteSet(S), NEW h, DOMAIN h = S
    PROVE  IsFiniteSet({h[t] : t \in S})
<1> DEFINE k == [t \in S |-> h[t]]
<1>1. k \in Surjection(S, {h[t] : t \in S})
  BY DEF Surjection
<1> QED BY <1>1, FS_Surjection

\* What is right below y is in nodes of its level, and y itself is everywhere.
LEMMA PlacesOf ==
    ASSUME NEW W, NEW n \in Nat, n < MaxNesting
    PROVE  /\ Level(W, n).terms \subseteq Nodes(W, MaxNesting)
           /\ Level(W, n).ops \subseteq Nodes(W, MaxNesting)
           /\ Level(W, n + 1).terms \subseteq Nodes(W, MaxNesting)
           /\ Level(W, n + 1).ops \subseteq Nodes(W, MaxNesting)
           /\ \A e \in MapKeys(W) \X Level(W, n).terms :
                 e[1] \in Level(W, n).terms /\ e[2] \in Level(W, n).terms
<1>1. n <= MaxNesting /\ n + 1 \in Nat /\ n + 1 <= MaxNesting
  BY NestingAssumption
<1>2. Nodes(W, MaxNesting) = TermsOver(W) \cup OpsOver(W)
  BY NodesNested
<1>3. ASSUME NEW e \in MapKeys(W) \X Level(W, n).terms
      PROVE  e[1] \in Level(W, n).terms /\ e[2] \in Level(W, n).terms
  <2>1. Level(W, n).terms # {}
    OBVIOUS
  <2>2. MapKeys(W) \subseteq Level(W, n).terms
    BY <2>1, KeysAreTerms
  <2> QED BY <2>2
<1> QED BY <1>1, <1>2, <1>3, LevelsWithin

\* The kind stays, and so does what has no name.
LEMMA KindKept ==
    ASSUME NEW W, NEW f, NEW x \in Nodes(W, MaxNesting)
    PROVE  Translate(x, f)[1] = x[1]
<1>1. x \in TermsOver(W) \/ x \in OpsOver(W)
  BY NodesNested
<1>2. x[1] \in LeafKinds \cup {"var", "str", "set", "array", "map"}
         \cup {"unary", "binary", "value", "closure"}
  BY <1>1, OverShapes, Kinds
<1>3. CASE x[1] \in LeafKinds
  BY <1>3, TranslateIs
<1>4. CASE x[1] \in {"var", "str"}
  <2>1. Translate(x, f) = <<x[1], f[x[2]]>>
    BY <1>4, TranslateIs
  <2> QED BY <2>1
<1>5. CASE x[1] = "set"
  <2>1. Translate(x, f) = <<"set", {Translate(t, f) : t \in x[2]}>>
    BY <1>5, TranslateIs
  <2> QED BY <1>5, <2>1
<1>6. CASE x[1] = "array"
  <2>1. Translate(x, f) = <<"array", [i \in DOMAIN x[2] |-> Translate(x[2][i], f)]>>
    BY <1>6, TranslateIs
  <2> QED BY <1>6, <2>1
<1>7. CASE x[1] = "map"
  <2>1. Translate(x, f) = <<"map", {<<Translate(e[1], f), Translate(e[2], f)>> : e \in x[2]}>>
    BY <1>7, TranslateIs
  <2> QED BY <1>7, <2>1
<1>8. CASE x[1] = "value"
  <2>1. Translate(x, f) = <<"value", Translate(x[2], f)>>
    BY <1>8, TranslateIs
  <2> QED BY <1>8, <2>1
<1>9. CASE x[1] = "closure"
  <2>1. Translate(x, f) = <<"closure", [i \in DOMAIN x[2] |-> f[x[2][i]]],
                            [i \in DOMAIN x[3] |-> Translate(x[3][i], f)]>>
    BY <1>9, TranslateIs
  <2> QED BY <1>9, <2>1
<1>10. CASE x[1] \in {"unary", "binary"}
  <2>1. Translate(x, f) = x \/ Translate(x, f) = <<x[1], x[2], f[x[3]]>>
    BY <1>10, TranslateIs
  <2> QED BY <2>1
<1> QED BY <1>2, <1>3, <1>4, <1>5, <1>6, <1>7, <1>8, <1>9, <1>10

LEMMA MadeOf ==
    ASSUME NEW W, NEW below
    PROVE  /\ \A S : S \subseteq below.terms /\ IsFiniteSet(S) => <<"set", S>> \in Sets(below)
           /\ \A S : /\ S \subseteq MapKeys(W) \X below.terms /\ IsFiniteSet(S)
                     /\ \A d, e \in S : d[1] = e[1] => d = e
                     => <<"map", S>> \in Maps(W, below)
           /\ \A ws \in Seq(W), ops \in Seq(below.ops) : <<"closure", ws, ops>> \in Closures(W, below)
<1>1. \A S : S \subseteq below.terms /\ IsFiniteSet(S) => <<"set", S>> \in Sets(below)
  BY DEF Sets, FiniteSubsets
<1>2. ASSUME NEW S, S \subseteq MapKeys(W) \X below.terms, IsFiniteSet(S),
             \A d, e \in S : d[1] = e[1] => d = e
      PROVE  <<"map", S>> \in Maps(W, below)
  <2>1. S \in FiniteMaps(MapKeys(W), below.terms)
    BY <1>2 DEF FiniteMaps, FiniteSubsets
  <2> QED BY <2>1 DEF Maps
<1>3. \A ws \in Seq(W), ops \in Seq(below.ops) : <<"closure", ws, ops>> \in Closures(W, below)
  BY DEF Closures
<1> QED BY <1>1, <1>2, <1>3

\* f gives each name of x one of V, and no two the same.
Fits(x, f, V) ==
    /\ \A w \in Names(x) : f[w] \in V
    /\ \A v, w \in Names(x) : f[v] = f[w] => v = w

\* What is translated has the names of the other table, and is nested as before.
LEMMA TranslateStep ==
    ASSUME NEW W, NEW V, NEW f, NEW n \in Nat, n < MaxNesting,
           \A y \in Level(W, n).terms : Fits(y, f, V) => Translate(y, f) \in Level(V, n).terms,
           \A y \in Level(W, n).ops : Fits(y, f, V) => Translate(y, f) \in Level(V, n).ops
    PROVE  /\ \A y \in Level(W, n + 1).terms :
                 Fits(y, f, V) => Translate(y, f) \in Level(V, n + 1).terms
           /\ \A y \in Level(W, n + 1).ops :
                 Fits(y, f, V) => Translate(y, f) \in Level(V, n + 1).ops
<1> DEFINE t == Level(W, n).terms
           o == Level(W, n).ops
           tt == Level(V, n).terms
           oo == Level(V, n).ops
           U == Nodes(W, MaxNesting)
<1>1. t \subseteq U /\ o \subseteq U /\ Level(W, n + 1).terms \subseteq U
      /\ Level(W, n + 1).ops \subseteq U /\ \A e \in MapKeys(W) \X t : e[1] \in t /\ e[2] \in t
  BY PlacesOf
<1>2. ASSUME NEW y \in U, Fits(y, f, V)
      PROVE  /\ \A p \in Range(Parts(y)) : p \in t => Translate(p, f) \in tt
             /\ \A p \in Range(Parts(y)) : p \in o => Translate(p, f) \in oo
  <2>1. \A p \in Range(Parts(y)) : Names(p) \subseteq Names(y)
    BY NamesWithin
  <2>2. \A p \in Range(Parts(y)) : Fits(p, f, V)
    BY <1>2, <2>1 DEF Fits
  <2> QED BY <2>2
<1>3. ASSUME NEW y \in Level(W, n + 1).terms, Fits(y, f, V)
      PROVE  Translate(y, f) \in Level(V, n + 1).terms
  <2> DEFINE x == Translate(y, f)
  <2>0. y \in U
    BY <1>1
  <2>1. x \in FixedTerms \/ x \in Named(V) \/ x \in Sets(Level(V, n)) \/ x \in Arrays(Level(V, n))
          \/ x \in Maps(V, Level(V, n)) => x \in Level(V, n + 1).terms
    BY Shapes
  <2>2. CASE y \in FixedTerms
    <3>1. y[1] \in LeafKinds
      BY <2>2, Kinds
    <3>2. x = y
      BY <2>0, <3>1, TranslateIs
    <3> QED BY <2>1, <2>2, <3>2
  <2>3. CASE y \in Named(W)
    <3>1. y[1] \in {"var", "str"}
      BY <2>3, Kinds
    <3>2. x = <<y[1], f[y[2]]>> /\ y[2] \in Names(y)
      BY <2>0, <3>1, TranslateIs, NamesWithin
    <3>3. f[y[2]] \in V
      BY <1>3, <3>2 DEF Fits
    <3>4. x \in Named(V)
      BY <3>1, <3>2, <3>3 DEF Named
    <3> QED BY <2>1, <3>4
  <2>4. CASE y \in Sets(Level(W, n))
    <3>1. y[1] = "set" /\ y[2] \subseteq t /\ IsFiniteSet(y[2])
      BY <2>4, Kinds
    <3>2. x = <<"set", {Translate(z, f) : z \in y[2]}>> /\ Range(Parts(y)) = y[2]
      BY <2>0, <3>1, TranslateIs, OverParts
    <3> DEFINE h == [z \in y[2] |-> Translate(z, f)]
               S == {Translate(z, f) : z \in y[2]}
    <3>3. S = {h[z] : z \in y[2]} /\ DOMAIN h = y[2]
      OBVIOUS
    <3> HIDE DEF h
    <3>4. IsFiniteSet({h[z] : z \in y[2]})
      BY <3>1, <3>3, ImageIsFinite
    <3>5. \A z \in y[2] : Translate(z, f) \in tt
      BY <1>2, <1>3, <2>0, <3>1, <3>2
    <3>6. S \subseteq tt /\ IsFiniteSet(S)
      BY <3>3, <3>4, <3>5
    <3>7. x \in Sets(Level(V, n))
      BY <3>2, <3>6, MadeOf
    <3> QED BY <2>1, <3>7
  <2>5. CASE y \in Arrays(Level(W, n))
    <3>1. y[1] = "array" /\ y[2] \in Seq(t) /\ Parts(y) = y[2]
      BY <2>5, Kinds DEF Parts
    <3>2. x = <<"array", [i \in DOMAIN y[2] |-> Translate(y[2][i], f)]>>
      BY <2>0, <3>1, TranslateIs
    <3>3. \A i \in DOMAIN y[2] : y[2][i] \in Range(Parts(y)) /\ y[2][i] \in t
      BY <3>1 DEF Range
    <3>4. \A i \in DOMAIN y[2] : Translate(y[2][i], f) \in tt
      BY <1>2, <1>3, <2>0, <3>3
    <3>5. Len(y[2]) \in Nat /\ DOMAIN y[2] = 1..Len(y[2])
      BY <3>1, LenProperties
    <3>6. [i \in DOMAIN y[2] |-> Translate(y[2][i], f)] \in Seq(tt)
      BY <3>4, <3>5, SeqDef
    <3>7. x \in Arrays(Level(V, n))
      BY <3>2, <3>6 DEF Arrays
    <3> QED BY <2>1, <3>7
  <2>6. CASE y \in Maps(W, Level(W, n))
    <3>1. y[1] = "map" /\ y[2] \subseteq MapKeys(W) \X t /\ IsFiniteSet(y[2])
      BY <2>6, Kinds
    <3> DEFINE h == [e \in y[2] |-> <<Translate(e[1], f), Translate(e[2], f)>>]
               S == {<<Translate(e[1], f), Translate(e[2], f)>> : e \in y[2]}
    <3>2. x = <<"map", S>> /\ Range(Parts(y)) = UNION {{e[1], e[2]} : e \in y[2]}
      BY <2>0, <3>1, TranslateIs, OverParts
    <3>3. S = {h[e] : e \in y[2]} /\ DOMAIN h = y[2]
      OBVIOUS
    <3> HIDE DEF h
    <3>4. IsFiniteSet({h[e] : e \in y[2]})
      BY <3>1, <3>3, ImageIsFinite
    <3>5. ASSUME NEW e \in y[2]
          PROVE  Translate(e[1], f) \in MapKeys(V) /\ Translate(e[2], f) \in tt
      <4>1. e[1] \in t /\ e[2] \in t /\ e[1] \in Range(Parts(y)) /\ e[2] \in Range(Parts(y))
        BY <1>1, <3>1, <3>2
      <4>2. Translate(e[2], f) \in tt
        BY <1>2, <1>3, <2>0, <4>1
      <4>3. e[1] \in U /\ Names(e[1]) \subseteq Names(y)
        BY <2>0, <4>1, NamesWithin
      <4>4. CASE e[1] \in {"str"} \X W
        <5>1. Translate(e[1], f) = <<"str", f[e[1][2]]>> /\ e[1][2] \in Names(e[1])
          BY <4>3, <4>4, TranslateIs, NamesWithin
        <5>2. f[e[1][2]] \in V
          BY <1>3, <4>3, <5>1 DEF Fits
        <5> QED BY <4>2, <5>1, <5>2 DEF MapKeys
      <4>5. CASE e[1] \in ({"int"} \X Int) \cup ({"param"} \X STRING)
        <5>1. e[1][1] \in LeafKinds
          BY <4>5 DEF LeafKinds
        <5>2. Translate(e[1], f) = e[1]
          BY <4>3, <5>1, TranslateIs
        <5> QED BY <4>2, <4>5, <5>2 DEF MapKeys
      <4>6. e[1] \in MapKeys(W)
        BY <3>1
      <4> QED BY <4>4, <4>5, <4>6 DEF MapKeys
    <3>6. S \subseteq MapKeys(V) \X tt /\ IsFiniteSet(S)
      <4>1. ASSUME NEW z \in S
            PROVE  z \in MapKeys(V) \X tt
        <5>1. PICK e \in y[2] : z = <<Translate(e[1], f), Translate(e[2], f)>>
          OBVIOUS
        <5>2. Translate(e[1], f) \in MapKeys(V) /\ Translate(e[2], f) \in tt
          BY <3>5
        <5> HIDE DEF tt
        <5> QED BY ONLY <5>1, <5>2
      <4> QED BY <3>3, <3>4, <4>1
    <3>7. \A R : /\ R \subseteq MapKeys(V) \X tt /\ IsFiniteSet(R)
                 /\ \A d, e \in R : d[1] = e[1] => d = e
                 => <<"map", R>> \in Maps(V, Level(V, n))
      BY MadeOf
    <3>8. ASSUME NEW d \in y[2], NEW e \in y[2], Translate(d[1], f) = Translate(e[1], f)
          PROVE  d = e
      <4>1. /\ d[1] \in Range(Parts(y)) /\ e[1] \in Range(Parts(y))
            /\ d[1] \in MapKeys(W) /\ e[1] \in MapKeys(W)
        BY <3>1, <3>2
      <4>2. /\ d[1] \in U /\ Names(d[1]) \subseteq Names(y)
            /\ e[1] \in U /\ Names(e[1]) \subseteq Names(y)
        BY <2>0, <4>1, NamesWithin
      <4>3. d[1][1] = e[1][1]
        BY <3>8, <4>2, KindKept
      <4>4. CASE d[1][1] = "str"
        <5>a. Translate(d[1], f) = <<d[1][1], f[d[1][2]]>> /\ d[1][2] \in Names(d[1])
          BY <4>2, <4>4, TranslateIs, NamesWithin
        <5>b. e[1][1] = "str"
          BY <4>3, <4>4
        <5>c. Translate(e[1], f) = <<e[1][1], f[e[1][2]]>> /\ e[1][2] \in Names(e[1])
          BY <4>2, <5>b, TranslateIs, NamesWithin
        <5>1. d[1][2] \in Names(d[1]) /\ e[1][2] \in Names(e[1])
          BY <5>a, <5>c
        <5>d. <<d[1][1], f[d[1][2]]>> = <<e[1][1], f[e[1][2]]>>
          BY <3>8, <5>a, <5>c
        <5>2. f[d[1][2]] = f[e[1][2]]
          BY <5>d
        <5>3. d[1][2] = e[1][2]
          BY <1>3, <4>2, <5>1, <5>2 DEF Fits
        <5>4. d[1] = e[1]
          BY <4>1, <4>3, <5>3 DEF MapKeys
        <5> QED BY <2>6, <5>4, Kinds
      <4>5. CASE d[1][1] # "str"
        <5>1. d[1][1] \in LeafKinds
          BY <4>1, <4>5 DEF MapKeys, LeafKinds
        <5>2. Translate(d[1], f) = d[1] /\ Translate(e[1], f) = e[1]
          BY <4>2, <4>3, <5>1, TranslateIs
        <5> QED BY <2>6, <3>8, <5>2, Kinds
      <4> QED BY <4>4, <4>5
    <3>9. ASSUME NEW a \in S, NEW b \in S, a[1] = b[1]
          PROVE  a = b
      <4>1. PICK d \in y[2] : a = <<Translate(d[1], f), Translate(d[2], f)>>
        OBVIOUS
      <4>2. PICK e \in y[2] : b = <<Translate(e[1], f), Translate(e[2], f)>>
        OBVIOUS
      <4>3. Translate(d[1], f) = Translate(e[1], f)
        BY <3>9, <4>1, <4>2
      <4>4. d = e
        BY <3>8, <4>3
      <4> QED BY <4>1, <4>2, <4>4
    <3> HIDE DEF S, tt, x
    <3>10. <<"map", S>> \in Maps(V, Level(V, n))
      BY <3>6, <3>7, <3>9
    <3> QED BY <2>1, <3>2, <3>10 DEF x
  <2>7. \/ y \in FixedTerms \/ y \in Named(W) \/ y \in Sets(Level(W, n))
        \/ y \in Arrays(Level(W, n)) \/ y \in Maps(W, Level(W, n))
    BY <1>3, Shapes
  <2> QED BY <2>2, <2>3, <2>4, <2>5, <2>6, <2>7
<1>4. ASSUME NEW y \in Level(W, n + 1).ops, Fits(y, f, V)
      PROVE  Translate(y, f) \in Level(V, n + 1).ops
  <2> DEFINE x == Translate(y, f)
  <2>0. y \in U
    BY <1>1
  <2>1. x \in FixedOps \/ x \in Calls(V) \/ x \in Held(Level(V, n))
          \/ x \in Closures(V, Level(V, n)) => x \in Level(V, n + 1).ops
    BY Shapes
  <2>2. CASE y \in FixedOps
    <3>1. y[1] \in {"unary", "binary"} /\ y[2] # "Ffi"
      BY <2>2, Kinds
    <3>2. x = y
      BY <2>0, <3>1, TranslateIs
    <3> QED BY <2>1, <2>2, <3>2
  <2>3. CASE y \in Calls(W)
    <3>1. y[1] \in {"unary", "binary"} /\ y[2] = "Ffi"
      BY <2>3, Kinds
    <3>2. x = <<y[1], y[2], f[y[3]]>> /\ y[3] \in Names(y)
      BY <2>0, <3>1, TranslateIs, NamesWithin
    <3>3. f[y[3]] \in V
      BY <1>4, <3>2 DEF Fits
    <3>4. x \in Calls(V)
      BY <3>1, <3>2, <3>3 DEF Calls
    <3> QED BY <2>1, <3>4
  <2>4. CASE y \in Held(Level(W, n))
    <3>1. y[1] = "value" /\ y[2] \in t
      BY <2>4, Kinds
    <3>2. x = <<"value", Translate(y[2], f)>> /\ y[2] \in Range(Parts(y))
      BY <2>0, <3>1, TranslateIs DEF Parts, Range
    <3>3. Translate(y[2], f) \in tt
      BY <1>2, <1>4, <2>0, <3>1, <3>2
    <3>4. x \in Held(Level(V, n))
      BY <3>2, <3>3 DEF Held
    <3> QED BY <2>1, <3>4
  <2>5. CASE y \in Closures(W, Level(W, n))
    <3>1. y[1] = "closure" /\ y[2] \in Seq(W) /\ y[3] \in Seq(o) /\ Parts(y) = y[3]
      BY <2>5, Kinds DEF Parts
    <3>2. x = <<"closure", [i \in DOMAIN y[2] |-> f[y[2][i]]],
                [i \in DOMAIN y[3] |-> Translate(y[3][i], f)]>> /\ Range(y[2]) \subseteq Names(y)
      BY <2>0, <3>1, TranslateIs, NamesWithin
    <3>3. \A i \in DOMAIN y[3] : y[3][i] \in Range(Parts(y)) /\ y[3][i] \in o
      BY <3>1 DEF Range
    <3>4. \A i \in DOMAIN y[3] : Translate(y[3][i], f) \in oo
      BY <1>2, <1>4, <2>0, <3>3
    <3>5. \A i \in DOMAIN y[2] : f[y[2][i]] \in V
      BY <1>4, <3>2 DEF Fits, Range
    <3>6. /\ Len(y[2]) \in Nat /\ DOMAIN y[2] = 1..Len(y[2])
          /\ Len(y[3]) \in Nat /\ DOMAIN y[3] = 1..Len(y[3])
      BY <3>1, LenProperties
    <3>7. [i \in DOMAIN y[2] |-> f[y[2][i]]] \in Seq(V)
      BY <3>5, <3>6, SeqDef
    <3>8. [i \in DOMAIN y[3] |-> Translate(y[3][i], f)] \in Seq(oo)
      BY <3>4, <3>6, SeqDef
    <3>9. x \in Closures(V, Level(V, n))
      BY <3>2, <3>7, <3>8, MadeOf
    <3> QED BY <2>1, <3>9
  <2>6. \/ y \in FixedOps \/ y \in Calls(W) \/ y \in Held(Level(W, n))
        \/ y \in Closures(W, Level(W, n))
    BY <1>4, Shapes
  <2> QED BY <2>2, <2>3, <2>4, <2>5, <2>6
<1> QED BY <1>3, <1>4

LEMMA TranslateType ==
    ASSUME NEW W, NEW V, NEW f
    PROVE  /\ \A y \in TermsOver(W) : Fits(y, f, V) => Translate(y, f) \in TermsOver(V)
           /\ \A y \in OpsOver(W) : Fits(y, f, V) => Translate(y, f) \in OpsOver(V)
<1> DEFINE Typed(n) ==
               /\ \A y \in Level(W, n).terms : Fits(y, f, V) => Translate(y, f) \in Level(V, n).terms
               /\ \A y \in Level(W, n).ops : Fits(y, f, V) => Translate(y, f) \in Level(V, n).ops
           T == {n \in Nat : n <= MaxNesting => Typed(n)}
<1>1. 0 \in T
  BY LevelFacts
<1>2. ASSUME NEW n \in Nat, n \in T, n + 1 <= MaxNesting
      PROVE  Typed(n + 1)
  <2>1. n < MaxNesting /\ n <= MaxNesting
    BY <1>2, NestingAssumption
  <2>2. Typed(n)
    BY <1>2, <2>1
  <2> QED BY <2>1, <2>2, TranslateStep
<1> HIDE DEF Typed
<1>3. \A n \in Nat : n \in T => n + 1 \in T
  BY <1>2
<1> HIDE DEF T
<1>4. MaxNesting \in T /\ MaxNesting <= MaxNesting
  BY <1>1, <1>3, NumberInduction, NestingAssumption
<1>5. Typed(MaxNesting)
  BY <1>4 DEF T
<1> QED BY <1>5 DEF Typed, Level, TermsOver, OpsOver

\* The kinds of terms and operations, and what is in each.
LEMMA OverKinds ==
    ASSUME NEW W, NEW y \in Nodes(W, MaxNesting)
    PROVE  /\ y[1] \in LeafKinds \cup {"var", "str", "set", "array", "map"}
                          \cup {"unary", "binary", "value", "closure"}
           /\ y[1] \in {"var", "str"} => y = <<y[1], y[2]>> /\ y[2] \in W
           /\ y[1] = "set" => y = <<"set", y[2]>> /\ y[2] \subseteq TermsOver(W) /\ IsFiniteSet(y[2])
           /\ y[1] = "array" => y = <<"array", y[2]>> /\ y[2] \in Seq(TermsOver(W))
           /\ y[1] = "map" => /\ y = <<"map", y[2]>> /\ y[2] \subseteq MapKeys(W) \X TermsOver(W)
                              /\ IsFiniteSet(y[2]) /\ \A d, e \in y[2] : d[1] = e[1] => d = e
           /\ y[1] = "value" => y = <<"value", y[2]>> /\ y[2] \in TermsOver(W)
           /\ y[1] = "closure" => /\ y = <<"closure", y[2], y[3]>>
                                  /\ y[2] \in Seq(W) /\ y[3] \in Seq(OpsOver(W))
           /\ y[1] \in {"unary", "binary"} => \/ y[2] = "Ffi" /\ y = <<y[1], y[2], y[3]>> /\ y[3] \in W
                                              \/ y[2] # "Ffi" /\ y = <<y[1], y[2]>>
           /\ y \in TermsOver(W) <=> y[1] \notin {"unary", "binary", "value", "closure"}
<1> USE DEF LeafKinds
<1>0. Over(W).terms = TermsOver(W) /\ Over(W).ops = OpsOver(W)
  BY DEF Over
<1>1. CASE y \in TermsOver(W)
  <2>1. \/ y \in FixedTerms \/ y \in Named(W) \/ y \in Sets(Over(W))
        \/ y \in Arrays(Over(W)) \/ y \in Maps(W, Over(W))
    BY <1>1, OverShapes
  <2>2. CASE y \in FixedTerms
    BY <1>1, <2>2, Kinds
  <2>3. CASE y \in Named(W)
    BY <1>1, <2>3, Kinds
  <2>4. CASE y \in Sets(Over(W))
    <3>1. y[1] = "set" /\ y = <<y[1], y[2]>> /\ y[2] \subseteq Over(W).terms /\ IsFiniteSet(y[2])
      BY <2>4, Kinds
    <3>2. y = <<"set", y[2]>> /\ y[2] \subseteq TermsOver(W)
      BY <1>0, <3>1
    <3> QED BY <1>1, <3>1, <3>2
  <2>5. CASE y \in Arrays(Over(W))
    BY <1>0, <1>1, <2>5, Kinds
  <2>6. CASE y \in Maps(W, Over(W))
    BY <1>0, <1>1, <2>6, Kinds
  <2> QED BY <2>1, <2>2, <2>3, <2>4, <2>5, <2>6
<1>2. CASE y \notin TermsOver(W)
  <2>0. y \in OpsOver(W)
    BY <1>2, NodesNested
  <2>1. y \in FixedOps \/ y \in Calls(W) \/ y \in Held(Over(W)) \/ y \in Closures(W, Over(W))
    BY <2>0, OverShapes
  <2>2. CASE y \in FixedOps
    BY <1>2, <2>2, Kinds
  <2>3. CASE y \in Calls(W)
    BY <1>2, <2>3, Kinds
  <2>4. CASE y \in Held(Over(W))
    BY <1>0, <1>2, <2>4, Kinds
  <2>5. CASE y \in Closures(W, Over(W))
    BY <1>0, <1>2, <2>5, Kinds
  <2> QED BY <2>1, <2>2, <2>3, <2>4, <2>5
<1> QED BY <1>1, <1>2

\* A table that keeps the names of a term keeps the term.
LEMMA TranslateSame ==
    ASSUME NEW W, NEW f
    PROVE  \A x \in Nodes(W, MaxNesting) : (\A w \in Names(x) : f[w] = w) => Translate(x, f) = x
<1> DEFINE U == Nodes(W, MaxNesting)
           T == {y \in U : (\A w \in Names(y) : f[w] = w) => Translate(y, f) = y}
<1>1. ASSUME NEW y \in U, Range(Parts(y)) \subseteq T, \A w \in Names(y) : f[w] = w
      PROVE  Translate(y, f) = y
  <2>1. \A p \in Range(Parts(y)) : Translate(p, f) = p
    BY <1>1, NamesWithin
  <2>2. CASE y[1] \in LeafKinds
    BY <2>2, TranslateIs
  <2>3. CASE y[1] \in {"var", "str"}
    <3>1. y[2] \in Names(y) /\ Translate(y, f) = <<y[1], f[y[2]]>> /\ y = <<y[1], y[2]>>
      BY <2>3, NamesWithin, TranslateIs, OverKinds
    <3> QED BY <1>1, <3>1
  <2>4. CASE y[1] = "set"
    <3>1. Translate(y, f) = <<"set", {Translate(t, f) : t \in y[2]}>> /\ y = <<"set", y[2]>>
          /\ Range(Parts(y)) = y[2]
      BY <2>4, TranslateIs, OverParts, OverKinds
    <3>2. {Translate(t, f) : t \in y[2]} = y[2]
      BY <2>1, <3>1
    <3> QED BY <3>1, <3>2
  <2>5. CASE y[1] = "array"
    <3>1. Translate(y, f) = <<"array", [i \in DOMAIN y[2] |-> Translate(y[2][i], f)]>>
          /\ y = <<"array", y[2]>> /\ y[2] \in Seq(TermsOver(W))
      BY <2>5, TranslateIs, OverKinds
    <3>2. \A i \in DOMAIN y[2] : Translate(y[2][i], f) = y[2][i]
      BY <2>1, <2>5 DEF Parts, Range
    <3>3. [i \in DOMAIN y[2] |-> Translate(y[2][i], f)] = y[2]
      BY <3>1, <3>2
    <3> QED BY <3>1, <3>3
  <2>6. CASE y[1] = "map"
    <3>1. /\ Translate(y, f) = <<"map", {<<Translate(e[1], f), Translate(e[2], f)>> : e \in y[2]}>>
          /\ Range(Parts(y)) = UNION {{e[1], e[2]} : e \in y[2]}
          /\ y = <<"map", y[2]>> /\ y[2] \subseteq MapKeys(W) \X TermsOver(W)
      BY <2>6, TranslateIs, OverParts, OverKinds
    <3>2. \A e \in y[2] : <<Translate(e[1], f), Translate(e[2], f)>> = e
      BY <2>1, <3>1
    <3>3. {<<Translate(e[1], f), Translate(e[2], f)>> : e \in y[2]} = y[2]
      BY <3>2
    <3> QED BY <3>1, <3>3
  <2>7. CASE y[1] = "value"
    <3>1. Translate(y, f) = <<"value", Translate(y[2], f)>> /\ y = <<"value", y[2]>>
      BY <2>7, TranslateIs, OverKinds
    <3>2. Translate(y[2], f) = y[2]
      BY <2>1, <2>7 DEF Parts, Range
    <3> QED BY <3>1, <3>2
  <2>8. CASE y[1] = "closure"
    <3>1. /\ Translate(y, f) = <<"closure", [i \in DOMAIN y[2] |-> f[y[2][i]]],
                                [i \in DOMAIN y[3] |-> Translate(y[3][i], f)]>>
          /\ y = <<"closure", y[2], y[3]>> /\ y[2] \in Seq(W) /\ y[3] \in Seq(OpsOver(W))
          /\ Range(y[2]) \subseteq Names(y)
      BY <2>8, TranslateIs, OverKinds, NamesWithin
    <3>2. \A i \in DOMAIN y[3] : Translate(y[3][i], f) = y[3][i]
      BY <2>1, <2>8 DEF Parts, Range
    <3>3. [i \in DOMAIN y[3] |-> Translate(y[3][i], f)] = y[3]
      BY <3>1, <3>2
    <3>4. \A i \in DOMAIN y[2] : f[y[2][i]] = y[2][i]
      BY <1>1, <3>1 DEF Range
    <3>5. [i \in DOMAIN y[2] |-> f[y[2][i]]] = y[2]
      BY <3>1, <3>4
    <3> QED BY <3>1, <3>3, <3>5
  <2>9. CASE y[1] \in {"unary", "binary"}
    <3>1. CASE y[2] = "Ffi"
      <4>1. Translate(y, f) = <<y[1], y[2], f[y[3]]>> /\ y[3] \in Names(y) /\ y = <<y[1], y[2], y[3]>>
        BY <2>9, <3>1, TranslateIs, OverKinds, NamesWithin
      <4> QED BY <1>1, <4>1
    <3>2. CASE y[2] # "Ffi"
      BY <2>9, <3>2, TranslateIs
    <3> QED BY <3>1, <3>2
  <2> QED BY <2>2, <2>3, <2>4, <2>5, <2>6, <2>7, <2>8, <2>9, OverKinds
<1>2. \A y \in U : Range(Parts(y)) \subseteq T => y \in T
  BY <1>1
<1> HIDE DEF T
<1>3. U \subseteq T
  BY <1>2, NodeInduction
<1> QED BY <1>3 DEF T

\* The parts and the names of what is translated.
LEMMA PartsOfTranslate ==
    ASSUME NEW W, NEW V, NEW f, NEW y \in Nodes(W, MaxNesting), Fits(y, f, V)
    PROVE  /\ Translate(y, f) \in Nodes(V, MaxNesting)
           /\ Range(Parts(Translate(y, f))) = {Translate(p, f) : p \in Range(Parts(y))}
           /\ OwnNames(Translate(y, f)) = {f[w] : w \in OwnNames(y)}
<1> DEFINE x == Translate(y, f)
<1>1. x \in Nodes(V, MaxNesting)
  BY TranslateType, NodesNested
<1>2. x[1] = y[1]
  BY KindKept
<1>3. CASE y[1] \in LeafKinds
  <2>1. x = y
    BY <1>3, TranslateIs
  <2>2. Parts(y) = << >> /\ OwnWords(y) = << >>
    BY <1>3 DEF Parts, OwnWords, LeafKinds
  <2>3. Range(<< >>) = {}
    BY DEF Range
  <2> QED BY <1>1, <2>1, <2>2, <2>3 DEF OwnNames
<1>4. CASE y[1] \in {"var", "str"}
  <2>1. x = <<y[1], f[y[2]]>>
    BY <1>4, TranslateIs
  <2>2. Parts(y) = << >> /\ Parts(x) = << >> /\ OwnWords(y) = <<y[2]>> /\ OwnWords(x) = <<f[y[2]]>>
    BY <1>4, <2>1 DEF Parts, OwnWords
  <2>3. Range(<< >>) = {} /\ Range(<<y[2]>>) = {y[2]} /\ Range(<<f[y[2]]>>) = {f[y[2]]}
    BY DEF Range
  <2> QED BY <1>1, <2>2, <2>3 DEF OwnNames
<1>5. CASE y[1] = "set"
  <2>1. x = <<"set", {Translate(t, f) : t \in y[2]}>> /\ Range(Parts(y)) = y[2]
    BY <1>5, TranslateIs, OverParts
  <2>2. Range(Parts(x)) = x[2]
    BY <1>1, <1>2, <1>5, OverParts
  <2>3. OwnWords(y) = << >> /\ OwnWords(x) = << >> /\ Range(<< >>) = {}
    BY <1>2, <1>5 DEF OwnWords, Range
  <2>4. x[2] = {Translate(t, f) : t \in y[2]}
    BY <2>1
  <2>5. OwnNames(y) = {} /\ OwnNames(x) = {}
    BY <2>3 DEF OwnNames
  <2> HIDE DEF x
  <2>6. Range(Parts(x)) = {Translate(p, f) : p \in Range(Parts(y))}
    BY <2>1, <2>2, <2>4
  <2> QED BY <1>1, <2>5, <2>6 DEF x
<1>6. CASE y[1] = "array"
  <2>1. x = <<"array", [i \in DOMAIN y[2] |-> Translate(y[2][i], f)]>>
    BY <1>6, TranslateIs
  <2>2. Parts(y) = y[2] /\ Parts(x) = [i \in DOMAIN y[2] |-> Translate(y[2][i], f)]
    BY <1>6, <2>1 DEF Parts
  <2>3. Range(Parts(x)) = {Translate(p, f) : p \in Range(Parts(y))}
    BY <2>2 DEF Range
  <2>4. OwnWords(y) = << >> /\ OwnWords(x) = << >> /\ Range(<< >>) = {}
    BY <1>2, <1>6 DEF OwnWords, Range
  <2> QED BY <1>1, <2>3, <2>4 DEF OwnNames
<1>7. CASE y[1] = "map"
  <2>1. /\ x = <<"map", {<<Translate(e[1], f), Translate(e[2], f)>> : e \in y[2]}>>
        /\ Range(Parts(y)) = UNION {{e[1], e[2]} : e \in y[2]}
    BY <1>7, TranslateIs, OverParts
  <2>2. Range(Parts(x)) = UNION {{e[1], e[2]} : e \in x[2]}
    BY <1>1, <1>2, <1>7, OverParts
  <2>3. ASSUME NEW z
        PROVE  z \in Range(Parts(x)) <=> z \in {Translate(p, f) : p \in Range(Parts(y))}
    <3>1. z \in Range(Parts(x)) <=> \E d \in x[2] : z = d[1] \/ z = d[2]
      BY <2>2
    <3>2. (\E d \in x[2] : z = d[1] \/ z = d[2])
             <=> \E e \in y[2] : z = Translate(e[1], f) \/ z = Translate(e[2], f)
      <4>1. x[2] = {<<Translate(e[1], f), Translate(e[2], f)>> : e \in y[2]}
        BY <2>1
      <4> HIDE DEF x
      <4>2. \A e \in y[2] : <<Translate(e[1], f), Translate(e[2], f)>> \in x[2]
        BY <4>1
      <4>3. \A d \in x[2] : \E e \in y[2] : d = <<Translate(e[1], f), Translate(e[2], f)>>
        BY <4>1
      <4>4. ASSUME NEW d \in x[2], z = d[1] \/ z = d[2]
            PROVE  \E e \in y[2] : z = Translate(e[1], f) \/ z = Translate(e[2], f)
        <5>1. PICK e \in y[2] : d = <<Translate(e[1], f), Translate(e[2], f)>>
          BY <4>3
        <5>2. z = Translate(e[1], f) \/ z = Translate(e[2], f)
          BY <4>4, <5>1
        <5> QED BY <5>2
      <4>5. ASSUME NEW e \in y[2], z = Translate(e[1], f) \/ z = Translate(e[2], f)
            PROVE  \E d \in x[2] : z = d[1] \/ z = d[2]
        <5>1. PICK d \in x[2] : d = <<Translate(e[1], f), Translate(e[2], f)>>
          BY <4>2
        <5>2. d[1] = Translate(e[1], f) /\ d[2] = Translate(e[2], f)
          BY <5>1
        <5> QED BY <4>5, <5>2
      <4> QED BY <4>4, <4>5
    <3>3. (\E p \in Range(Parts(y)) : z = Translate(p, f))
             <=> \E e \in y[2] : z = Translate(e[1], f) \/ z = Translate(e[2], f)
      BY <2>1
    <3> QED BY <3>1, <3>2, <3>3
  <2>4. Range(Parts(x)) = {Translate(p, f) : p \in Range(Parts(y))}
    BY <2>3
  <2>5. OwnWords(y) = << >> /\ OwnWords(x) = << >> /\ Range(<< >>) = {}
    BY <1>2, <1>7 DEF OwnWords, Range
  <2> QED BY <1>1, <2>4, <2>5 DEF OwnNames
<1>8. CASE y[1] = "value"
  <2>1. x = <<"value", Translate(y[2], f)>>
    BY <1>8, TranslateIs
  <2>2. Parts(y) = <<y[2]>> /\ Parts(x) = <<Translate(y[2], f)>>
    BY <1>8, <2>1 DEF Parts
  <2>3. Range(Parts(y)) = {y[2]} /\ Range(Parts(x)) = {Translate(y[2], f)}
    BY <2>2 DEF Range
  <2>4. OwnWords(y) = << >> /\ OwnWords(x) = << >> /\ Range(<< >>) = {}
    BY <1>2, <1>8 DEF OwnWords, Range
  <2> QED BY <1>1, <2>3, <2>4 DEF OwnNames
<1>9. CASE y[1] = "closure"
  <2>1. x = <<"closure", [i \in DOMAIN y[2] |-> f[y[2][i]]],
              [i \in DOMAIN y[3] |-> Translate(y[3][i], f)]>>
    BY <1>9, TranslateIs
  <2>2. /\ Parts(y) = y[3] /\ Parts(x) = [i \in DOMAIN y[3] |-> Translate(y[3][i], f)]
        /\ OwnWords(y) = y[2] /\ OwnWords(x) = [i \in DOMAIN y[2] |-> f[y[2][i]]]
    BY <1>9, <2>1 DEF Parts, OwnWords
  <2>3. Range(Parts(x)) = {Translate(p, f) : p \in Range(Parts(y))}
    BY <2>2 DEF Range
  <2>4. OwnNames(x) = {f[w] : w \in OwnNames(y)}
    BY <2>2 DEF OwnNames, Range
  <2> QED BY <1>1, <2>3, <2>4
<1>10. CASE y[1] \in {"unary", "binary"}
  <2>1. Parts(x) = << >> /\ Parts(y) = << >> /\ Range(<< >>) = {}
    BY <1>2, <1>10 DEF Parts, Range
  <2>2. CASE y[2] = "Ffi"
    <3>1. x = <<y[1], y[2], f[y[3]]>>
      BY <1>10, <2>2, TranslateIs
    <3>2. OwnWords(y) = <<y[3]>> /\ OwnWords(x) = <<f[y[3]]>>
      BY <1>10, <2>2, <3>1 DEF OwnWords
    <3>3. OwnNames(y) = {y[3]} /\ OwnNames(x) = {f[y[3]]}
      BY <3>2 DEF OwnNames, Range
    <3> QED BY <1>1, <2>1, <3>3
  <2>3. CASE y[2] # "Ffi"
    <3>1. x = y
      BY <1>10, <2>3, TranslateIs
    <3>2. OwnWords(y) = << >>
      BY <1>10, <2>3 DEF OwnWords
    <3> QED BY <1>1, <2>1, <3>1, <3>2 DEF OwnNames
  <2> QED BY <2>2, <2>3
<1> HIDE DEF x
<1>11. /\ x \in Nodes(V, MaxNesting)
       /\ Range(Parts(x)) = {Translate(p, f) : p \in Range(Parts(y))}
       /\ OwnNames(x) = {f[w] : w \in OwnNames(y)}
  BY <1>3, <1>4, <1>5, <1>6, <1>7, <1>8, <1>9, <1>10, OverKinds DEF x
<1> QED BY <1>11 DEF x

LEMMA NamesOfTranslate ==
    ASSUME NEW W, NEW V, NEW f
    PROVE  \A x \in Nodes(W, MaxNesting) :
              Fits(x, f, V) => Names(Translate(x, f)) = {f[w] : w \in Names(x)}
<1> DEFINE U == Nodes(W, MaxNesting)
           T == {y \in U : Fits(y, f, V) => Names(Translate(y, f)) = {f[w] : w \in Names(y)}}
<1>1. ASSUME NEW y \in U, Range(Parts(y)) \subseteq T, Fits(y, f, V)
      PROVE  Names(Translate(y, f)) = {f[w] : w \in Names(y)}
  <2>1. \A p \in Range(Parts(y)) : Names(Translate(p, f)) = {f[w] : w \in Names(p)}
    BY <1>1, NamesWithin DEF Fits
  <2>2. /\ Translate(y, f) \in Nodes(V, MaxNesting)
        /\ Range(Parts(Translate(y, f))) = {Translate(p, f) : p \in Range(Parts(y))}
        /\ OwnNames(Translate(y, f)) = {f[w] : w \in OwnNames(y)}
    BY <1>1, PartsOfTranslate
  <2>3. Names(y) = OwnNames(y) \cup UNION {Names(p) : p \in Range(Parts(y))}
    BY WordsType
  <2>4. Names(Translate(y, f)) = OwnNames(Translate(y, f))
                                    \cup UNION {Names(q) : q \in Range(Parts(Translate(y, f)))}
    BY <2>2, WordsType
  <2>5. UNION {Names(q) : q \in Range(Parts(Translate(y, f)))}
           = UNION {{f[w] : w \in Names(p)} : p \in Range(Parts(y))}
    BY <2>1, <2>2
  <2> QED BY <2>2, <2>3, <2>4, <2>5
<1>2. \A y \in U : Range(Parts(y)) \subseteq T => y \in T
  BY <1>1
<1> HIDE DEF T
<1>3. U \subseteq T
  BY <1>2, NodeInduction
<1> QED BY <1>3 DEF T

\* What is in a translated term is what is in the term, translated.
LEMMA WithinTranslate ==
    ASSUME NEW W, NEW V, NEW f
    PROVE  \A x \in Nodes(W, MaxNesting) :
              Fits(x, f, V) => /\ \A y \in Within(x) : Fits(y, f, V)
                               /\ Within(Translate(x, f)) = {Translate(y, f) : y \in Within(x)}
<1> DEFINE U == Nodes(W, MaxNesting)
           Same(y) == /\ \A z \in Within(y) : Fits(z, f, V)
                      /\ Within(Translate(y, f)) = {Translate(z, f) : z \in Within(y)}
           T == {y \in U : Fits(y, f, V) => Same(y)}
<1>1. ASSUME NEW y \in U, Range(Parts(y)) \subseteq T, Fits(y, f, V)
      PROVE  Same(y)
  <2>1. \A p \in Range(Parts(y)) : Same(p)
    <3>1. \A p \in Range(Parts(y)) : Fits(p, f, V)
      BY <1>1, NamesWithin DEF Fits
    <3> HIDE DEF Same
    <3> QED BY <1>1, <3>1
  <2>2. /\ Translate(y, f) \in Nodes(V, MaxNesting)
        /\ Range(Parts(Translate(y, f))) = {Translate(p, f) : p \in Range(Parts(y))}
    BY <1>1, PartsOfTranslate
  <2>3. Within(y) = {y} \cup UNION {Within(p) : p \in Range(Parts(y))}
    BY WithinIs
  <2>4. Within(Translate(y, f)) =
           {Translate(y, f)} \cup UNION {Within(q) : q \in Range(Parts(Translate(y, f)))}
    BY <2>2, WithinIs
  <2>5. UNION {Within(q) : q \in Range(Parts(Translate(y, f)))}
           = UNION {{Translate(z, f) : z \in Within(p)} : p \in Range(Parts(y))}
    BY <2>1, <2>2
  <2>6. \A z \in Within(y) : Fits(z, f, V)
    BY <1>1, <2>1, <2>3
  <2> QED BY <2>3, <2>4, <2>5, <2>6
<1>2. \A y \in U : Range(Parts(y)) \subseteq T => y \in T
  BY <1>1
<1> HIDE DEF T
<1>3. U \subseteq T
  BY <1>2, NodeInduction
<1> QED BY <1>3 DEF T

\* One table after the other.
LEMMA TranslateTwice ==
    ASSUME NEW W, NEW V, NEW f, NEW g, NEW h
    PROVE  \A x \in Nodes(W, MaxNesting) :
              Fits(x, f, V) /\ (\A w \in Names(x) : h[w] = g[f[w]]) =>
                 Translate(Translate(x, f), g) = Translate(x, h)
<1> DEFINE U == Nodes(W, MaxNesting)
           Through(y) == \A w \in Names(y) : h[w] = g[f[w]]
           T == {y \in U : Fits(y, f, V) /\ Through(y) =>
                              Translate(Translate(y, f), g) = Translate(y, h)}
<1>1. ASSUME NEW y \in U, Range(Parts(y)) \subseteq T, Fits(y, f, V), Through(y)
      PROVE  Translate(Translate(y, f), g) = Translate(y, h)
  <2> DEFINE x == Translate(y, f)
  <2>0. x \in Nodes(V, MaxNesting) /\ x[1] = y[1]
    BY <1>1, PartsOfTranslate, KindKept
  <2>1. \A p \in Range(Parts(y)) : Translate(Translate(p, f), g) = Translate(p, h)
    BY <1>1, NamesWithin DEF Fits
  <2>2. CASE y[1] \in LeafKinds
    <3>1. x = y /\ Translate(y, h) = y
      BY <2>2, TranslateIs
    <3>2. Translate(y, g) = y
      BY <2>2, TranslateIs
    <3> QED BY <3>1, <3>2
  <2>3. CASE y[1] \in {"var", "str"}
    <3>1. x = <<y[1], f[y[2]]>> /\ Translate(y, h) = <<y[1], h[y[2]]>> /\ y[2] \in Names(y)
      BY <2>3, TranslateIs, NamesWithin
    <3>2. Translate(x, g) = <<x[1], g[x[2]]>>
      BY <2>0, <2>3, TranslateIs
    <3> QED BY <1>1, <3>1, <3>2
  <2>4. CASE y[1] = "set"
    <3>1. /\ x = <<"set", {Translate(t, f) : t \in y[2]}>>
          /\ Translate(y, h) = <<"set", {Translate(t, h) : t \in y[2]}>>
          /\ Range(Parts(y)) = y[2]
      BY <2>4, TranslateIs, OverParts
    <3>2. Translate(x, g) = <<"set", {Translate(u, g) : u \in x[2]}>>
      BY <2>0, <2>4, TranslateIs
    <3>3. x[2] = {Translate(t, f) : t \in y[2]}
      BY <3>1
    <3> HIDE DEF x
    <3>4. {Translate(u, g) : u \in x[2]} = {Translate(Translate(t, f), g) : t \in y[2]}
      BY <3>3
    <3>5. {Translate(Translate(t, f), g) : t \in y[2]} = {Translate(t, h) : t \in y[2]}
      BY <2>1, <3>1
    <3> QED BY <3>1, <3>2, <3>4, <3>5 DEF x
  <2>5. CASE y[1] = "array"
    <3>1. /\ x = <<"array", [i \in DOMAIN y[2] |-> Translate(y[2][i], f)]>>
          /\ Translate(y, h) = <<"array", [i \in DOMAIN y[2] |-> Translate(y[2][i], h)]>>
      BY <2>5, TranslateIs
    <3>2. Translate(x, g) = <<"array", [i \in DOMAIN x[2] |-> Translate(x[2][i], g)]>>
      BY <2>0, <2>5, TranslateIs
    <3>3. \A i \in DOMAIN y[2] : Translate(Translate(y[2][i], f), g) = Translate(y[2][i], h)
      BY <2>1, <2>5 DEF Parts, Range
    <3>4. /\ DOMAIN x[2] = DOMAIN y[2]
          /\ \A i \in DOMAIN y[2] : x[2][i] = Translate(y[2][i], f)
      BY <3>1
    <3> HIDE DEF x
    <3>5. [i \in DOMAIN x[2] |-> Translate(x[2][i], g)] = [i \in DOMAIN y[2] |-> Translate(y[2][i], h)]
      BY <3>3, <3>4
    <3> QED BY <3>1, <3>2, <3>5 DEF x
  <2>6. CASE y[1] = "map"
    <3>1. /\ x = <<"map", {<<Translate(e[1], f), Translate(e[2], f)>> : e \in y[2]}>>
          /\ Translate(y, h) = <<"map", {<<Translate(e[1], h), Translate(e[2], h)>> : e \in y[2]}>>
          /\ Range(Parts(y)) = UNION {{e[1], e[2]} : e \in y[2]}
      BY <2>6, TranslateIs, OverParts
    <3>2. Translate(x, g) = <<"map", {<<Translate(d[1], g), Translate(d[2], g)>> : d \in x[2]}>>
      BY <2>0, <2>6, TranslateIs
    <3>3. x[2] = {<<Translate(e[1], f), Translate(e[2], f)>> : e \in y[2]}
      BY <3>1
    <3> HIDE DEF x
    <3>4. \A e \in y[2] : /\ Translate(Translate(e[1], f), g) = Translate(e[1], h)
                          /\ Translate(Translate(e[2], f), g) = Translate(e[2], h)
      BY <2>1, <3>1
    <3>5. {<<Translate(d[1], g), Translate(d[2], g)>> : d \in x[2]}
             = {<<Translate(e[1], h), Translate(e[2], h)>> : e \in y[2]}
      <4>1. ASSUME NEW e \in y[2], NEW d, d = <<Translate(e[1], f), Translate(e[2], f)>>
            PROVE  <<Translate(d[1], g), Translate(d[2], g)>> = <<Translate(e[1], h), Translate(e[2], h)>>
        <5>1. d[1] = Translate(e[1], f) /\ d[2] = Translate(e[2], f)
          BY <4>1
        <5> QED BY <3>4, <5>1
      <4>2. \A d \in x[2] : \E e \in y[2] : d = <<Translate(e[1], f), Translate(e[2], f)>>
        BY <3>3
      <4>3. \A e \in y[2] : \E d \in x[2] : d = <<Translate(e[1], f), Translate(e[2], f)>>
        BY <3>3
      <4> QED BY <4>1, <4>2, <4>3
    <3> QED BY <3>1, <3>2, <3>5 DEF x
  <2>7. CASE y[1] = "value"
    <3>1. x = <<"value", Translate(y[2], f)>> /\ Translate(y, h) = <<"value", Translate(y[2], h)>>
      BY <2>7, TranslateIs
    <3>2. Translate(x, g) = <<"value", Translate(x[2], g)>>
      BY <2>0, <2>7, TranslateIs
    <3>3. Translate(Translate(y[2], f), g) = Translate(y[2], h)
      BY <2>1, <2>7 DEF Parts, Range
    <3> QED BY <3>1, <3>2, <3>3
  <2>8. CASE y[1] = "closure"
    <3>1. /\ x = <<"closure", [i \in DOMAIN y[2] |-> f[y[2][i]]],
                   [i \in DOMAIN y[3] |-> Translate(y[3][i], f)]>>
          /\ Translate(y, h) = <<"closure", [i \in DOMAIN y[2] |-> h[y[2][i]]],
                                 [i \in DOMAIN y[3] |-> Translate(y[3][i], h)]>>
          /\ Range(y[2]) \subseteq Names(y)
      BY <2>8, TranslateIs, NamesWithin
    <3>2. Translate(x, g) = <<"closure", [i \in DOMAIN x[2] |-> g[x[2][i]]],
                              [i \in DOMAIN x[3] |-> Translate(x[3][i], g)]>>
      BY <2>0, <2>8, TranslateIs
    <3>3. \A i \in DOMAIN y[3] : Translate(Translate(y[3][i], f), g) = Translate(y[3][i], h)
      BY <2>1, <2>8 DEF Parts, Range
    <3>4. /\ DOMAIN x[3] = DOMAIN y[3]
          /\ \A i \in DOMAIN y[3] : x[3][i] = Translate(y[3][i], f)
          /\ DOMAIN x[2] = DOMAIN y[2]
          /\ \A i \in DOMAIN y[2] : x[2][i] = f[y[2][i]]
      BY <3>1
    <3>5. \A i \in DOMAIN y[2] : h[y[2][i]] = g[f[y[2][i]]]
      BY <1>1, <3>1 DEF Range
    <3> HIDE DEF x
    <3>6. [i \in DOMAIN x[3] |-> Translate(x[3][i], g)] = [i \in DOMAIN y[3] |-> Translate(y[3][i], h)]
      BY <3>3, <3>4
    <3>7. [i \in DOMAIN x[2] |-> g[x[2][i]]] = [i \in DOMAIN y[2] |-> h[y[2][i]]]
      BY <3>4, <3>5
    <3> QED BY <3>1, <3>2, <3>6, <3>7 DEF x
  <2>9. CASE y[1] \in {"unary", "binary"}
    <3>1. CASE y[2] = "Ffi"
      <4>1. /\ x = <<y[1], y[2], f[y[3]]>> /\ Translate(y, h) = <<y[1], y[2], h[y[3]]>>
            /\ y[3] \in Names(y)
        BY <2>9, <3>1, TranslateIs, NamesWithin
      <4>2. Translate(x, g) = <<x[1], x[2], g[x[3]]>>
        BY <2>0, <2>9, <3>1, <4>1, TranslateIs
      <4> QED BY <1>1, <4>1, <4>2
    <3>2. CASE y[2] # "Ffi"
      <4>1. x = y /\ Translate(y, h) = y /\ Translate(y, g) = y
        BY <2>9, <3>2, TranslateIs
      <4> QED BY <4>1
    <3> QED BY <3>1, <3>2
  <2> QED BY <2>2, <2>3, <2>4, <2>5, <2>6, <2>7, <2>8, <2>9, OverKinds
<1>2. \A y \in U : Range(Parts(y)) \subseteq T => y \in T
  BY <1>1
<1> HIDE DEF T
<1>3. U \subseteq T
  BY <1>2, NodeInduction
<1> QED BY <1>3 DEF T

-----------------------------------------------------------------------------
(* A term or an operation on the wire.                                         *)

ToProtoFrom(y, to) ==
    LET All(s) == [i \in DOMAIN s |-> to[s[i]]]
        Entry(e) == <<e[1], to[e[2]]>>
    IN  CASE y[1] = "set"     -> <<"set", All(Listed(y[2]))>>
          [] y[1] = "array"   -> <<"array", All(y[2])>>
          [] y[1] = "map"     ->
                <<"map", [i \in DOMAIN Listed(y[2]) |-> Entry(Listed(y[2])[i])]>>
          [] y[1] = "value"   -> <<"value", to[y[2]]>>
          [] y[1] = "closure" -> <<"closure", y[2], All(y[3])>>
          [] y[1] \in {"unary", "binary"} ->
                <<y[1], y[2], IF y[2] = "Ffi" THEN <<y[3]>> ELSE << >>>>
          [] OTHER            -> y

\* The entries of a map are listed, and their keys and values are parts.
LEMMA ListedEntries ==
    ASSUME NEW W, NEW y \in Nodes(W, MaxNesting), y[1] = "map"
    PROVE  \A i \in DOMAIN Listed(y[2]) :
              Listed(y[2])[i] \in y[2] /\ Listed(y[2])[i][2] \in Range(Parts(y))
<1>1. y[2] \subseteq MapKeys(W) \X TermsOver(W) /\ IsFiniteSet(y[2])
  BY OverKinds
<1>2. Range(Listed(y[2])) = y[2]
  BY <1>1, ListedFacts
<1>3. Range(Parts(y)) = UNION {{e[1], e[2]} : e \in y[2]}
  BY OverParts
<1>4. \A i \in DOMAIN Listed(y[2]) : Listed(y[2])[i] \in y[2]
  BY <1>2 DEF Range
<1> QED BY <1>3, <1>4

LEMMA ToProtoFromSame ==
    ASSUME NEW W, NEW y \in Nodes(W, MaxNesting), NEW a, NEW b,
           \A p \in Range(Parts(y)) : a[p] = b[p]
    PROVE  ToProtoFrom(y, a) = ToProtoFrom(y, b)
<1> USE DEF ToProtoFrom
<1>1. CASE y[1] = "set"
  <2>1. \A i \in DOMAIN Listed(y[2]) : a[Listed(y[2])[i]] = b[Listed(y[2])[i]]
    BY <1>1 DEF Parts, Range
  <2> QED BY <1>1, <2>1
<1>2. CASE y[1] = "array"
  <2>1. \A i \in DOMAIN y[2] : a[y[2][i]] = b[y[2][i]]
    BY <1>2, PartsAgree
  <2> QED BY <1>2, <2>1
<1>3. CASE y[1] = "map"
  <2>1. \A i \in DOMAIN Listed(y[2]) : a[Listed(y[2])[i][2]] = b[Listed(y[2])[i][2]]
    BY <1>3, ListedEntries
  <2> QED BY <1>3, <2>1
<1>4. CASE y[1] = "value"
  <2>1. a[y[2]] = b[y[2]]
    BY <1>4, PartsAgree
  <2> QED BY <1>4, <2>1
<1>5. CASE y[1] = "closure"
  <2>1. \A i \in DOMAIN y[3] : a[y[3][i]] = b[y[3][i]]
    BY <1>5, PartsAgree
  <2> QED BY <1>5, <2>1
<1>6. CASE y[1] \notin {"set", "array", "map", "value", "closure"}
  BY <1>6
<1> QED BY <1>1, <1>2, <1>3, <1>4, <1>5, <1>6

LEMMA ToProtoTable ==
    ASSUME NEW W
    PROVE  \E g : \A y \in Nodes(W, MaxNesting) : g[y] = ToProtoFrom(y, g)
<1> DEFINE U == Nodes(W, MaxNesting)
           L == NodesAt(W)
           Good(g, n) == \A y \in L[n] : g[y] = ToProtoFrom(y, g)
           T == {n \in Nat : n <= MaxNesting => \E g : Good(g, n)}
<1>0. /\ L[0] = {} /\ L[MaxNesting] = U
      /\ \A n \in Nat : n < MaxNesting =>
            L[n] \subseteq L[n + 1] /\ \A y \in L[n + 1] : y \in U /\ Range(Parts(y)) \subseteq L[n]
  BY NodesNested DEF Nested, Below
<1> HIDE DEF L, U
<1>1. 0 \in T
  BY <1>0
<1>2. ASSUME NEW n \in Nat, n \in T, n + 1 <= MaxNesting
      PROVE  \E g : Good(g, n + 1)
  <2>1. n < MaxNesting /\ n <= MaxNesting
    BY <1>2, NestingAssumption
  <2>2. PICK g : Good(g, n)
    BY <1>2, <2>1
  <2>3. /\ L[n] \subseteq L[n + 1]
        /\ \A y \in L[n + 1] : y \in U /\ Range(Parts(y)) \subseteq L[n]
    BY <1>0, <2>1
  <2> DEFINE h == [y \in L[n + 1] |-> ToProtoFrom(y, g)]
  <2>4. \A p \in L[n] : h[p] = g[p]
    BY <2>2, <2>3
  <2>5. \A y \in L[n + 1] : h[y] = ToProtoFrom(y, g)
    OBVIOUS
  <2> HIDE DEF h
  <2>6. \A y \in L[n + 1] : ToProtoFrom(y, h) = ToProtoFrom(y, g)
    BY <2>3, <2>4, ToProtoFromSame DEF U
  <2>7. Good(h, n + 1)
    BY <2>5, <2>6
  <2> HIDE DEF Good
  <2> QED BY <2>7
<1> HIDE DEF Good
<1>3. \A n \in Nat : n \in T => n + 1 \in T
  BY <1>2
<1> HIDE DEF T
<1>4. MaxNesting \in T /\ MaxNesting <= MaxNesting
  BY <1>1, <1>3, NumberInduction, NestingAssumption
<1>5. PICK g : Good(g, MaxNesting)
  BY <1>4 DEF T
<1> QED BY <1>0, <1>5 DEF Good, U

LEMMA ToProtoIsTable ==
    ASSUME NEW W
    PROVE  \E g : \A x \in Nodes(W, MaxNesting) :
              ToProto(x) = g[x] /\ g[x] = ToProtoFrom(x, g)
<1> DEFINE U == Nodes(W, MaxNesting)
<1>1. PICK g : \A y \in U : g[y] = ToProtoFrom(y, g)
  BY ToProtoTable
<1>2. ASSUME NEW x \in U
      PROVE  ToProto(x) = g[x]
  <2> DEFINE Way(w) == w = [y \in Within(x) |-> ToProtoFrom(y, w)]
             to == CHOOSE w : Way(w)
  <2>1. \A y \in Within(x) : y \in U /\ Range(Parts(y)) \subseteq Within(x)
    BY WithinFacts
  <2>2. \E w : Way(w)
    <3> DEFINE k == [y \in Within(x) |-> g[y]]
    <3>1. \A y \in Within(x) : k[y] = g[y]
      OBVIOUS
    <3>2. \A y \in Within(x) : ToProtoFrom(y, k) = ToProtoFrom(y, g)
      BY <2>1, <3>1, ToProtoFromSame
    <3>3. Way(k)
      BY <1>1, <2>1, <3>2
    <3> HIDE DEF Way
    <3> QED BY <3>3
  <2>3. Way(to)
    <3> HIDE DEF Way
    <3> QED BY <2>2
  <2>4. ToProto(x) = to[x]
    BY DEF ToProto, ToProtoFrom
  <2> HIDE DEF to
  <2>5. \A y \in Within(x) : to[y] = ToProtoFrom(y, to)
    BY <2>3
  <2> DEFINE T == {y \in U : y \in Within(x) => to[y] = g[y]}
  <2>6. ASSUME NEW y \in U, Range(Parts(y)) \subseteq T, y \in Within(x)
        PROVE  to[y] = g[y]
    <3>1. \A p \in Range(Parts(y)) : to[p] = g[p]
      BY <2>1, <2>6
    <3>2. ToProtoFrom(y, to) = ToProtoFrom(y, g)
      BY <3>1, ToProtoFromSame
    <3> QED BY <1>1, <2>5, <2>6, <3>2
  <2>7. U \subseteq T
    <3>1. \A y \in U : Range(Parts(y)) \subseteq T => y \in T
      BY <2>6
    <3> HIDE DEF T
    <3> QED BY <3>1, NodeInduction
  <2>8. x \in Within(x)
    BY WithinFacts
  <2> QED BY <2>4, <2>7, <2>8
<1> QED BY <1>1, <1>2

LEMMA ToProtoIs ==
    ASSUME NEW W, NEW x \in Nodes(W, MaxNesting)
    PROVE  /\ x[1] = "set" =>
                 ToProto(x) = <<"set", [i \in DOMAIN Listed(x[2]) |-> ToProto(Listed(x[2])[i])]>>
           /\ x[1] = "array" => ToProto(x) = <<"array", [i \in DOMAIN x[2] |-> ToProto(x[2][i])]>>
           /\ x[1] = "map" =>
                 ToProto(x) = <<"map", [i \in DOMAIN Listed(x[2]) |->
                                           <<Listed(x[2])[i][1], ToProto(Listed(x[2])[i][2])>>]>>
           /\ x[1] = "value" => ToProto(x) = <<"value", ToProto(x[2])>>
           /\ x[1] = "closure" =>
                 ToProto(x) = <<"closure", x[2], [i \in DOMAIN x[3] |-> ToProto(x[3][i])]>>
           /\ x[1] \in {"unary", "binary"} =>
                 ToProto(x) = <<x[1], x[2], IF x[2] = "Ffi" THEN <<x[3]>> ELSE << >>>>
           /\ x[1] \in LeafKinds \cup {"var", "str"} => ToProto(x) = x
<1>1. PICK g : \A y \in Nodes(W, MaxNesting) : ToProto(y) = g[y] /\ g[y] = ToProtoFrom(y, g)
  BY ToProtoIsTable
<1>2. \A p \in Range(Parts(x)) : ToProto(p) = g[p]
  BY <1>1, WithinIs
<1>3. ToProto(x) = ToProtoFrom(x, g)
  BY <1>1
<1>4. ASSUME x[1] = "set"
      PROVE  ToProto(x) = <<"set", [i \in DOMAIN Listed(x[2]) |-> ToProto(Listed(x[2])[i])]>>
  <2>1. \A i \in DOMAIN Listed(x[2]) : ToProto(Listed(x[2])[i]) = g[Listed(x[2])[i]]
    BY <1>2, <1>4 DEF Parts, Range
  <2> QED BY <1>3, <1>4, <2>1 DEF ToProtoFrom
<1>5. ASSUME x[1] = "array"
      PROVE  ToProto(x) = <<"array", [i \in DOMAIN x[2] |-> ToProto(x[2][i])]>>
  <2>1. \A i \in DOMAIN x[2] : ToProto(x[2][i]) = g[x[2][i]]
    BY <1>2, <1>5 DEF Parts, Range
  <2> QED BY <1>3, <1>5, <2>1 DEF ToProtoFrom
<1>6. ASSUME x[1] = "map"
      PROVE  ToProto(x) = <<"map", [i \in DOMAIN Listed(x[2]) |->
                                       <<Listed(x[2])[i][1], ToProto(Listed(x[2])[i][2])>>]>>
  <2>1. \A i \in DOMAIN Listed(x[2]) : ToProto(Listed(x[2])[i][2]) = g[Listed(x[2])[i][2]]
    BY <1>2, <1>6, ListedEntries
  <2> QED BY <1>3, <1>6, <2>1 DEF ToProtoFrom
<1>7. ASSUME x[1] = "value"
      PROVE  ToProto(x) = <<"value", ToProto(x[2])>>
  <2>1. ToProto(x[2]) = g[x[2]]
    BY <1>2, <1>7 DEF Parts, Range
  <2> QED BY <1>3, <1>7, <2>1 DEF ToProtoFrom
<1>8. ASSUME x[1] = "closure"
      PROVE  ToProto(x) = <<"closure", x[2], [i \in DOMAIN x[3] |-> ToProto(x[3][i])]>>
  <2>1. \A i \in DOMAIN x[3] : ToProto(x[3][i]) = g[x[3][i]]
    BY <1>2, <1>8 DEF Parts, Range
  <2> QED BY <1>3, <1>8, <2>1 DEF ToProtoFrom
<1>9. x[1] \in {"unary", "binary"} =>
         ToProto(x) = <<x[1], x[2], IF x[2] = "Ffi" THEN <<x[3]>> ELSE << >>>>
  BY <1>3 DEF ToProtoFrom
<1>10. x[1] \in LeafKinds \cup {"var", "str"} => ToProto(x) = x
  BY <1>3 DEF ToProtoFrom, LeafKinds
<1> QED BY <1>4, <1>5, <1>6, <1>7, <1>8, <1>9, <1>10

\* What is on the wire below a term: the keys of a map stay as they are.
Direct(y) == IF y[1] = "map" THEN {e[2] : e \in y[2]} ELSE Range(Parts(y))

LEMMA WireParts ==
    ASSUME NEW W, NEW y \in Nodes(W, MaxNesting)
    PROVE  /\ ToProto(y)[1] = y[1]
           /\ Direct(y) \subseteq Range(Parts(y))
           /\ Range(ProtoParts(ToProto(y))) = {ToProto(p) : p \in Direct(y)}
<1>1. CASE y[1] = "set"
  <2>1. ToProto(y) = <<"set", [i \in DOMAIN Listed(y[2]) |-> ToProto(Listed(y[2])[i])]>>
    BY <1>1, ToProtoIs
  <2>2. Parts(y) = Listed(y[2])
    BY <1>1 DEF Parts
  <2>3. ProtoParts(ToProto(y)) = [i \in DOMAIN Parts(y) |-> ToProto(Parts(y)[i])]
    BY <2>1, <2>2 DEF ProtoParts
  <2>4. Range(ProtoParts(ToProto(y))) = {ToProto(p) : p \in Range(Parts(y))}
    BY <2>3 DEF Range
  <2> QED BY <1>1, <2>1, <2>4 DEF Direct
<1>2. CASE y[1] = "array"
  <2>1. ToProto(y) = <<"array", [i \in DOMAIN y[2] |-> ToProto(y[2][i])]>>
    BY <1>2, ToProtoIs
  <2>2. Parts(y) = y[2]
    BY <1>2 DEF Parts
  <2>3. ProtoParts(ToProto(y)) = [i \in DOMAIN Parts(y) |-> ToProto(Parts(y)[i])]
    BY <2>1, <2>2 DEF ProtoParts
  <2>4. Range(ProtoParts(ToProto(y))) = {ToProto(p) : p \in Range(Parts(y))}
    BY <2>3 DEF Range
  <2> QED BY <1>2, <2>1, <2>4 DEF Direct
<1>3. CASE y[1] = "map"
  <2> DEFINE l == Listed(y[2])
  <2>1. ToProto(y) = <<"map", [i \in DOMAIN l |-> <<l[i][1], ToProto(l[i][2])>>]>>
    BY <1>3, ToProtoIs
  <2>2. Range(l) = y[2]
    BY <1>3, OverKinds, ListedFacts
  <2>3. ProtoParts(ToProto(y)) = [i \in DOMAIN l |-> ToProto(l[i][2])]
    BY <2>1 DEF ProtoParts
  <2>4. Range(ProtoParts(ToProto(y))) = {ToProto(l[i][2]) : i \in DOMAIN l}
    BY <2>3 DEF Range
  <2>5. {ToProto(l[i][2]) : i \in DOMAIN l} = {ToProto(e[2]) : e \in y[2]}
    BY <2>2 DEF Range
  <2>6. {ToProto(e[2]) : e \in y[2]} = {ToProto(p) : p \in {e[2] : e \in y[2]}}
    OBVIOUS
  <2>7. Range(Parts(y)) = UNION {{e[1], e[2]} : e \in y[2]}
    BY <1>3, OverParts
  <2>8. {e[2] : e \in y[2]} \subseteq Range(Parts(y))
    BY <2>7
  <2>9. Direct(y) = {e[2] : e \in y[2]} /\ ToProto(y)[1] = y[1]
    BY <1>3, <2>1 DEF Direct
  <2> QED BY <2>4, <2>5, <2>6, <2>8, <2>9
<1>4. CASE y[1] = "value"
  <2>1. ToProto(y) = <<"value", ToProto(y[2])>>
    BY <1>4, ToProtoIs
  <2>2. Parts(y) = <<y[2]>> /\ ProtoParts(ToProto(y)) = <<ToProto(y[2])>>
    BY <1>4, <2>1 DEF Parts, ProtoParts
  <2>3. Range(Parts(y)) = {y[2]} /\ Range(ProtoParts(ToProto(y))) = {ToProto(y[2])}
    BY <2>2 DEF Range
  <2> QED BY <1>4, <2>1, <2>3 DEF Direct
<1>5. CASE y[1] = "closure"
  <2>1. ToProto(y) = <<"closure", y[2], [i \in DOMAIN y[3] |-> ToProto(y[3][i])]>>
    BY <1>5, ToProtoIs
  <2>2. Parts(y) = y[3]
    BY <1>5 DEF Parts
  <2>3. ProtoParts(ToProto(y)) = [i \in DOMAIN Parts(y) |-> ToProto(Parts(y)[i])]
    BY <2>1, <2>2 DEF ProtoParts
  <2>4. Range(ProtoParts(ToProto(y))) = {ToProto(p) : p \in Range(Parts(y))}
    BY <2>3 DEF Range
  <2> QED BY <1>5, <2>1, <2>4 DEF Direct
<1>6. CASE y[1] \notin {"set", "array", "map", "value", "closure"}
  <2>1. ToProto(y)[1] = y[1]
    BY <1>6, ToProtoIs, OverKinds
  <2>2. Parts(y) = << >> /\ ProtoParts(ToProto(y)) = << >> /\ Range(<< >>) = {}
    BY <1>6, <2>1 DEF Parts, ProtoParts, Range
  <2> QED BY <1>6, <2>1, <2>2 DEF Direct
<1> QED BY <1>1, <1>2, <1>3, <1>4, <1>5, <1>6

Wire(W) == {ToProto(y) : y \in Nodes(W, MaxNesting)}
BelowWire(W) == [q \in Wire(W) |-> Range(ProtoParts(q))]
WireAt(W) == [n \in 0..MaxNesting |-> {ToProto(y) : y \in Nodes(W, n)}]

LEMMA WireNested ==
    ASSUME NEW W
    PROVE  Nested(Wire(W), BelowWire(W), WireAt(W))
<1> DEFINE U == Nodes(W, MaxNesting)
           L == NodesAt(W)
<1>1. /\ L[0] = {} /\ L[MaxNesting] = U
      /\ \A n \in Nat : n < MaxNesting =>
            L[n] \subseteq L[n + 1] /\ \A y \in L[n + 1] : y \in U /\ Range(Parts(y)) \subseteq L[n]
  BY NodesNested DEF Nested, Below
<1>2. \A n \in 0..MaxNesting : WireAt(W)[n] = {ToProto(y) : y \in L[n]}
  BY DEF WireAt, NodesAt
<1> HIDE DEF L
<1>3. \A y \in U : Range(ProtoParts(ToProto(y))) \subseteq {ToProto(p) : p \in Range(Parts(y))}
  BY WireParts
<1>4. \A y \in U : Range(Parts(y)) \subseteq U
  BY WithinIs
<1>5. BelowWire(W) \in [Wire(W) -> SUBSET Wire(W)]
  <2>1. ASSUME NEW q \in Wire(W)
        PROVE  Range(ProtoParts(q)) \subseteq Wire(W)
    <3>1. PICK y \in U : q = ToProto(y)
      BY DEF Wire
    <3> QED BY <1>3, <1>4, <3>1 DEF Wire
  <2> QED BY <2>1 DEF BelowWire
<1>6. WireAt(W)[0] = {} /\ WireAt(W)[MaxNesting] = Wire(W)
  BY <1>1, <1>2, NestingAssumption DEF Wire
<1>7. ASSUME NEW n \in Nat, n < MaxNesting
      PROVE  /\ WireAt(W)[n] \subseteq WireAt(W)[n + 1]
             /\ \A q \in WireAt(W)[n + 1] : q \in Wire(W) /\ BelowWire(W)[q] \subseteq WireAt(W)[n]
  <2>1. n \in 0..MaxNesting /\ n + 1 \in 0..MaxNesting
    BY <1>7, NestingAssumption
  <2>2. /\ WireAt(W)[n] = {ToProto(y) : y \in L[n]}
        /\ WireAt(W)[n + 1] = {ToProto(y) : y \in L[n + 1]}
    BY <1>2, <2>1
  <2>3. L[n] \subseteq L[n + 1]
    BY <1>1, <1>7
  <2>4. ASSUME NEW q \in WireAt(W)[n + 1]
        PROVE  q \in Wire(W) /\ BelowWire(W)[q] \subseteq WireAt(W)[n]
    <3>1. PICK y \in L[n + 1] : q = ToProto(y)
      BY <2>2
    <3>2. y \in U /\ Range(Parts(y)) \subseteq L[n]
      BY <1>1, <1>7
    <3>3. q \in Wire(W)
      BY <3>1, <3>2 DEF Wire
    <3>4. BelowWire(W)[q] = Range(ProtoParts(q))
      BY <3>3 DEF BelowWire
    <3> QED BY <1>3, <2>2, <3>1, <3>2, <3>3, <3>4
  <2> QED BY <2>2, <2>3, <2>4
<1> QED BY <1>5, <1>6, <1>7 DEF Nested

\* WithinProto(x) is x, and what is within its parts.
LEMMA WithinProtoFacts ==
    ASSUME NEW W, NEW x \in Wire(W)
    PROVE  /\ x \in WithinProto(x) /\ WithinProto(x) \subseteq Wire(W)
           /\ \A y \in WithinProto(x) : Range(ProtoParts(y)) \subseteq WithinProto(x)
           /\ \A C : x \in C /\ (\A y \in C \cap Wire(W) : Range(ProtoParts(y)) \subseteq C)
                        => WithinProto(x) \subseteq C
<1> DEFINE U == Wire(W)
           P == BelowWire(W)
           Way(near) ==
               near = [n \in 0..MaxNesting |->
                          IF n = 0 THEN {x}
                          ELSE near[n - 1] \cup UNION {Range(ProtoParts(y)) : y \in near[n - 1]}]
           near == CHOOSE near : Way(near)
<1>1. Nested(U, P, WireAt(W))
  BY WireNested
<1>2. \A y \in U : P[y] = Range(ProtoParts(y))
  BY DEF BelowWire
<1> HIDE DEF U, P
<1>3. \E n : Way(n)
  <2>1. PICK g : g \in [0..MaxNesting -> SUBSET U] /\ g[0] = {x} /\ Step(g, U, P)
    <3>1. P \in [U -> SUBSET U] /\ x \in U
      BY <1>1 DEF Nested, U
    <3> QED BY <3>1, NearExists
  <2>2. ASSUME NEW n \in 0..MaxNesting, n # 0
        PROVE  g[n] = g[n - 1] \cup UNION {Range(ProtoParts(y)) : y \in g[n - 1]}
    <3>1. n - 1 \in Nat /\ n - 1 < MaxNesting /\ (n - 1) + 1 = n /\ n - 1 \in 0..MaxNesting
      BY <2>2, NestingAssumption
    <3>2. g[n - 1] \subseteq U
      BY <2>1, <3>1
    <3>3. g[n] = g[n - 1] \cup UNION {P[y] : y \in g[n - 1]}
      BY <2>1, <3>1, <3>2 DEF Step
    <3>4. \A y \in g[n - 1] : P[y] = Range(ProtoParts(y))
      BY <1>2, <3>2
    <3> QED BY <3>3, <3>4
  <2>3. Way(g)
    BY <2>1, <2>2
  <2> HIDE DEF Way
  <2> QED BY <2>3
<1>4. Way(near)
  <2> HIDE DEF Way
  <2> QED BY <1>3
<1>5. WithinProto(x) = near[MaxNesting]
  BY DEF WithinProto, Reach
<1> HIDE DEF near
<1>6. near[0] = {x}
  BY <1>4, NestingAssumption
<1>7. Step(near, U, P)
  <2>1. ASSUME NEW n \in Nat, n < MaxNesting, near[n] \subseteq U
        PROVE  near[n + 1] = near[n] \cup UNION {P[y] : y \in near[n]}
    <3>1. n + 1 \in 0..MaxNesting /\ n + 1 # 0 /\ (n + 1) - 1 = n
      BY <2>1, NestingAssumption
    <3>2. near[n + 1] = near[n] \cup UNION {Range(ProtoParts(y)) : y \in near[n]}
      BY <1>4, <3>1
    <3>3. \A y \in near[n] : P[y] = Range(ProtoParts(y))
      BY <1>2, <2>1
    <3> QED BY <3>2, <3>3
  <2> QED BY <2>1 DEF Step
<1>8. x \in U
  BY DEF U
<1>9. /\ x \in near[MaxNesting] /\ near[MaxNesting] \subseteq U
      /\ \A y \in near[MaxNesting] : P[y] \subseteq near[MaxNesting]
      /\ \A C : x \in C /\ (\A y \in C \cap U : P[y] \subseteq C) => near[MaxNesting] \subseteq C
  BY <1>1, <1>6, <1>7, <1>8, NearFacts
<1> QED BY <1>2, <1>5, <1>9 DEF U

LEMMA WithinProtoIs ==
    ASSUME NEW W, NEW x \in Wire(W)
    PROVE  /\ Range(ProtoParts(x)) \subseteq Wire(W)
           /\ WithinProto(x) = {x} \cup UNION {WithinProto(p) : p \in Range(ProtoParts(x))}
<1> DEFINE U == Wire(W)
           C == {x} \cup UNION {WithinProto(p) : p \in Range(ProtoParts(x))}
<1>1. Range(ProtoParts(x)) \subseteq U
  BY WireNested DEF Nested, BelowWire
<1>2. \A p \in Range(ProtoParts(x)) : p \in U /\ p \in WithinProto(p)
  BY <1>1, WithinProtoFacts
<1>3. ASSUME NEW y \in C \cap U
      PROVE  Range(ProtoParts(y)) \subseteq C
  <2>1. CASE y = x
    BY <1>2, <2>1
  <2>2. CASE y # x
    <3>1. PICK p \in Range(ProtoParts(x)) : y \in WithinProto(p)
      BY <1>3, <2>2
    <3>2. Range(ProtoParts(y)) \subseteq WithinProto(p)
      BY <1>2, <3>1, WithinProtoFacts
    <3> QED BY <3>2
  <2> QED BY <2>1, <2>2
<1>4. WithinProto(x) \subseteq C
  <2>1. x \in C
    OBVIOUS
  <2> HIDE DEF C
  <2> QED BY <1>3, <2>1, WithinProtoFacts
<1>5. ASSUME NEW p \in Range(ProtoParts(x))
      PROVE  WithinProto(p) \subseteq WithinProto(x)
  <2>1. p \in WithinProto(x) /\ \A y \in WithinProto(x) : Range(ProtoParts(y)) \subseteq WithinProto(x)
    BY WithinProtoFacts
  <2>2. p \in U
    BY <1>1
  <2>3. \A D : p \in D /\ (\A y \in D \cap U : Range(ProtoParts(y)) \subseteq D) => WithinProto(p) \subseteq D
    BY <2>2, WithinProtoFacts
  <2> QED BY <2>1, <2>3
<1>6. C \subseteq WithinProto(x)
  <2>1. x \in WithinProto(x)
    BY WithinProtoFacts
  <2> QED BY <1>5, <2>1
<1> QED BY <1>1, <1>4, <1>6

\* What can be read back: no set in it holds several kinds, sets or variables.
Even(x) == \A y \in Within(x) : ~IsOddSet(y)

LEMMA DecodableHereIs ==
    ASSUME NEW W, NEW y \in Nodes(W, MaxNesting)
    PROVE  DecodableHere(ToProto(y)) <=> ~IsOddSet(y)
<1>1. CASE y[1] = "set"
  <2> DEFINE q == ToProto(y)
  <2>1. q[1] = "set" /\ Range(ProtoParts(q)) = {ToProto(p) : p \in Range(Parts(y))}
    BY <1>1, WireParts DEF Direct
  <2>2. ProtoParts(q) = q[2] /\ Range(Parts(y)) = y[2]
    BY <1>1, <2>1, OverParts DEF ProtoParts
  <2>3. Range(q[2]) = {ToProto(t) : t \in y[2]}
    BY <2>1, <2>2
  <2>4. \A t \in y[2] : ToProto(t)[1] = t[1]
    BY <2>2, WithinIs, WireParts
  <2> HIDE DEF q
  <2>5. (\A t, u \in Range(q[2]) : t[1] = u[1]) <=> \A t, u \in y[2] : t[1] = u[1]
    BY <2>3, <2>4
  <2>6. (\A u \in Range(q[2]) : u[1] \notin {"set", "var"})
           <=> \A u \in y[2] : u[1] \notin {"set", "var"}
    BY <2>3, <2>4
  <2>7. DecodableHere(q) <=> /\ \A t, u \in Range(q[2]) : t[1] = u[1]
                             /\ \A u \in Range(q[2]) : u[1] \notin {"set", "var"}
    BY <2>1 DEF DecodableHere
  <2> QED BY <1>1, <2>5, <2>6, <2>7 DEF IsOddSet, q
<1>2. CASE y[1] \in {"unary", "binary"}
  <2>1. ToProto(y) = <<y[1], y[2], IF y[2] = "Ffi" THEN <<y[3]>> ELSE << >>>>
    BY <1>2, ToProtoIs
  <2>2. <<y[3]>> # << >>
    OBVIOUS
  <2> QED BY <1>2, <2>1, <2>2 DEF DecodableHere, IsOddSet
<1>3. CASE y[1] \notin {"set", "unary", "binary"}
  <2>1. ToProto(y)[1] = y[1]
    BY WireParts
  <2> QED BY <1>3, <2>1 DEF DecodableHere, IsOddSet
<1> QED BY <1>1, <1>2, <1>3

LEMMA DecodableIs ==
    ASSUME NEW W
    PROVE  \A x \in Nodes(W, MaxNesting) : Decodable(ToProto(x)) <=> Even(x)
<1> DEFINE U == Nodes(W, MaxNesting)
           T == {y \in U : Decodable(ToProto(y)) <=> Even(y)}
<1>1. ASSUME NEW y \in U, Range(Parts(y)) \subseteq T
      PROVE  Decodable(ToProto(y)) <=> Even(y)
  <2>0. ToProto(y) \in Wire(W)
    BY DEF Wire
  <2>1. WithinProto(ToProto(y)) =
           {ToProto(y)} \cup UNION {WithinProto(q) : q \in Range(ProtoParts(ToProto(y)))}
    BY <2>0, WithinProtoIs
  <2>2. Decodable(ToProto(y)) <=>
           DecodableHere(ToProto(y)) /\ \A q \in Range(ProtoParts(ToProto(y))) : Decodable(q)
    BY <2>1 DEF Decodable
  <2>3. (\A q \in Range(ProtoParts(ToProto(y))) : Decodable(q))
           <=> \A p \in Direct(y) : Decodable(ToProto(p))
    BY WireParts
  <2>4. Even(y) <=> ~IsOddSet(y) /\ \A p \in Range(Parts(y)) : Even(p)
    BY WithinIs DEF Even
  <2>5. \A p \in Range(Parts(y)) \ Direct(y) : Even(p)
    <3>1. CASE y[1] = "map"
      <4>1. Range(Parts(y)) = UNION {{e[1], e[2]} : e \in y[2]} /\ Direct(y) = {e[2] : e \in y[2]}
        BY <3>1, OverParts DEF Direct
      <4>2. y[2] \subseteq MapKeys(W) \X TermsOver(W)
        BY <3>1, OverKinds
      <4>3. ASSUME NEW p \in Range(Parts(y)), p \notin Direct(y)
            PROVE  Even(p)
        <5>1. PICK e \in y[2] : p = e[1] \/ p = e[2]
          BY <4>1
        <5>2. p \in MapKeys(W)
          BY <4>1, <4>2, <4>3, <5>1
        <5>3. p[1] \in {"str", "int", "param"}
          BY <5>2 DEF MapKeys
        <5>4. Parts(p) = << >> /\ Range(<< >>) = {} /\ ~IsOddSet(p)
          BY <5>3 DEF Parts, Range, IsOddSet
        <5>5. p \in U
          BY <4>3, WithinIs
        <5>6. Within(p) = {p}
          BY <5>4, <5>5, WithinIs
        <5> QED BY <5>4, <5>6 DEF Even
      <4> QED BY <4>3
    <3>2. CASE y[1] # "map"
      BY <3>2 DEF Direct
    <3> QED BY <3>1, <3>2
  <2>6. \A p \in Range(Parts(y)) : Decodable(ToProto(p)) <=> Even(p)
    BY <1>1
  <2> QED BY <2>2, <2>3, <2>4, <2>5, <2>6, DecodableHereIs, WireParts
<1>2. \A y \in U : Range(Parts(y)) \subseteq T => y \in T
  BY <1>1
<1> HIDE DEF T
<1>3. U \subseteq T
  BY <1>2, NodeInduction
<1> QED BY <1>3 DEF T

\* What is read from the wire.
FromProtoFrom(q, from) ==
    LET All(s) == [i \in DOMAIN s |-> from[s[i]]]
    IN  CASE q[1] = "set"     -> <<"set", Range(All(q[2]))>>
          [] q[1] = "array"   -> <<"array", All(q[2])>>
          [] q[1] = "map"     -> <<"map", {<<e[1], from[e[2]]>> : e \in Range(q[2])}>>
          [] q[1] = "value"   -> <<"value", from[q[2]]>>
          [] q[1] = "closure" -> <<"closure", q[2], All(q[3])>>
          [] q[1] \in {"unary", "binary"} -> <<q[1], q[2]>> \o q[3]
          [] OTHER            -> q

LEMMA FromProtoFromSame ==
    ASSUME NEW q, NEW a, NEW b, \A p \in Range(ProtoParts(q)) : a[p] = b[p]
    PROVE  FromProtoFrom(q, a) = FromProtoFrom(q, b)
<1> USE DEF FromProtoFrom
<1>1. CASE q[1] \in {"set", "array"}
  <2>0. ProtoParts(q) = q[2]
    BY <1>1 DEF ProtoParts
  <2>1. \A i \in DOMAIN q[2] : a[q[2][i]] = b[q[2][i]]
    BY <2>0 DEF Range
  <2>2. [i \in DOMAIN q[2] |-> a[q[2][i]]] = [i \in DOMAIN q[2] |-> b[q[2][i]]]
    BY <2>1
  <2> QED BY <1>1, <2>2
<1>2. CASE q[1] = "map"
  <2>1. \A e \in Range(q[2]) : a[e[2]] = b[e[2]]
    BY <1>2 DEF ProtoParts, Range
  <2>2. {<<e[1], a[e[2]]>> : e \in Range(q[2])} = {<<e[1], b[e[2]]>> : e \in Range(q[2])}
    BY <2>1
  <2> QED BY <1>2, <2>2
<1>3. CASE q[1] = "value"
  <2>1. a[q[2]] = b[q[2]]
    BY <1>3 DEF ProtoParts, Range
  <2> QED BY <1>3, <2>1
<1>4. CASE q[1] = "closure"
  <2>1. \A i \in DOMAIN q[3] : a[q[3][i]] = b[q[3][i]]
    BY <1>4 DEF ProtoParts, Range
  <2> QED BY <1>4, <2>1
<1>5. CASE q[1] \notin {"set", "array", "map", "value", "closure"}
  BY <1>5
<1> QED BY <1>1, <1>2, <1>3, <1>4, <1>5

LEMMA FromProtoTable ==
    ASSUME NEW W
    PROVE  \E g : \A q \in Wire(W) : g[q] = FromProtoFrom(q, g)
<1> DEFINE U == Wire(W)
           L == WireAt(W)
           Good(g, n) == \A y \in L[n] : g[y] = FromProtoFrom(y, g)
           T == {n \in Nat : n <= MaxNesting => \E g : Good(g, n)}
<1>0. /\ L[0] = {} /\ L[MaxNesting] = U
      /\ \A n \in Nat : n < MaxNesting =>
            L[n] \subseteq L[n + 1] /\ \A y \in L[n + 1] : y \in U /\ Range(ProtoParts(y)) \subseteq L[n]
  BY WireNested DEF Nested, BelowWire
<1> HIDE DEF L, U
<1>1. 0 \in T
  BY <1>0
<1>2. ASSUME NEW n \in Nat, n \in T, n + 1 <= MaxNesting
      PROVE  \E g : Good(g, n + 1)
  <2>1. n < MaxNesting /\ n <= MaxNesting
    BY <1>2, NestingAssumption
  <2>2. PICK g : Good(g, n)
    BY <1>2, <2>1
  <2>3. /\ L[n] \subseteq L[n + 1]
        /\ \A y \in L[n + 1] : y \in U /\ Range(ProtoParts(y)) \subseteq L[n]
    BY <1>0, <2>1
  <2> DEFINE h == [y \in L[n + 1] |-> FromProtoFrom(y, g)]
  <2>4. \A p \in L[n] : h[p] = g[p]
    BY <2>2, <2>3
  <2>5. \A y \in L[n + 1] : h[y] = FromProtoFrom(y, g)
    OBVIOUS
  <2> HIDE DEF h
  <2>6. \A y \in L[n + 1] : FromProtoFrom(y, h) = FromProtoFrom(y, g)
    BY <2>3, <2>4, FromProtoFromSame
  <2>7. Good(h, n + 1)
    BY <2>5, <2>6
  <2> HIDE DEF Good
  <2> QED BY <2>7
<1> HIDE DEF Good
<1>3. \A n \in Nat : n \in T => n + 1 \in T
  BY <1>2
<1> HIDE DEF T
<1>4. MaxNesting \in T /\ MaxNesting <= MaxNesting
  BY <1>1, <1>3, NumberInduction, NestingAssumption
<1>5. PICK g : Good(g, MaxNesting)
  BY <1>4 DEF T
<1> QED BY <1>0, <1>5 DEF Good, U

LEMMA ConcatOfPair ==
    ASSUME NEW a, NEW b, NEW c
    PROVE  <<a, b>> \o <<c>> = <<a, b, c>> /\ <<a, b>> \o << >> = <<a, b>>
<1> DEFINE S == {a, b, c}
<1>1. <<a, b>> \in Seq(S) /\ c \in S /\ <<a, b, c>> = Append(<<a, b>>, c)
  OBVIOUS
<1> QED BY <1>1, ConcatEmptySeq, AppendIsConcat

\* Every term and every operation is read as it was written.
LEMMA FromToProto ==
    ASSUME NEW W, NEW x \in Nodes(W, MaxNesting)
    PROVE  FromProto(ToProto(x)) = x
<1> DEFINE U == Nodes(W, MaxNesting)
           p == ToProto(x)
           Way(w) == w = [q \in WithinProto(p) |-> FromProtoFrom(q, w)]
           from == CHOOSE w : Way(w)
<1>1. p \in Wire(W)
  BY DEF Wire
<1>2. /\ p \in WithinProto(p)
      /\ \A q \in WithinProto(p) : q \in Wire(W) /\ Range(ProtoParts(q)) \subseteq WithinProto(p)
  BY <1>1, WithinProtoFacts
<1> HIDE DEF p
<1>3. \E w : Way(w)
  <2>1. PICK g : \A q \in Wire(W) : g[q] = FromProtoFrom(q, g)
    BY FromProtoTable
  <2> DEFINE k == [q \in WithinProto(p) |-> g[q]]
  <2>2. \A q \in WithinProto(p) : k[q] = g[q]
    OBVIOUS
  <2>3. \A q \in WithinProto(p) : FromProtoFrom(q, k) = FromProtoFrom(q, g)
    BY <1>2, <2>2, FromProtoFromSame
  <2>4. Way(k)
    BY <1>2, <2>1, <2>3
  <2> HIDE DEF Way
  <2> QED BY <2>4
<1>4. Way(from)
  <2> HIDE DEF Way
  <2> QED BY <1>3
<1>5. FromProto(p) = from[p]
  BY DEF FromProto, FromProtoFrom
<1> HIDE DEF from
<1>6. \A q \in WithinProto(p) : from[q] = FromProtoFrom(q, from)
  BY <1>4
<1> DEFINE T == {y \in U : ToProto(y) \in WithinProto(p) => from[ToProto(y)] = y}
<1>7. ASSUME NEW y \in U, Range(Parts(y)) \subseteq T, ToProto(y) \in WithinProto(p)
      PROVE  from[ToProto(y)] = y
  <2> DEFINE q == ToProto(y)
  <2>1. /\ Direct(y) \subseteq Range(Parts(y))
        /\ Range(ProtoParts(q)) = {ToProto(d) : d \in Direct(y)}
    BY WireParts
  <2>2. \A d \in Direct(y) : from[ToProto(d)] = d
    BY <1>2, <1>7, <2>1
  <2>3. from[q] = FromProtoFrom(q, from)
    BY <1>6, <1>7
  <2>4. CASE y[1] = "set"
    <3> DEFINE l == Listed(y[2])
    <3>1. q = <<"set", [i \in DOMAIN l |-> ToProto(l[i])]>> /\ y = <<"set", y[2]>> /\ Range(l) = y[2]
      BY <2>4, ToProtoIs, OverKinds, ListedFacts
    <3>2. Direct(y) = y[2]
      BY <2>4, OverParts DEF Direct
    <3>3. \A i \in DOMAIN l : from[ToProto(l[i])] = l[i]
      BY <2>2, <3>1, <3>2 DEF Range
    <3> HIDE DEF l
    <3>4. from[q] = <<"set", Range([i \in DOMAIN l |-> from[ToProto(l[i])]])>>
      BY <2>3, <3>1 DEF FromProtoFrom
    <3>5. Range([i \in DOMAIN l |-> from[ToProto(l[i])]]) = Range(l)
      BY <3>3 DEF Range
    <3> QED BY <3>1, <3>4, <3>5
  <2>5. CASE y[1] = "array"
    <3>1. q = <<"array", [i \in DOMAIN y[2] |-> ToProto(y[2][i])]>> /\ y = <<"array", y[2]>>
          /\ y[2] \in Seq(TermsOver(W))
      BY <2>5, ToProtoIs, OverKinds
    <3>2. \A i \in DOMAIN y[2] : from[ToProto(y[2][i])] = y[2][i]
      BY <2>2, <2>5 DEF Direct, Parts, Range
    <3>3. from[q] = <<"array", [i \in DOMAIN y[2] |-> from[ToProto(y[2][i])]]>>
      BY <2>3, <3>1 DEF FromProtoFrom
    <3>4. [i \in DOMAIN y[2] |-> from[ToProto(y[2][i])]] = y[2]
      BY <3>1, <3>2
    <3> QED BY <3>1, <3>3, <3>4
  <2>6. CASE y[1] = "map"
    <3> DEFINE l == Listed(y[2])
    <3>1. /\ q = <<"map", [i \in DOMAIN l |-> <<l[i][1], ToProto(l[i][2])>>]>>
          /\ y = <<"map", y[2]>> /\ Range(l) = y[2] /\ y[2] \subseteq MapKeys(W) \X TermsOver(W)
      BY <2>6, ToProtoIs, OverKinds, ListedFacts
    <3>2. \A e \in y[2] : from[ToProto(e[2])] = e[2] /\ e = <<e[1], e[2]>>
      BY <2>2, <2>6, <3>1 DEF Direct
    <3> HIDE DEF l
    <3>3. from[q] = <<"map", {<<e[1], from[e[2]]>> : e \in Range(q[2])}>>
      <4>1. q[1] = "map"
        BY <3>1
      <4> HIDE DEF q
      <4> QED BY <2>3, <4>1 DEF FromProtoFrom
    <3>4. Range(q[2]) = {<<e[1], ToProto(e[2])>> : e \in y[2]}
      BY <3>1 DEF Range
    <3> HIDE DEF q
    <3>5. {<<e[1], from[e[2]]>> : e \in Range(q[2])} = y[2]
      <4>1. ASSUME NEW e \in y[2], NEW d, d = <<e[1], ToProto(e[2])>>
            PROVE  <<d[1], from[d[2]]>> = e
        <5>1. d[1] = e[1] /\ d[2] = ToProto(e[2])
          BY <4>1
        <5> QED BY <3>2, <5>1
      <4>2. \A d \in Range(q[2]) : \E e \in y[2] : d = <<e[1], ToProto(e[2])>>
        BY <3>4
      <4>3. \A e \in y[2] : \E d \in Range(q[2]) : d = <<e[1], ToProto(e[2])>>
        BY <3>4
      <4> QED BY <4>1, <4>2, <4>3
    <3> QED BY <3>1, <3>3, <3>5 DEF q
  <2>7. CASE y[1] = "value"
    <3>1. q = <<"value", ToProto(y[2])>> /\ y = <<"value", y[2]>>
      BY <2>7, ToProtoIs, OverKinds
    <3>2. from[ToProto(y[2])] = y[2]
      BY <2>2, <2>7 DEF Direct, Parts, Range
    <3> QED BY <2>3, <3>1, <3>2 DEF FromProtoFrom
  <2>8. CASE y[1] = "closure"
    <3>1. q = <<"closure", y[2], [i \in DOMAIN y[3] |-> ToProto(y[3][i])]>>
          /\ y = <<"closure", y[2], y[3]>> /\ y[3] \in Seq(OpsOver(W))
      BY <2>8, ToProtoIs, OverKinds
    <3>2. \A i \in DOMAIN y[3] : from[ToProto(y[3][i])] = y[3][i]
      BY <2>2, <2>8 DEF Direct, Parts, Range
    <3>3. from[q] = <<"closure", y[2], [i \in DOMAIN y[3] |-> from[ToProto(y[3][i])]]>>
      BY <2>3, <3>1 DEF FromProtoFrom
    <3>4. [i \in DOMAIN y[3] |-> from[ToProto(y[3][i])]] = y[3]
      BY <3>1, <3>2
    <3> QED BY <3>1, <3>3, <3>4
  <2>9. CASE y[1] \in {"unary", "binary"}
    <3>1. q = <<y[1], y[2], IF y[2] = "Ffi" THEN <<y[3]>> ELSE << >>>>
      BY <2>9, ToProtoIs
    <3>2. from[q] = <<y[1], y[2]>> \o (IF y[2] = "Ffi" THEN <<y[3]>> ELSE << >>)
      BY <2>3, <2>9, <3>1 DEF FromProtoFrom
    <3>3. <<y[1], y[2]>> \o <<y[3]>> = <<y[1], y[2], y[3]>> /\ <<y[1], y[2]>> \o << >> = <<y[1], y[2]>>
      BY ConcatOfPair
    <3>4. \/ y[2] = "Ffi" /\ y = <<y[1], y[2], y[3]>>
          \/ y[2] # "Ffi" /\ y = <<y[1], y[2]>>
      BY <2>9, OverKinds
    <3> QED BY <3>2, <3>3, <3>4
  <2>10. CASE y[1] \in LeafKinds \cup {"var", "str"}
    <3>1. q = y
      BY <2>10, ToProtoIs
    <3> QED BY <2>3, <2>10, <3>1 DEF FromProtoFrom, LeafKinds
  <2> QED BY <2>4, <2>5, <2>6, <2>7, <2>8, <2>9, <2>10, OverKinds
<1>8. \A y \in U : Range(Parts(y)) \subseteq T => y \in T
  BY <1>7
<1> HIDE DEF T
<1>9. U \subseteq T
  BY <1>8, NodeInduction
<1> QED BY <1>2, <1>5, <1>9 DEF T, p
===============================================================================
