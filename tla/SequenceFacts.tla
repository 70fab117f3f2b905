---------------------------- MODULE SequenceFacts ----------------------------
(* Induction over numbers and sequences, in a form that names the set of those *)
(* for which something holds, and what it gives for the recursive function by  *)
(* which FlattenSeq joins the sequences of a sequence.                         *)
EXTENDS SequencesExt, SequenceTheorems, FiniteSetTheorems, WellFoundedInduction, TLAPS

-----------------------------------------------------------------------------
(* Induction.                                                                  *)

\* A set of natural numbers that is not empty has a least element.
LEMMA LeastNumber ==
    ASSUME NEW T \in SUBSET Nat, T # {}
    PROVE  \E x \in T : \A y \in T : x <= y
<1> DEFINE R == OpToRel(<, Nat)
<1>1. IsWellFoundedOn(R, Nat)
  BY NatLessThanWellFounded
<1>2. \A y, x \in Nat : y < x => <<y, x>> \in R
  BY DEF OpToRel
<1> HIDE DEF R
<1>3. PICK x \in T : \A y \in T : ~(<<y, x>> \in R)
  BY <1>1, WFMin
<1>4. ASSUME NEW y \in T
      PROVE  x <= y
  <2>1. ~(y < x)
    BY <1>2, <1>3
  <2> QED BY <2>1
<1> QED BY <1>4

\* What holds of zero, and of the successor of each number that it holds of,
\* holds of all.
LEMMA NumberInduction ==
    ASSUME NEW T, 0 \in T, \A n \in Nat : n \in T => n + 1 \in T
    PROVE  Nat \subseteq T
<1> DEFINE rest == Nat \ T
<1> SUFFICES ASSUME rest # {} PROVE FALSE
  OBVIOUS
<1>1. PICK x \in rest : \A y \in rest : x <= y
  BY LeastNumber
<1>2. x # 0 /\ x - 1 \in Nat /\ x - 1 \notin rest
  BY <1>1
<1> QED BY <1>1, <1>2

\* What holds of the empty sequence, and of each sequence with one element more
\* than one that it holds of, holds of all.
LEMMA SequenceInduction ==
    ASSUME NEW S, NEW T, << >> \in T,
           \A s \in Seq(S) : \A x \in S : s \in T => Append(s, x) \in T
    PROVE  Seq(S) \subseteq T
<1> DEFINE N == {n \in Nat : \A s \in Seq(S) : Len(s) = n => s \in T}
<1>1. 0 \in N
  BY EmptySeq
<1>2. ASSUME NEW n \in Nat, n \in N
      PROVE  n + 1 \in N
  <2>1. ASSUME NEW s \in Seq(S), Len(s) = n + 1
        PROVE  s \in T
    <3>1. s # << >>
      BY <2>1, EmptySeq
    <3>2. PICK r \in Seq(S), x \in S : s = Append(r, x)
      BY <3>1, SequenceEmptyOrAppend
    <3>3. Len(r) = n
      BY <2>1, <3>2, AppendProperties, LenProperties
    <3> QED BY <1>2, <3>2, <3>3
  <2> QED BY <2>1
<1> HIDE DEF N
<1>3. Nat \subseteq N
  BY <1>1, <1>2, NumberInduction
<1> QED BY <1>3, LenProperties DEF N

-----------------------------------------------------------------------------
(* What is in a sequence, and how often.                                       *)

LEMMA RangeOfAppend ==
    ASSUME NEW S, NEW s \in Seq(S), NEW x \in S
    PROVE  /\ Range(Append(s, x)) = Range(s) \cup {x}
           /\ x \notin Range(s) /\ IsInjective(s) => IsInjective(Append(s, x))
<1>1. /\ Len(s) \in Nat /\ DOMAIN s = 1..Len(s)
      /\ DOMAIN Append(s, x) = 1..(Len(s) + 1)
      /\ \A i \in 1..Len(s) : Append(s, x)[i] = s[i]
      /\ Append(s, x)[Len(s) + 1] = x
  BY AppendProperties, LenProperties
<1> QED BY <1>1 DEF Range, IsInjective

LEMMA RangeOfConcat ==
    ASSUME NEW S, NEW s \in Seq(S), NEW t \in Seq(S)
    PROVE  /\ Range(s \o t) = Range(s) \cup Range(t)
           /\ IsInjective(s) /\ IsInjective(t) /\ Range(s) \cap Range(t) = {}
                => IsInjective(s \o t)
<1>1. /\ Len(s) \in Nat /\ DOMAIN s = 1..Len(s)
      /\ Len(t) \in Nat /\ DOMAIN t = 1..Len(t)
      /\ DOMAIN (s \o t) = 1..(Len(s) + Len(t))
  BY ConcatProperties, LenProperties
<1>2. /\ \A i \in 1..Len(s) : (s \o t)[i] = s[i]
      /\ \A i \in 1..(Len(s) + Len(t)) : i > Len(s) => (s \o t)[i] = t[i - Len(s)]
      /\ \A i \in 1..Len(t) : (s \o t)[Len(s) + i] = t[i]
  BY <1>1, ConcatProperties
<1>3. Range(s \o t) = Range(s) \cup Range(t)
  <2>1. ASSUME NEW i \in 1..(Len(s) + Len(t))
        PROVE  (s \o t)[i] \in Range(s) \cup Range(t)
    <3>1. CASE i <= Len(s)
      BY <1>1, <1>2, <3>1 DEF Range
    <3>2. CASE i > Len(s)
      <4>1. i - Len(s) \in 1..Len(t)
        BY <1>1, <3>2
      <4> QED BY <1>1, <1>2, <3>2, <4>1 DEF Range
    <3> QED BY <1>1, <3>1, <3>2
  <2>2. ASSUME NEW i \in 1..Len(s)
        PROVE  s[i] \in Range(s \o t)
    <3>1. i \in 1..(Len(s) + Len(t))
      BY <1>1
    <3> QED BY <1>1, <1>2, <3>1 DEF Range
  <2>3. ASSUME NEW i \in 1..Len(t)
        PROVE  t[i] \in Range(s \o t)
    <3>1. Len(s) + i \in 1..(Len(s) + Len(t))
      BY <1>1
    <3> QED BY <1>1, <1>2, <3>1 DEF Range
  <2> QED BY <1>1, <2>1, <2>2, <2>3 DEF Range
<1>4. ASSUME IsInjective(s), IsInjective(t), Range(s) \cap Range(t) = {},
             NEW i \in 1..(Len(s) + Len(t)), NEW j \in 1..(Len(s) + Len(t)),
             (s \o t)[i] = (s \o t)[j]
      PROVE  i = j
  <2>1. CASE i <= Len(s) /\ j <= Len(s)
    BY <1>1, <1>2, <1>4, <2>1 DEF IsInjective
  <2>2. CASE i > Len(s) /\ j > Len(s)
    <3>1. i - Len(s) \in 1..Len(t) /\ j - Len(s) \in 1..Len(t)
      BY <1>1, <2>2
    <3>2. t[i - Len(s)] = t[j - Len(s)]
      BY <1>2, <1>4, <2>2
    <3>3. i - Len(s) = j - Len(s)
      BY <1>1, <1>4, <3>1, <3>2 DEF IsInjective
    <3> QED BY <1>1, <3>3
  <2>3. ASSUME NEW k \in 1..(Len(s) + Len(t)), NEW l \in 1..(Len(s) + Len(t)),
               k <= Len(s), l > Len(s)
        PROVE  (s \o t)[k] # (s \o t)[l]
    <3>1. k \in 1..Len(s) /\ l - Len(s) \in 1..Len(t)
      BY <1>1, <2>3
    <3>2. (s \o t)[k] \in Range(s) /\ (s \o t)[l] \in Range(t)
      BY <1>1, <1>2, <2>3, <3>1 DEF Range
    <3> QED BY <1>4, <3>2
  <2> QED BY <1>1, <1>4, <2>1, <2>2, <2>3
<1> QED BY <1>1, <1>3, <1>4 DEF IsInjective

-----------------------------------------------------------------------------
(* FlattenSeq.                                                                 *)

\* What FlattenSeq has joined after each of its sequences.
Joins(f, s) ==
    f = [i \in 1..Len(s) |-> IF i = 1 THEN s[i] ELSE f[i - 1] \o s[i]]

LEMMA JoinsFacts ==
    ASSUME NEW f, NEW s, Joins(f, s)
    PROVE  /\ f = [i \in 1..Len(s) |-> f[i]]
           /\ \A i \in 1..Len(s) : f[i] = IF i = 1 THEN s[i] ELSE f[i - 1] \o s[i]
BY DEF Joins

LEMMA JoinsExist ==
    ASSUME NEW S
    PROVE  \A s \in Seq(S) : \E f : Joins(f, s)
<1> DEFINE T == {s \in Seq(S) : \E f : Joins(f, s)}
<1>1. << >> \in T
  <2>1. Joins([i \in 1..0 |-> i], << >>)
    BY EmptySeq DEF Joins
  <2> QED BY <2>1, EmptySeq
<1>2. ASSUME NEW s \in Seq(S), NEW x \in S, s \in T
      PROVE  Append(s, x) \in T
  <2>1. PICK f : Joins(f, s)
    BY <1>2
  <2> DEFINE n == Len(s)
             a == Append(s, x)
             g == [i \in 1..(n + 1) |->
                      IF i <= n THEN f[i] ELSE IF i = 1 THEN x ELSE f[n] \o x]
  <2>2. /\ n \in Nat /\ a \in Seq(S) /\ Len(a) = n + 1
        /\ \A i \in 1..n : a[i] = s[i]
        /\ a[n + 1] = x
    BY AppendProperties, LenProperties
  <2> HIDE DEF n, a
  <2>3. ASSUME NEW i \in 1..(n + 1)
        PROVE  g[i] = IF i = 1 THEN a[i] ELSE g[i - 1] \o a[i]
    <3>1. CASE i <= n
      <4>1. f[i] = IF i = 1 THEN s[i] ELSE f[i - 1] \o s[i]
        BY <2>1, <2>2, <3>1, JoinsFacts DEF n
      <4>2. g[i] = f[i] /\ a[i] = s[i] /\ (i # 1 => g[i - 1] = f[i - 1])
        BY <2>2, <3>1
      <4> QED BY <4>1, <4>2
    <3>2. CASE i = n + 1
      BY <2>2, <3>2
    <3> QED BY <2>2, <3>1, <3>2
  <2>4. g = [i \in 1..(n + 1) |-> g[i]]
    OBVIOUS
  <2> HIDE DEF g
  <2>5. Joins(g, a)
    BY <2>2, <2>3, <2>4 DEF Joins
  <2> QED BY <2>2, <2>5 DEF a
<1> HIDE DEF T
<1>3. Seq(S) \subseteq T
  BY <1>1, <1>2, SequenceInduction
<1> QED BY <1>3 DEF T

LEMMA FlattenIs ==
    ASSUME NEW S, NEW s \in Seq(S), Len(s) # 0
    PROVE  \E f : Joins(f, s) /\ FlattenSeq(s) = f[Len(s)]
<1> DEFINE f == CHOOSE f : f = [i \in 1..Len(s) |-> IF i = 1 THEN s[i] ELSE f[i - 1] \o s[i]]
<1>1. \E g : Joins(g, s)
  BY JoinsExist
<1>2. Joins(f, s)
  BY <1>1 DEF Joins
<1>3. FlattenSeq(s) = f[Len(s)]
  BY DEF FlattenSeq
<1> HIDE DEF f
<1> QED BY <1>2, <1>3

LEMMA FlattenOfEmpty == FlattenSeq(<< >>) = << >>
BY EmptySeq DEF FlattenSeq

\* One sequence more is joined at the end.
LEMMA FlattenOfAppend ==
    ASSUME NEW S, NEW s \in Seq(Seq(S)), NEW x \in Seq(S)
    PROVE  FlattenSeq(Append(s, x)) = FlattenSeq(s) \o x
<1> DEFINE n == Len(s)
           a == Append(s, x)
<1>1. /\ n \in Nat /\ a \in Seq(Seq(S)) /\ Len(a) = n + 1
      /\ \A i \in 1..n : a[i] = s[i]
      /\ a[n + 1] = x
  BY AppendProperties, LenProperties
<1> HIDE DEF a
<1>2. PICK g : Joins(g, a) /\ FlattenSeq(a) = g[n + 1]
  <2>1. Len(a) # 0
    BY <1>1
  <2> QED BY <1>1, <2>1, FlattenIs
<1>3. CASE n = 0
  <2>1. s = << >>
    BY <1>3, EmptySeq
  <2>2. g[n + 1] = x
    BY <1>1, <1>2, <1>3, JoinsFacts
  <2> QED BY <1>2, <2>1, <2>2, FlattenOfEmpty, ConcatEmptySeq DEF a
<1>4. CASE n # 0
  <2>1. PICK f : Joins(f, s) /\ FlattenSeq(s) = f[n]
    BY <1>4, FlattenIs
  <2> DEFINE T == {i \in Nat : i \in 1..n => g[i] = f[i]}
  <2>2. 0 \in T
    OBVIOUS
  <2>3. ASSUME NEW i \in Nat, i \in T
        PROVE  i + 1 \in T
    <3>1. ASSUME i + 1 \in 1..n
          PROVE  g[i + 1] = f[i + 1]
      <4>0. i + 1 \in 1..Len(s) /\ i + 1 \in 1..Len(a)
        BY <1>1, <3>1
      <4>1. /\ g[i + 1] = IF i + 1 = 1 THEN a[i + 1] ELSE g[(i + 1) - 1] \o a[i + 1]
            /\ f[i + 1] = IF i + 1 = 1 THEN s[i + 1] ELSE f[(i + 1) - 1] \o s[i + 1]
        BY <1>2, <2>1, <4>0, JoinsFacts
      <4>2. (i + 1) - 1 = i /\ (i + 1 # 1 => i \in 1..n)
        BY <1>1, <3>1
      <4>3. a[i + 1] = s[i + 1]
        BY <1>1, <3>1
      <4> QED BY <2>3, <4>1, <4>2, <4>3
    <3> QED BY <3>1
  <2> HIDE DEF T
  <2>4. Nat \subseteq T
    BY <2>2, <2>3, NumberInduction
  <2>5. g[n] = f[n]
    BY <1>1, <1>4, <2>4 DEF T
  <2>6. g[n + 1] = g[n] \o x
    <3>1. g[n + 1] = IF n + 1 = 1 THEN a[n + 1] ELSE g[(n + 1) - 1] \o a[n + 1]
      BY <1>1, <1>2, JoinsFacts
    <3>2. (n + 1) - 1 = n /\ n + 1 # 1
      BY <1>1, <1>4
    <3> QED BY <1>1, <3>1, <3>2
  <2> QED BY <1>2, <2>1, <2>5, <2>6 DEF a
<1> QED BY <1>3, <1>4

LEMMA FlattenType ==
    ASSUME NEW S
    PROVE  \A s \in Seq(Seq(S)) : FlattenSeq(s) \in Seq(S)
<1> DEFINE T == {s \in Seq(Seq(S)) : FlattenSeq(s) \in Seq(S)}
<1>1. << >> \in T
  BY FlattenOfEmpty, EmptySeq
<1>2. ASSUME NEW s \in Seq(Seq(S)), NEW x \in Seq(S), s \in T
      PROVE  Append(s, x) \in T
  BY <1>2, FlattenOfAppend, AppendProperties, ConcatProperties
<1> HIDE DEF T
<1>3. Seq(Seq(S)) \subseteq T
  BY <1>1, <1>2, SequenceInduction
<1> QED BY <1>3 DEF T

\* A sequence alone is joined to itself.
LEMMA FlattenOfOne ==
    ASSUME NEW S, NEW x \in Seq(S)
    PROVE  FlattenSeq(<<x>>) = x
<1>1. << >> \in Seq(Seq(S)) /\ Append(<< >>, x) = <<x>>
  OBVIOUS
<1>2. FlattenSeq(Append(<< >>, x)) = FlattenSeq(<< >>) \o x
  BY <1>1, FlattenOfAppend
<1> QED BY <1>1, <1>2, FlattenOfEmpty, ConcatEmptySeq

\* The same for lists of sequences that are given as functions.
LEMMA FlattenOfLonger ==
    ASSUME NEW S, NEW n \in Nat, NEW p \in [1..n -> Seq(S)],
           NEW q \in [1..(n + 1) -> Seq(S)], \A i \in 1..n : q[i] = p[i]
    PROVE  /\ FlattenSeq(p) \in Seq(S)
           /\ FlattenSeq(q) = FlattenSeq(p) \o q[n + 1]
<1>1. p \in Seq(Seq(S)) /\ q \in Seq(Seq(S)) /\ Len(p) = n /\ Len(q) = n + 1
  BY SeqDef
<1>2. q = Append(p, q[n + 1])
  <2>1. q[n + 1] \in Seq(S)
    OBVIOUS
  <2>2. /\ Append(p, q[n + 1]) \in Seq(Seq(S)) /\ Len(Append(p, q[n + 1])) = n + 1
        /\ \A i \in 1..n : Append(p, q[n + 1])[i] = p[i]
        /\ Append(p, q[n + 1])[n + 1] = q[n + 1]
    BY <1>1, <2>1, AppendProperties
  <2>3. \A i \in 1..(n + 1) : q[i] = Append(p, q[n + 1])[i]
    BY <2>2
  <2> QED BY <1>1, <2>2, <2>3, SeqEqual
<1>3. FlattenSeq(Append(p, q[n + 1])) = FlattenSeq(p) \o q[n + 1]
  BY <1>1, FlattenOfAppend
<1> QED BY <1>1, <1>2, <1>3, FlattenType

\* What is in the sequences is in what they are joined to, and once if it is
\* once in one of them.
LEMMA FlattenRange ==
    ASSUME NEW S
    PROVE  \A s \in Seq(Seq(S)) :
              /\ Range(FlattenSeq(s)) = UNION {Range(s[i]) : i \in 1..Len(s)}
              /\ /\ \A i \in 1..Len(s) : IsInjective(s[i])
                 /\ \A i, j \in 1..Len(s) : i # j => Range(s[i]) \cap Range(s[j]) = {}
                 => IsInjective(FlattenSeq(s))
<1> DEFINE Parts(s) == UNION {Range(s[i]) : i \in 1..Len(s)}
           Apart(s) == /\ \A i \in 1..Len(s) : IsInjective(s[i])
                       /\ \A i, j \in 1..Len(s) : i # j => Range(s[i]) \cap Range(s[j]) = {}
           Fits(s) == /\ Range(FlattenSeq(s)) = Parts(s)
                      /\ Apart(s) => IsInjective(FlattenSeq(s))
           T == {s \in Seq(Seq(S)) : Fits(s)}
<1>1. << >> \in T
  <2>1. << >> \in Seq(Seq(S)) /\ Len(<< >>) = 0
    BY EmptySeq
  <2>2. Range(<< >>) = {} /\ IsInjective(<< >>)
    BY EmptySeq DEF Range, IsInjective
  <2> QED BY <2>1, <2>2, FlattenOfEmpty
<1>2. ASSUME NEW s \in Seq(Seq(S)), NEW x \in Seq(S), s \in T
      PROVE  Append(s, x) \in T
  <2> DEFINE n == Len(s)
             a == Append(s, x)
  <2>1. /\ n \in Nat /\ a \in Seq(Seq(S)) /\ Len(a) = n + 1
        /\ \A i \in 1..n : a[i] = s[i]
        /\ a[n + 1] = x
    BY AppendProperties, LenProperties
  <2>2. FlattenSeq(a) = FlattenSeq(s) \o x /\ FlattenSeq(s) \in Seq(S)
    BY FlattenOfAppend, FlattenType
  <2> HIDE DEF a
  <2>3. Parts(a) = Parts(s) \cup Range(x)
    <3>1. /\ \A i \in 1..Len(a) : a[i] = x \/ (i \in 1..Len(s) /\ a[i] = s[i])
          /\ \A i \in 1..Len(s) : i \in 1..Len(a) /\ a[i] = s[i]
          /\ n + 1 \in 1..Len(a) /\ a[n + 1] = x
      BY <2>1
    <3>2. ASSUME NEW y
          PROVE  y \in Parts(a) <=> y \in Parts(s) \cup Range(x)
      BY <3>1
    <3> QED BY <3>2
  <2>4. Range(FlattenSeq(a)) = Parts(a)
    <3>1. Range(FlattenSeq(s)) = Parts(s)
      BY <1>2
    <3>2. Range(FlattenSeq(s) \o x) = Range(FlattenSeq(s)) \cup Range(x)
      BY <2>2, RangeOfConcat
    <3> QED BY <2>2, <2>3, <3>1, <3>2
  <2>5. ASSUME Apart(a)
        PROVE  IsInjective(FlattenSeq(a))
    <3>1. Apart(s)
      <4>1. \A i \in 1..n : i \in 1..(n + 1) /\ a[i] = s[i]
        BY <2>1
      <4> QED BY <2>1, <2>5, <4>1
    <3>2. IsInjective(x)
      <4>1. n + 1 \in 1..Len(a)
        BY <2>1
      <4> QED BY <2>1, <2>5, <4>1
    <3>3. \A i \in 1..n : Range(s[i]) \cap Range(x) = {}
      <4>1. \A i \in 1..n : i \in 1..Len(a) /\ n + 1 \in 1..Len(a) /\ i # n + 1
        BY <2>1
      <4> QED BY <2>1, <2>5, <4>1
    <3>4. Range(FlattenSeq(s)) \cap Range(x) = {}
      BY <1>2, <3>3
    <3>5. IsInjective(FlattenSeq(s))
      BY <1>2, <3>1
    <3> QED BY <2>2, <3>2, <3>4, <3>5, RangeOfConcat
  <2> QED BY <2>1, <2>4, <2>5 DEF a
<1> HIDE DEF T
<1>3. Seq(Seq(S)) \subseteq T
  BY <1>1, <1>2, SequenceInduction
<1> QED BY <1>3 DEF T

-----------------------------------------------------------------------------
(* Sequences of one element at most.                                           *)

Options(S) == {<< >>} \cup {<<x>> : x \in S}

LEMMA OptionsType ==
    ASSUME NEW S
    PROVE  Options(S) \subseteq Seq(S)
<1>1. << >> \in Seq(S) /\ \A x \in S : <<x>> \in Seq(S)
  OBVIOUS
<1> QED BY <1>1 DEF Options

Present(s) == {i \in 1..Len(s) : s[i] # << >>}
Earlier(s, i) == {j \in 1..(i - 1) : s[j] # << >>}

\* They are joined in order: each element comes after those that are present
\* before it, and there are no others.
Listing(s) ==
    /\ Len(FlattenSeq(s)) = Cardinality(Present(s))
    /\ \A i \in Present(s) :
          /\ Cardinality(Earlier(s, i)) + 1 \in 1..Len(FlattenSeq(s))
          /\ FlattenSeq(s)[Cardinality(Earlier(s, i)) + 1] = s[i][1]
    /\ \A k \in 1..Len(FlattenSeq(s)) :
          \E i \in Present(s) : k = Cardinality(Earlier(s, i)) + 1

LEMMA FlattenOfOptions ==
    ASSUME NEW S
    PROVE  \A s \in Seq(Options(S)) : Listing(s)
<1> DEFINE T == {s \in Seq(Options(S)) : Listing(s)}
<1>1. << >> \in T
  <2>1. << >> \in Seq(Options(S)) /\ Len(<< >>) = 0
    BY EmptySeq
  <2>2. Present(<< >>) = {}
    BY <2>1 DEF Present
  <2>3. Cardinality({}) = 0
    BY FS_EmptySet
  <2>4. PICK e : e = << >>
    OBVIOUS
  <2>5. Listing(e)
    <3>1. Len(FlattenSeq(e)) = 0 /\ Present(e) = {}
      BY <2>1, <2>2, <2>4, FlattenOfEmpty
    <3>2. 1..Len(FlattenSeq(e)) = {} /\ Cardinality(Present(e)) = 0
      BY <2>3, <3>1
    <3> QED BY <3>1, <3>2 DEF Listing
  <2> QED BY <2>1, <2>4, <2>5
<1>2. ASSUME NEW s \in Seq(Options(S)), NEW o \in Options(S), s \in T
      PROVE  Append(s, o) \in T
  <2> DEFINE n == Len(s)
             a == Append(s, o)
             flat == FlattenSeq(s)
  <2>0. Options(S) \subseteq Seq(S)
    BY OptionsType
  <2>1. /\ n \in Nat /\ a \in Seq(Options(S)) /\ Len(a) = n + 1
        /\ \A i \in 1..n : a[i] = s[i]
        /\ a[n + 1] = o
    BY AppendProperties, LenProperties
  <2>2. FlattenSeq(a) = flat \o o /\ flat \in Seq(S) /\ o \in Seq(S)
    <3>1. s \in Seq(Seq(S)) /\ o \in Seq(S)
      BY <2>0
    <3> QED BY <3>1, FlattenOfAppend, FlattenType
  <2>3. Listing(s)
    BY <1>2
  <2> HIDE DEF a
  <2>4. /\ \A i \in 1..n : Earlier(a, i) = Earlier(s, i)
        /\ Earlier(a, n + 1) = Present(s)
    BY <2>1 DEF Earlier, Present
  <2>5. IsFiniteSet(Present(s)) /\ n + 1 \notin Present(s)
    <3>1. Present(s) \subseteq 1..n /\ IsFiniteSet(1..n)
      BY <2>1, FS_Interval DEF Present
    <3> QED BY <2>1, <3>1, FS_Subset
  <2>6. CASE o = << >>
    <3>1. Present(a) = Present(s)
      BY <2>1, <2>6 DEF Present
    <3>2. FlattenSeq(a) = flat
      BY <2>2, <2>6
    <3>3. \A i \in Present(s) : i \in 1..n /\ a[i] = s[i]
      BY <2>1 DEF Present
    <3>4. Listing(a)
      BY <2>3, <2>4, <3>1, <3>2, <3>3 DEF Listing
    <3> QED BY <2>1, <3>4 DEF a
  <2>7. CASE \E x \in S : o = <<x>>
    <3>1. PICK x \in S : o = <<x>>
      BY <2>7
    <3>2. Present(a) = Present(s) \cup {n + 1}
      <4>1. a[n + 1] # << >>
        BY <2>1, <3>1
      <4>2. 1..(n + 1) = (1..n) \cup {n + 1}
        BY <2>1
      <4> QED BY <2>1, <4>1, <4>2 DEF Present
    <3>3. Cardinality(Present(a)) = Cardinality(Present(s)) + 1
      BY <2>5, <3>2, FS_AddElement
    <3>4. /\ Len(flat) \in Nat
          /\ Len(FlattenSeq(a)) = Len(flat) + 1
          /\ \A k \in 1..Len(flat) : FlattenSeq(a)[k] = flat[k]
          /\ FlattenSeq(a)[Len(flat) + 1] = x
      BY <2>2, <3>1
    <3>5. \A i \in Present(s) : i \in 1..n /\ a[i] = s[i] /\ i \in Present(a)
      BY <2>1, <3>2 DEF Present
    <3>6. /\ Earlier(a, n + 1) = Present(s) /\ a[n + 1][1] = x
          /\ Cardinality(Earlier(a, n + 1)) = Len(flat)
      BY <2>1, <2>3, <2>4, <3>1 DEF Listing
    <3>7. ASSUME NEW i \in Present(a)
          PROVE  /\ Cardinality(Earlier(a, i)) + 1 \in 1..Len(FlattenSeq(a))
                 /\ FlattenSeq(a)[Cardinality(Earlier(a, i)) + 1] = a[i][1]
      <4>1. CASE i = n + 1
        BY <3>4, <3>6, <4>1
      <4>2. CASE i \in Present(s)
        <5>1. /\ Cardinality(Earlier(a, i)) + 1 \in 1..Len(flat)
              /\ flat[Cardinality(Earlier(a, i)) + 1] = a[i][1]
          BY <2>3, <2>4, <3>5, <4>2 DEF Listing
        <5> QED BY <3>4, <5>1
      <4> QED BY <3>2, <4>1, <4>2
    <3>8. ASSUME NEW k \in 1..Len(FlattenSeq(a))
          PROVE  \E i \in Present(a) : k = Cardinality(Earlier(a, i)) + 1
      <4>1. CASE k = Len(flat) + 1
        BY <3>2, <3>6, <4>1
      <4>2. CASE k \in 1..Len(flat)
        BY <2>3, <2>4, <3>5, <4>2 DEF Listing
      <4> QED BY <3>4, <4>1, <4>2
    <3>9. Listing(a)
      BY <2>3, <3>3, <3>4, <3>7, <3>8 DEF Listing
    <3> QED BY <2>1, <3>9 DEF a
  <2> QED BY <2>6, <2>7 DEF Options
<1> HIDE DEF T
<1>3. Seq(Options(S)) \subseteq T
  BY <1>1, <1>2, SequenceInduction
<1> QED BY <1>3 DEF T

-----------------------------------------------------------------------------
(* Tables that grow by the names they do not have.                             *)

\* What each name adds to a table, and all of them.
Added(table, names) ==
    [i \in DOMAIN names |->
        IF names[i] \in Range(table) \cup {names[j] : j \in 1..(i - 1)}
        THEN << >> ELSE <<names[i]>>]

AllAdded(table, names) == FlattenSeq(Added(table, names))

LEMMA AddedOfAppend ==
    ASSUME NEW S, NEW table, NEW names \in Seq(S), NEW n \in S
    PROVE  /\ AllAdded(table, names) \in Seq(S)
           /\ AllAdded(table, Append(names, n))
                 = IF n \in Range(table) \cup Range(names) THEN AllAdded(table, names)
                   ELSE Append(AllAdded(table, names), n)
<1> DEFINE k == Len(names)
           more == Append(names, n)
           p == Added(table, names)
           q == Added(table, more)
<1>1. /\ k \in Nat /\ DOMAIN names = 1..k
      /\ \A i \in 1..k : names[i] \in S
      /\ DOMAIN more = 1..(k + 1)
      /\ \A i \in 1..k : more[i] = names[i]
      /\ more[k + 1] = n
  BY AppendProperties, LenProperties
<1> HIDE DEF more, k
<1>2. ASSUME NEW i \in 1..k
      PROVE  {more[j] : j \in 1..(i - 1)} = {names[j] : j \in 1..(i - 1)}
  <2>1. \A j \in 1..(i - 1) : j \in 1..k
    BY <1>1
  <2> QED BY <1>1, <2>1
<1>3. \A x \in S : << >> \in Seq(S) /\ <<x>> \in Seq(S)
  OBVIOUS
<1>4. p \in [1..k -> Seq(S)]
  BY <1>1, <1>3 DEF Added
<1>5. q \in [1..(k + 1) -> Seq(S)]
  <2>1. \A i \in 1..(k + 1) : more[i] \in S
    BY <1>1
  <2> QED BY <1>1, <1>3, <2>1 DEF Added
<1>6. \A i \in 1..k : q[i] = p[i]
  BY <1>1, <1>2 DEF Added
<1>7. q[k + 1] = IF n \in Range(table) \cup Range(names) THEN << >> ELSE <<n>>
  <2>1. {more[j] : j \in 1..((k + 1) - 1)} = Range(names)
    BY <1>1 DEF Range
  <2> QED BY <1>1, <2>1 DEF Added
<1> HIDE DEF p, q
<1>8. FlattenSeq(p) \in Seq(S) /\ FlattenSeq(q) = FlattenSeq(p) \o q[k + 1]
  BY <1>1, <1>4, <1>5, <1>6, FlattenOfLonger
<1>9. FlattenSeq(p) \o << >> = FlattenSeq(p) /\ FlattenSeq(p) \o <<n>> = Append(FlattenSeq(p), n)
  BY <1>8, ConcatEmptySeq, AppendIsConcat
<1> QED BY <1>7, <1>8, <1>9 DEF p, q, more, AllAdded

\* What is added to a table: each name that was not there, once.
LEMMA AddedFacts ==
    ASSUME NEW S, NEW table
    PROVE  \A names \in Seq(S) : /\ AllAdded(table, names) \in Seq(S)
                                 /\ Range(AllAdded(table, names)) = Range(names) \ Range(table)
                                 /\ IsInjective(AllAdded(table, names))
<1> DEFINE T == {names \in Seq(S) : /\ Range(AllAdded(table, names)) = Range(names) \ Range(table)
                                    /\ IsInjective(AllAdded(table, names))}
<1>1. << >> \in T
  <2>1. Added(table, << >>) = << >>
    BY EmptySeq DEF Added
  <2>2. AllAdded(table, << >>) = << >>
    BY <2>1, FlattenOfEmpty DEF AllAdded
  <2> QED BY <2>2, EmptySeq DEF Range, IsInjective
<1>2. ASSUME NEW names \in Seq(S), NEW n \in S, names \in T
      PROVE  Append(names, n) \in T
  <2>1. Append(names, n) \in Seq(S) /\ Range(Append(names, n)) = Range(names) \cup {n}
    BY RangeOfAppend, AppendProperties
  <2>2. AllAdded(table, names) \in Seq(S)
    BY AddedOfAppend
  <2>3. CASE n \in Range(table) \cup Range(names)
    <3>1. AllAdded(table, Append(names, n)) = AllAdded(table, names)
      BY <2>3, AddedOfAppend
    <3> QED BY <1>2, <2>1, <2>3, <3>1
  <2>4. CASE n \notin Range(table) \cup Range(names)
    <3>1. AllAdded(table, Append(names, n)) = Append(AllAdded(table, names), n)
      BY <2>4, AddedOfAppend
    <3>2. /\ Range(Append(AllAdded(table, names), n)) = Range(AllAdded(table, names)) \cup {n}
          /\ n \notin Range(AllAdded(table, names)) /\ IsInjective(AllAdded(table, names))
               => IsInjective(Append(AllAdded(table, names), n))
      BY <2>2, RangeOfAppend
    <3> QED BY <1>2, <2>1, <2>4, <3>1, <3>2
  <2> QED BY <2>3, <2>4
<1> HIDE DEF T
<1>3. Seq(S) \subseteq T
  BY <1>1, <1>2, SequenceInduction
<1>4. ASSUME NEW names \in Seq(S)
      PROVE  AllAdded(table, names) \in Seq(S)
  <2>1. CASE names = << >>
    <3>1. Added(table, << >>) = << >>
      BY EmptySeq DEF Added
    <3> QED BY <2>1, <3>1, FlattenOfEmpty, EmptySeq DEF AllAdded
  <2>2. CASE names # << >>
    <3>1. \E n : n \in S
      BY <2>2, EmptySeq, ElementOfSeq
    <3> QED BY <3>1, AddedOfAppend
  <2> QED BY <2>1, <2>2
<1> QED BY <1>3, <1>4 DEF T
================================================================================
