-------------------------- MODULE AuthorizerProofs ---------------------------
(* Theorems about Authorizer for every set of tokens, contents, limits and     *)
(* queries: its types, that decisions are taken on complete facts, that facts  *)
(* and recorded times only grow, that coalitions of blocks are isolated, and   *)
(* that decisions and answers are those of the least model of the blocks that  *)
(* each check, policy or query trusts, computed alone.                         *)
(* Before them, what holds of one pass of the Datalog engine whatever the      *)
(* rules and the facts, and that as many passes as there are entries give the  *)
(* least set that has the loaded facts and is closed under the rules.          *)
EXTENDS AuthorizerProperties, SequenceFacts, FiniteSetTheorems

-----------------------------------------------------------------------------
(* One pass: its results have the right type, it is monotone, and the part of  *)
(* it that a coalition of blocks sees is the pass of that coalition alone.     *)

\* TrustedOrigins::from_scopes yields a set of origins.
LEMMA FromScopesType ==
    ASSUME NEW scopes \in SUBSET Scope,
           NEW default \in SUBSET OriginIds,
           NEW current \in OriginIds,
           NEW keyBlocks \in [Keys -> SUBSET Nat]
    PROVE  FromScopes(scopes, default, current, keyBlocks) \in SUBSET OriginIds
<1>1. ASSUME NEW s \in scopes
      PROVE  ScopeOrigins(s, current, keyBlocks) \subseteq OriginIds
  <2>1. CASE s.kind = "authority"
    BY <2>1 DEF ScopeOrigins, OriginIds
  <2>2. CASE s.kind = "previous"
    BY <2>2, AuthorizerAssumption DEF ScopeOrigins, OriginIds
  <2>3. CASE s.kind = "key"
    <3>1. s.key \in Keys
      BY <2>3 DEF Scope
    <3>2. keyBlocks[s.key] \subseteq Nat
      BY <3>1
    <3> QED BY <2>3, <3>2 DEF ScopeOrigins, OriginIds
  <2> QED BY <2>1, <2>2, <2>3 DEF Scope
<1>2. {AuthorizerId, current} \subseteq OriginIds
  BY DEF OriginIds
<1> QED BY <1>1, <1>2 DEF FromScopes

\* The blocks signed by each key.
Numbering == [Keys -> SUBSET Nat]

\* The keys that matter to the scopes are all that count.
LEMMA FromScopesAgree ==
    ASSUME NEW scopes \in SUBSET Scope, NEW default, NEW current,
           NEW keys \in Numbering, NEW all \in Numbering,
           \A s \in scopes : s.kind = "key" => keys[s.key] = all[s.key]
    PROVE  FromScopes(scopes, default, current, keys) = FromScopes(scopes, default, current, all)
<1>1. ASSUME NEW s \in scopes
      PROVE  ScopeOrigins(s, current, keys) = ScopeOrigins(s, current, all)
  BY DEF ScopeOrigins, Scope
<1> QED BY <1>1 DEF FromScopes

\* An entry is a conclusion of a rule exactly when one of the rule's ground
\* instances that are true has a match of that origin among the visible facts.
LEMMA ConclusionsMember ==
    ASSUME NEW rule, NEW entries, NEW e
    PROVE  e \in Conclusions(rule, entries) <=>
              \E ground \in rule.instances :
                 \E m \in Matches(ground, Visible(entries, rule.trust)) :
                    /\ ground.guard = "true"
                    /\ e = [origin |-> MatchOrigin(m, rule.origin),
                            fact |-> ground.head]
BY DEF Conclusions

\* Rule::apply yields facts under sets of origins.
LEMMA ConclusionsType ==
    ASSUME NEW rule \in WorldRule, NEW entries \in SUBSET Entry
    PROVE  Conclusions(rule, entries) \subseteq Entry
<1> SUFFICES ASSUME NEW e \in Conclusions(rule, entries)
             PROVE  e \in Entry
  OBVIOUS
<1>1. PICK ground \in rule.instances :
         \E m \in Matches(ground, Visible(entries, rule.trust)) :
            e = [origin |-> MatchOrigin(m, rule.origin), fact |-> ground.head]
  BY ConclusionsMember
<1>2. PICK m \in Matches(ground, Visible(entries, rule.trust)) :
         e = [origin |-> MatchOrigin(m, rule.origin), fact |-> ground.head]
  BY <1>1
<1>3. m \in [DOMAIN ground.body -> entries]
  BY DEF Matches, Visible
<1>4. \A i \in DOMAIN m : m[i].origin \subseteq OriginIds
  BY <1>3 DEF Entry
<1>5. MatchOrigin(m, rule.origin) \subseteq OriginIds
  BY <1>4 DEF MatchOrigin, WorldRule
<1>6. ground.head \in Facts
  BY DEF WorldRule, Ground
<1> QED BY <1>2, <1>5, <1>6 DEF Entry

\* One pass of the engine yields entries.
LEMMA DerivedType ==
    ASSUME NEW rs \in SUBSET WorldRule, NEW entries \in SUBSET Entry
    PROVE  Derived(rs, entries) \subseteq Entry
BY ConclusionsType DEF Derived

\* More facts give more matches ...
LEMMA MatchesMonotone ==
    ASSUME NEW ground, NEW entries, NEW more, entries \subseteq more
    PROVE  Matches(ground, entries) \subseteq Matches(ground, more)
BY DEF Matches

\* ... and more conclusions: applying rules is monotone.
LEMMA DerivedMonotone ==
    ASSUME NEW rs, NEW entries, NEW more, entries \subseteq more
    PROVE  Derived(rs, entries) \subseteq Derived(rs, more)
<1> SUFFICES ASSUME NEW r \in rs, NEW e \in Conclusions(r, entries)
             PROVE  e \in Conclusions(r, more)
  BY DEF Derived
<1>1. Visible(entries, r.trust) \subseteq Visible(more, r.trust)
  BY DEF Visible
<1>2. \A ground : Matches(ground, Visible(entries, r.trust))
                     \subseteq Matches(ground, Visible(more, r.trust))
  BY <1>1, MatchesMonotone
<1> QED BY <1>2, ConclusionsMember

\* The origin of a match lies within a group of blocks exactly when the rule
\* and every fact it used belong to that group.
LEMMA MatchOriginWithin ==
    ASSUME NEW m, NEW owner, NEW group
    PROVE  MatchOrigin(m, owner) \subseteq group <=>
              owner \in group /\ \A i \in DOMAIN m : m[i].origin \subseteq group
BY DEF MatchOrigin

\* Isolation of one pass: what a group of blocks sees of a pass over all rules
\* and facts is the pass of its own rules over its own facts.
LEMMA DerivedWithin ==
    ASSUME NEW rs, NEW entries, NEW group
    PROVE  {e \in Derived(rs, entries) : e.origin \subseteq group}
              = Derived({r \in rs : r.origin \in group},
                        {e \in entries : e.origin \subseteq group})
<1> DEFINE own  == {r \in rs : r.origin \in group}
           seen == {e \in entries : e.origin \subseteq group}
<1> HIDE DEF own, seen
<1>1. ASSUME NEW r \in rs, NEW e \in Conclusions(r, entries),
             e.origin \subseteq group
      PROVE  r \in own /\ e \in Conclusions(r, seen)
  <2>1. PICK ground \in r.instances :
           \E m \in Matches(ground, Visible(entries, r.trust)) :
              /\ ground.guard = "true"
              /\ e = [origin |-> MatchOrigin(m, r.origin), fact |-> ground.head]
    BY ConclusionsMember
  <2>2. PICK m \in Matches(ground, Visible(entries, r.trust)) :
              /\ ground.guard = "true"
              /\ e = [origin |-> MatchOrigin(m, r.origin), fact |-> ground.head]
    BY <2>1
  <2>3. r.origin \in group /\ \A i \in DOMAIN m : m[i].origin \subseteq group
    BY <1>1, <2>2, MatchOriginWithin
  <2>4. /\ m \in [DOMAIN ground.body -> Visible(entries, r.trust)]
        /\ \A i \in DOMAIN ground.body : m[i].fact = ground.body[i]
    BY DEF Matches
  <2>5. \A i \in DOMAIN ground.body : m[i] \in Visible(seen, r.trust)
    BY <2>3, <2>4 DEF Visible, seen
  <2>6. m \in Matches(ground, Visible(seen, r.trust))
    BY <2>4, <2>5 DEF Matches
  <2> QED BY <2>2, <2>3, <2>6, ConclusionsMember DEF own
<1>2. ASSUME NEW r \in own, NEW e \in Conclusions(r, seen)
      PROVE  e \in Conclusions(r, entries) /\ e.origin \subseteq group
  <2>1. PICK ground \in r.instances :
           \E m \in Matches(ground, Visible(seen, r.trust)) :
              /\ ground.guard = "true"
              /\ e = [origin |-> MatchOrigin(m, r.origin), fact |-> ground.head]
    BY ConclusionsMember
  <2>2. PICK m \in Matches(ground, Visible(seen, r.trust)) :
              /\ ground.guard = "true"
              /\ e = [origin |-> MatchOrigin(m, r.origin), fact |-> ground.head]
    BY <2>1
  <2>3. Visible(seen, r.trust) \subseteq Visible(entries, r.trust)
    BY DEF Visible, seen
  <2>4. m \in Matches(ground, Visible(entries, r.trust))
    BY <2>3, MatchesMonotone
  <2>5. m \in [DOMAIN ground.body -> Visible(seen, r.trust)]
    BY DEF Matches
  <2>6. \A i \in DOMAIN m : m[i].origin \subseteq group
    BY <2>5 DEF Visible, seen
  <2>7. MatchOrigin(m, r.origin) \subseteq group
    BY <2>6, MatchOriginWithin DEF own
  <2> QED BY <2>2, <2>4, <2>7, ConclusionsMember
<1>3. \A e : e \in Derived(rs, entries) /\ e.origin \subseteq group
             <=> e \in Derived(own, seen)
  BY <1>1, <1>2 DEF Derived, own
<1> QED BY <1>3 DEF own, seen

-----------------------------------------------------------------------------
(* The passes.                                                                 *)

Pass(rs, entries) == entries \cup Derived(rs, entries)

\* The first m passes, as a function.
FirstPasses(g, m, rs, loaded) ==
    g = [i \in 0..m |-> IF i = 0 THEN loaded ELSE Pass(rs, g[i - 1])]

LEMMA FirstPassesExist ==
    ASSUME NEW rs, NEW loaded
    PROVE  \A m \in Nat : \E g : FirstPasses(g, m, rs, loaded)
<1> DEFINE T == {m \in Nat : \E g : FirstPasses(g, m, rs, loaded)}
<1>1. 0 \in T
  <2>1. FirstPasses([i \in 0..0 |-> loaded], 0, rs, loaded)
    BY DEF FirstPasses
  <2> QED BY <2>1
<1>2. ASSUME NEW m \in Nat, m \in T
      PROVE  m + 1 \in T
  <2>1. PICK g : FirstPasses(g, m, rs, loaded)
    BY <1>2
  <2> DEFINE h == [i \in 0..(m + 1) |-> IF i <= m THEN g[i] ELSE Pass(rs, g[m])]
  <2>2. ASSUME NEW i \in 0..(m + 1)
        PROVE  h[i] = IF i = 0 THEN loaded ELSE Pass(rs, h[i - 1])
    <3>1. CASE i = m + 1
      BY <3>1
    <3>2. CASE i <= m
      <4>1. g[i] = IF i = 0 THEN loaded ELSE Pass(rs, g[i - 1])
        BY <2>1, <3>2 DEF FirstPasses
      <4>2. h[i] = g[i] /\ (i # 0 => h[i - 1] = g[i - 1])
        BY <3>2
      <4> QED BY <4>1, <4>2
    <3> QED BY <3>1, <3>2
  <2>3. h = [i \in 0..(m + 1) |-> h[i]]
    OBVIOUS
  <2> HIDE DEF h
  <2>4. FirstPasses(h, m + 1, rs, loaded)
    BY <2>2, <2>3 DEF FirstPasses
  <2> QED BY <2>4
<1> HIDE DEF T
<1>3. Nat \subseteq T
  BY <1>1, <1>2, NumberInduction
<1> QED BY <1>3 DEF T

LEMMA FirstPassesAgree ==
    ASSUME NEW rs, NEW loaded, NEW m \in Nat, NEW k \in Nat, NEW g, NEW h,
           FirstPasses(g, m, rs, loaded), FirstPasses(h, k, rs, loaded)
    PROVE  \A i \in Nat : i <= m /\ i <= k => g[i] = h[i]
<1> DEFINE T == {i \in Nat : i <= m /\ i <= k => g[i] = h[i]}
<1>1. /\ \A i \in 0..m : g[i] = IF i = 0 THEN loaded ELSE Pass(rs, g[i - 1])
      /\ \A i \in 0..k : h[i] = IF i = 0 THEN loaded ELSE Pass(rs, h[i - 1])
  BY DEF FirstPasses
<1>2. 0 \in T
  BY <1>1
<1>3. ASSUME NEW i \in Nat, i \in T
      PROVE  i + 1 \in T
  BY <1>1, <1>3
<1> HIDE DEF T
<1>4. Nat \subseteq T
  BY <1>2, <1>3, NumberInduction
<1> QED BY <1>4 DEF T

\* The recursive function of the definition is what its equation says.
LEMMA PassesAre ==
    ASSUME NEW rs, NEW loaded
    PROVE  /\ Passes(rs, loaded)[0] = loaded
           /\ \A n \in Nat : Passes(rs, loaded)[n + 1] = Pass(rs, Passes(rs, loaded)[n])
<1> DEFINE first(m) == CHOOSE g : FirstPasses(g, m, rs, loaded)
           all == [n \in Nat |-> first(n)[n]]
           Equation(f) == f = [n \in Nat |-> IF n = 0 THEN loaded ELSE Pass(rs, f[n - 1])]
<1>1. \A m \in Nat : FirstPasses(first(m), m, rs, loaded)
  BY FirstPassesExist
<1> HIDE DEF first
<1>2. ASSUME NEW n \in Nat
      PROVE  all[n] = IF n = 0 THEN loaded ELSE Pass(rs, all[n - 1])
  <2>1. first(n)[n] = IF n = 0 THEN loaded ELSE Pass(rs, first(n)[n - 1])
    BY <1>1 DEF FirstPasses
  <2>2. CASE n = 0
    BY <2>1, <2>2
  <2>3. CASE n # 0
    <3>1. n - 1 \in Nat
      BY <2>3
    <3>2. first(n)[n - 1] = first(n - 1)[n - 1]
      BY <1>1, <3>1, FirstPassesAgree
    <3> QED BY <2>1, <2>3, <3>1, <3>2
  <2> QED BY <2>2, <2>3
<1>3. Equation(all)
  <2>1. all = [n \in Nat |-> all[n]]
    OBVIOUS
  <2> HIDE DEF all
  <2> QED BY <1>2, <2>1
<1> DEFINE F == Passes(rs, loaded)
<1>4. F = CHOOSE f : Equation(f)
  BY DEF Passes, Pass
<1> HIDE DEF F, all, Equation
<1>5. Equation(F)
  BY <1>3, <1>4
<1>6. F = [n \in Nat |-> IF n = 0 THEN loaded ELSE Pass(rs, F[n - 1])]
  BY <1>5 DEF Equation
<1>7. F[0] = loaded
  BY <1>6
<1>8. \A n \in Nat : F[n + 1] = Pass(rs, F[n])
  <2> TAKE n \in Nat
  <2>1. n + 1 \in Nat /\ n + 1 # 0 /\ (n + 1) - 1 = n
    OBVIOUS
  <2> QED BY <1>6, <2>1
<1> QED BY <1>7, <1>8 DEF F

LEMMA PassesGrow ==
    ASSUME NEW rs, NEW loaded
    PROVE  \A n \in Nat : loaded \subseteq Passes(rs, loaded)[n]
<1> DEFINE F == Passes(rs, loaded)
           T == {n \in Nat : loaded \subseteq F[n]}
<1>1. F[0] = loaded /\ \A n \in Nat : F[n + 1] = F[n] \cup Derived(rs, F[n])
  BY PassesAre DEF Pass
<1> HIDE DEF F
<1>2. 0 \in T /\ \A n \in Nat : n \in T => n + 1 \in T
  BY <1>1
<1> HIDE DEF T
<1>3. Nat \subseteq T
  BY <1>2, NumberInduction
<1> QED BY <1>3 DEF T, F

\* A set that is closed under the rules has all that the passes add.
LEMMA PassesWithin ==
    ASSUME NEW rs, NEW loaded, NEW closed, loaded \subseteq closed,
           Derived(rs, closed) \subseteq closed
    PROVE  \A n \in Nat : Passes(rs, loaded)[n] \subseteq closed
<1> DEFINE F == Passes(rs, loaded)
           T == {n \in Nat : F[n] \subseteq closed}
<1>1. F[0] = loaded /\ \A n \in Nat : F[n + 1] = F[n] \cup Derived(rs, F[n])
  BY PassesAre DEF Pass
<1> HIDE DEF F
<1>2. ASSUME NEW n \in Nat, n \in T
      PROVE  n + 1 \in T
  <2>1. Derived(rs, F[n]) \subseteq Derived(rs, closed)
    BY <1>2, DerivedMonotone
  <2> QED BY <1>1, <1>2, <2>1
<1>3. 0 \in T
  BY <1>1
<1> HIDE DEF T
<1>4. Nat \subseteq T
  BY <1>2, <1>3, NumberInduction
<1> QED BY <1>4 DEF T, F

-----------------------------------------------------------------------------
(* There are as many passes as entries.                                        *)

\* The entries that the blocks of a token and its authorizer can make.
Universe(tk) == [origin: SUBSET Ids(tk), fact: Facts]

\* Rules of these blocks.
RulesOfToken(tk) == {r \in WorldRule : r.origin \in Ids(tk)}

LEMMA UniverseSize ==
    ASSUME NEW tk \in Seq(Block)
    PROVE  /\ IsFiniteSet(Universe(tk))
           /\ EnoughPasses(tk) \in Nat
           /\ Cardinality(Universe(tk)) <= EnoughPasses(tk)
<1> DEFINE n == Len(tk)
<1>1. n \in Nat /\ BlockIds(tk) = 0..(n - 1)
  BY DEF BlockIds
<1> HIDE DEF n
<1>2. IsFiniteSet(0..(n - 1)) /\ Cardinality(0..(n - 1)) = n
  BY <1>1, FS_Interval
<1>3. AuthorizerId \notin 0..(n - 1)
  BY <1>1, AuthorizerAssumption
<1>4. IsFiniteSet(Ids(tk)) /\ Cardinality(Ids(tk)) = n + 1
  BY <1>1, <1>2, <1>3, FS_AddElement DEF Ids
<1>5. IsFiniteSet(SUBSET Ids(tk)) /\ Cardinality(SUBSET Ids(tk)) = 2 ^ (n + 1)
  BY <1>4, FS_SUBSET
<1> DEFINE pairs == Facts \X SUBSET Ids(tk)
<1>6. IsFiniteSet(pairs) /\ Cardinality(pairs) = EnoughPasses(tk)
  BY <1>5, FactsAssumption, FS_Product DEF EnoughPasses, n
<1> DEFINE entry == [p \in pairs |-> [origin |-> p[2], fact |-> p[1]]]
<1>7. entry \in Surjection(pairs, Universe(tk))
  <2>1. entry \in [pairs -> Universe(tk)]
    BY DEF Universe
  <2>2. ASSUME NEW e \in Universe(tk)
        PROVE  \E p \in pairs : entry[p] = e
    <3>1. <<e.fact, e.origin>> \in pairs /\ entry[<<e.fact, e.origin>>] = e
      BY DEF Universe
    <3> QED BY <3>1
  <2> HIDE DEF entry, pairs
  <2> QED BY <2>1, <2>2 DEF Surjection
<1> HIDE DEF entry, pairs
<1>8. IsFiniteSet(Universe(tk)) /\ Cardinality(Universe(tk)) <= Cardinality(pairs)
  BY <1>6, <1>7, FS_Surjection
<1> QED BY <1>6, <1>8, FS_CardinalityType

\* Rules of these blocks conclude entries of these blocks.
LEMMA UniverseClosed ==
    ASSUME NEW tk, NEW rs \in SUBSET RulesOfToken(tk)
    PROVE  Derived(rs, Universe(tk)) \subseteq Universe(tk)
<1> SUFFICES ASSUME NEW r \in rs, NEW e \in Conclusions(r, Universe(tk))
             PROVE  e \in Universe(tk)
  BY DEF Derived
<1>1. PICK ground \in r.instances : \E m \in Matches(ground, Visible(Universe(tk), r.trust)) :
         e = [origin |-> MatchOrigin(m, r.origin), fact |-> ground.head]
  BY ConclusionsMember
<1>2. PICK m \in Matches(ground, Visible(Universe(tk), r.trust)) :
         e = [origin |-> MatchOrigin(m, r.origin), fact |-> ground.head]
  BY <1>1
<1>3. \A i \in DOMAIN m : m[i].origin \subseteq Ids(tk)
  BY DEF Matches, Visible, Universe
<1>4. MatchOrigin(m, r.origin) \subseteq Ids(tk)
  BY <1>3, MatchOriginWithin DEF RulesOfToken
<1>5. ground.head \in Facts
  BY DEF RulesOfToken, WorldRule, Ground
<1> QED BY <1>2, <1>4, <1>5 DEF Universe

\* One of the passes that the definition makes finds nothing new.
LEMMA PassesSuffice ==
    ASSUME NEW tk \in Seq(Block), NEW rs \in SUBSET RulesOfToken(tk),
           NEW loaded \in SUBSET Universe(tk)
    PROVE  \E n \in 0..EnoughPasses(tk) :
              Derived(rs, Passes(rs, loaded)[n]) \subseteq Passes(rs, loaded)[n]
<1> DEFINE F == Passes(rs, loaded)
           N == EnoughPasses(tk)
<1> SUFFICES ASSUME \A n \in 0..N : ~(Derived(rs, F[n]) \subseteq F[n])
             PROVE  FALSE
  OBVIOUS
<1>1. \A n \in Nat : F[n] \subseteq Universe(tk)
  BY UniverseClosed, PassesWithin
<1>2. F[0] = loaded /\ \A n \in Nat : F[n + 1] = F[n] \cup Derived(rs, F[n])
  BY PassesAre DEF Pass
<1>3. N \in Nat /\ IsFiniteSet(Universe(tk)) /\ Cardinality(Universe(tk)) <= N
  BY UniverseSize
<1> HIDE DEF F, N
<1>4. \A n \in Nat : IsFiniteSet(F[n]) /\ Cardinality(F[n]) \in Nat
                      /\ Cardinality(F[n]) <= Cardinality(Universe(tk))
  BY <1>1, <1>3, FS_Subset, FS_CardinalityType
<1> DEFINE T == {n \in Nat : n <= N + 1 => n <= Cardinality(F[n])}
<1>5. 0 \in T
  BY <1>4
<1>6. ASSUME NEW n \in Nat, n \in T
      PROVE  n + 1 \in T
  <2> SUFFICES ASSUME n <= N
               PROVE  n + 1 <= Cardinality(F[n + 1])
    BY <1>3
  <2>1. F[n] \subseteq F[n + 1] /\ F[n] # F[n + 1]
    <3>1. F[n + 1] = F[n] \cup Derived(rs, F[n])
      BY <1>2
    <3>2. n \in 0..N
      BY <1>3
    <3>3. ~(Derived(rs, F[n]) \subseteq F[n])
      BY <3>2
    <3> QED BY <3>1, <3>3
  <2>2. n + 1 \in Nat /\ IsFiniteSet(F[n + 1]) /\ F[n] \in SUBSET F[n + 1]
    <3>1. n + 1 \in Nat
      OBVIOUS
    <3> QED BY <1>4, <2>1, <3>1
  <2>3. Cardinality(F[n]) < Cardinality(F[n + 1])
    <3>1. /\ Cardinality(F[n]) <= Cardinality(F[n + 1])
          /\ Cardinality(F[n]) = Cardinality(F[n + 1]) => F[n] = F[n + 1]
      BY <2>2, FS_Subset
    <3>2. Cardinality(F[n]) \in Nat /\ Cardinality(F[n + 1]) \in Nat
      BY <1>4, <2>2
    <3> QED BY <2>1, <3>1, <3>2
  <2>4. n <= Cardinality(F[n])
    BY <1>3, <1>6
  <2>5. Cardinality(F[n]) \in Nat /\ Cardinality(F[n + 1]) \in Nat
    BY <1>4, <2>2
  <2> QED BY <2>3, <2>4, <2>5
<1> HIDE DEF T
<1>7. Nat \subseteq T
  BY <1>5, <1>6, NumberInduction
<1>8. N + 1 <= Cardinality(F[N + 1])
  BY <1>3, <1>7 DEF T
<1>9. Cardinality(F[N + 1]) \in Nat /\ Cardinality(F[N + 1]) <= Cardinality(Universe(tk))
  BY <1>3, <1>4
<1> QED BY <1>3, <1>8, <1>9, FS_CardinalityType

-----------------------------------------------------------------------------
\* The reference model has the loaded facts and all that the rules yield, and is
\* within every set that does.
THEOREM ModelIsLeast ==
    ASSUME NEW tk \in Seq(Block), NEW rs \in SUBSET RulesOfToken(tk),
           NEW loaded \in SUBSET Universe(tk)
    PROVE  /\ loaded \subseteq LeastModel(tk, rs, loaded)
           /\ LeastModel(tk, rs, loaded) \subseteq Universe(tk)
           /\ Derived(rs, LeastModel(tk, rs, loaded)) \subseteq LeastModel(tk, rs, loaded)
           /\ \A closed : loaded \subseteq closed /\ Derived(rs, closed) \subseteq closed
                 => LeastModel(tk, rs, loaded) \subseteq closed
<1> DEFINE F == Passes(rs, loaded)
           enough == CHOOSE n \in 0..EnoughPasses(tk) : Derived(rs, F[n]) \subseteq F[n]
<1>1. enough \in 0..EnoughPasses(tk) /\ Derived(rs, F[enough]) \subseteq F[enough]
  BY PassesSuffice
<1>2. LeastModel(tk, rs, loaded) = F[enough]
  BY DEF LeastModel
<1>3. enough \in Nat
  BY <1>1, UniverseSize
<1> HIDE DEF F, enough
<1>4. loaded \subseteq F[enough]
  BY <1>3, PassesGrow DEF F
<1>5. ASSUME NEW closed, loaded \subseteq closed, Derived(rs, closed) \subseteq closed
      PROVE  F[enough] \subseteq closed
  BY <1>3, <1>5, PassesWithin DEF F
<1>6. Derived(rs, Universe(tk)) \subseteq Universe(tk)
  BY UniverseClosed
<1> QED BY <1>1, <1>2, <1>4, <1>5, <1>6

-----------------------------------------------------------------------------
(* Building.                                                                   *)

LEMMA KeyBlocksType ==
    ASSUME NEW tk
    PROVE  KeyBlocks(tk) \in [Keys -> SUBSET Nat]
<1>1. \A k \in Keys : {i \in 1..(Len(tk) - 1) : tk[i + 1].key = k} \subseteq Nat
  OBVIOUS
<1> QED BY <1>1 DEF KeyBlocks

LEMMA BlockAt ==
    ASSUME NEW tk \in Tokens, NEW i \in BlockIds(tk)
    PROVE  i \in OriginIds /\ tk[i + 1] \in Block
<1>1. tk \in Seq(Block)
  BY ProgramAssumption
<1>2. Len(tk) \in Nat /\ i \in Nat /\ i + 1 \in 1..Len(tk)
  BY <1>1 DEF BlockIds
<1> QED BY <1>1, <1>2 DEF OriginIds

\* What an owner trusts by default is a set of origins.
LEMMA TrustType ==
    ASSUME NEW tk \in Tokens, NEW c \in Contents
    PROVE  /\ \A i \in BlockIds(tk) : BlockTrust(tk, i) \in SUBSET OriginIds
           /\ ContentTrust(tk, c) \in SUBSET OriginIds
<1>1. DefaultOrigins \in SUBSET OriginIds /\ AuthorizerId \in OriginIds
  BY DEF DefaultOrigins, OriginIds
<1>2. ASSUME NEW i \in BlockIds(tk)
      PROVE  BlockTrust(tk, i) \in SUBSET OriginIds
  <2>1. i \in OriginIds /\ tk[i + 1].scopes \in SUBSET Scope
    BY BlockAt DEF Block
  <2> QED BY <1>1, <2>1, KeyBlocksType, FromScopesType DEF BlockTrust
<1>3. c.scopes \in SUBSET Scope
  BY ProgramAssumption DEF Content
<1>4. ContentTrust(tk, c) \in SUBSET OriginIds
  BY <1>1, <1>3, KeyBlocksType, FromScopesType DEF ContentTrust
<1> QED BY <1>2, <1>4

\* load_and_translate_block and build_inner load rules with trusted origins.
LEMMA LoadRuleType ==
    ASSUME NEW tk, NEW r \in Rule, NEW default \in SUBSET OriginIds,
           NEW owner \in OriginIds
    PROVE  LoadRule(tk, r, default, owner) \in WorldRule
<1>1. RuleTrust(tk, r, default, owner) \in SUBSET OriginIds
  BY KeyBlocksType, FromScopesType DEF RuleTrust, Rule
<1> QED BY <1>1 DEF LoadRule, WorldRule, Rule

LEMMA LoadedRulesType ==
    ASSUME NEW tk \in Tokens, NEW c \in Contents
    PROVE  LoadedRules(tk, c) \subseteq WorldRule
<1>1. ASSUME NEW i \in BlockIds(tk), NEW r \in tk[i + 1].rules
      PROVE  LoadRule(tk, r, BlockTrust(tk, i), i) \in WorldRule
  <2>1. i \in OriginIds /\ r \in Rule
    BY BlockAt DEF Block
  <2>2. BlockTrust(tk, i) \in SUBSET OriginIds
    BY TrustType
  <2> QED BY <2>1, <2>2, LoadRuleType
<1>2. ASSUME NEW r \in c.rules
      PROVE  LoadRule(tk, r, ContentTrust(tk, c), AuthorizerId) \in WorldRule
  <2>1. r \in Rule /\ AuthorizerId \in OriginIds
    BY ProgramAssumption DEF Content, OriginIds
  <2>2. ContentTrust(tk, c) \in SUBSET OriginIds
    BY TrustType
  <2> QED BY <2>1, <2>2, LoadRuleType
<1> QED BY <1>1, <1>2 DEF LoadedRules

LEMMA LoadedFactsType ==
    ASSUME NEW tk \in Tokens, NEW c \in Contents
    PROVE  LoadedFacts(tk, c) \subseteq Entry
<1>1. ASSUME NEW i \in BlockIds(tk)
      PROVE  [origin: {{i}}, fact: tk[i + 1].facts] \subseteq Entry
  BY BlockAt DEF Block, Entry
<1>2. [origin: {{AuthorizerId}}, fact: c.facts] \subseteq Entry
  BY ProgramAssumption DEF Content, Entry, OriginIds
<1> QED BY <1>1, <1>2 DEF LoadedFacts

-----------------------------------------------------------------------------
(* Types.                                                                      *)

\* Clock readings stay within the cap.
LEMMA ClockType ==
    ASSUME NEW s \in 0..TimeCap, NEW t \in 0..TimeCap
    PROVE  Later(t) \subseteq 0..TimeCap /\ PlusTime(s, t) \in 0..TimeCap
BY TimeCapAssumption DEF Later, PlusTime

\* The limits a program sets have their types.
LEMMA LimitsType ==
    ASSUME NEW l \in LimitChoices
    PROVE  l.max_time \in 0..TimeCap /\ l.max_iterations \in Nat
BY ProgramAssumption DEF RunLimits

\* The results that carry no facts.
LEMMA StatusType ==
    ASSUME NEW s \in Statuses
    PROVE  Status(s) \in Result
BY DEF Status, NoResult, Result

\* The results that carry a decision.
LEMMA DecisionType ==
    ASSUME NEW s \in Statuses, NEW p \in Nat, NEW f \in SUBSET (OriginIds \X Nat)
    PROVE  [Status(s) EXCEPT !.policy = p, !.failed = f] \in Result
BY DEF Status, NoResult, Result

LEMMA InitType == Init => TypeOK
<1> SUFFICES ASSUME Init PROVE TypeOK
  OBVIOUS
<1> USE DEF Init
<1>1. rules \subseteq WorldRule /\ facts \subseteq Entry
  BY LoadedRulesType, LoadedFactsType
<1>2. call \in Call
  BY ProgramAssumption DEF Call, Ops
<1>3. position \in Position
  BY DEF FirstPosition, At, Position
<1>4. result \in Result
  BY DEF NoResult, Statuses, Result
<1> QED BY <1>1, <1>2, <1>3, <1>4, TimeCapAssumption DEF TypeOK

\* The steps of a run keep the types: facts are entries, counters grow.
LEMMA RunStepType ==
    TypeOK /\ (StartCall \/ RunFails \/ RunCompletes \/ RunIterates) => TypeOK'
<1> SUFFICES ASSUME TypeOK, StartCall \/ RunFails \/ RunCompletes \/ RunIterates
             PROVE  TypeOK'
  OBVIOUS
<1> USE DEF TypeOK, built, world, inner
<1>1. CASE StartCall
  <2>1. result' \in Result
    BY <1>1 DEF StartCall, NoResult, Statuses, Result
  <2> QED BY <1>1, <2>1, TimeCapAssumption DEF StartCall
<1>2. CASE RunFails
  BY <1>2, StatusType DEF RunFails, Return, Statuses
<1>3. CASE RunCompletes
  <2>1. elapsed' \in 0..TimeCap
    BY <1>3, ClockType DEF RunCompletes
  <2>2. executionTime' # None
    BY <1>3, <2>1, NoneAssumption DEF RunCompletes
  <2> QED BY <1>3, <2>1, <2>2 DEF RunCompletes
<1>4. CASE RunIterates
  <2>1. elapsed' \in 0..TimeCap
    BY <1>4, ClockType DEF RunIterates
  <2>2. facts' \subseteq Entry
    BY <1>4, DerivedType DEF RunIterates
  <2>3. \A i, n, t : LimitHit(i, n, t) \in Statuses
    BY DEF LimitHit, Statuses
  <2>4. index' \in Nat
    BY <1>4 DEF RunIterates
  <2> DEFINE hit == LimitHit(index', Cardinality(facts'), elapsed')
  <2>5. \/ UNCHANGED <<iterations, pc, result>>
        \/ iterations' = iterations + index' /\ Return(Status(hit))
    BY <1>4 DEF RunIterates
  <2>6. iterations' \in Nat /\ pc' \in {pc, "idle"}
        /\ result' \in Result
    <3> HIDE DEF hit
    <3>1. hit \in Statuses
      BY <2>3 DEF hit
    <3> QED BY <2>4, <2>5, <3>1, StatusType DEF Return
  <2> QED BY <1>4, <2>1, <2>2, <2>4, <2>6 DEF RunIterates
<1> QED BY <1>1, <1>2, <1>3, <1>4

\* So do the steps between the run and the phase that uses its facts.
LEMMA PhaseStepType ==
    TypeOK /\ (RunReturns \/ SubtractionPanics \/ NoTimeLeft \/ StartPhase)
        => TypeOK'
<1> SUFFICES ASSUME TypeOK,
                    RunReturns \/ SubtractionPanics \/ NoTimeLeft \/ StartPhase
             PROVE  TypeOK'
  OBVIOUS
<1> USE DEF TypeOK, built, world, inner
<1>1. CASE RunReturns
  BY <1>1, StatusType DEF RunReturns, Return, Statuses
<1>2. CASE SubtractionPanics
  BY <1>2, StatusType DEF SubtractionPanics, Return, Statuses
<1>3. CASE NoTimeLeft
  BY <1>3, StatusType DEF NoTimeLeft, Return, Statuses
<1>4. CASE StartPhase
  <2>1. budget' \in 0..TimeCap
    <3>1. CASE InheritsLimits
      <4>1. executionTime \in 0..TimeCap /\ executionTime < limits.max_time
        BY <1>4, <3>1 DEF StartPhase
      <4> QED BY <1>4, <3>1, <4>1, LimitsType, TimeCapAssumption DEF StartPhase
    <3>2. CASE ~InheritsLimits
      <4>1. call.override \in LimitChoices
        BY <1>4, <3>2 DEF StartPhase, InheritsLimits, Call
      <4> QED BY <1>4, <3>2, <4>1, LimitsType DEF StartPhase
    <3> QED BY <3>1, <3>2
  <2>2. position' \in Position
    BY <1>4 DEF StartPhase, FirstPosition, At, Position
  <2>3. pc' \in {"deciding", "querying"} /\ executionTime' # None
    BY <1>4 DEF StartPhase
  <2> QED BY <1>4, <2>1, <2>2, <2>3, TimeCapAssumption DEF StartPhase
<1> QED BY <1>1, <1>2, <1>3, <1>4

\* The owner of a stage of authorize_inner is a block or the authorizer.
LEMMA StageOwnerType ==
    ASSUME NEW stage \in Nat
    PROVE  StageOwner(stage) \in OriginIds
BY DEF StageOwner, PolicyStage, OriginIds

\* The steps of authorize_inner keep the types.
LEMMA DecisionStepType ==
    TypeOK /\ (EvaluateQuery \/ ItemExhausted \/ StageExhausted \/ Decide)
        => TypeOK'
<1> SUFFICES ASSUME TypeOK,
                    EvaluateQuery \/ ItemExhausted \/ StageExhausted \/ Decide
             PROVE  TypeOK'
  OBVIOUS
<1> USE DEF TypeOK, built, world, inner
<1>1. NextQuery \in Position /\ NextItem \in Position /\ NextStage \in Position
  BY DEF NextQuery, NextItem, NextStage, At, Position
<1>2. CASE EvaluateQuery
  <2>1. elapsed' \in 0..TimeCap /\ executionTime \in 0..TimeCap
    BY <1>2, ClockType DEF EvaluateQuery
  <2>2. PlusTime(executionTime, elapsed') \in 0..TimeCap
    BY <2>1, ClockType
  <2>3. PlusTime(executionTime, elapsed') # None
    BY <2>2, NoneAssumption
  <2>4. \A s \in {"expression", "timeout"} : Status(s) \in Result
    BY StatusType DEF Statuses
  <2>5. /\ pc' \in {pc, "idle"}
        /\ result' \in Result
        /\ executionTime' \in 0..TimeCap /\ executionTime' # None
        /\ position' \in {position, NextQuery, NextItem, NextStage}
        /\ policy' \in {policy, position.item}
    BY <1>2, <2>1, <2>2, <2>3, <2>4, Zenon DEF EvaluateQuery, Finish, Return
  <2>6. position' \in Position /\ policy' \in Nat
    BY <1>1, <2>5 DEF Position
  <2>7. UNCHANGED <<built, world, call, index, budget, failed>>
    BY <1>2 DEF EvaluateQuery
  <2> QED BY <2>1, <2>5, <2>6, <2>7
<1>3. CASE ItemExhausted
  <2>1. failed' \subseteq OriginIds \X Nat
    <3>1. position.stage \in Nat /\ position.item \in Nat
      BY DEF Position
    <3>2. <<StageOwner(position.stage), position.item>> \in OriginIds \X Nat
      BY <3>1, StageOwnerType
    <3> QED BY <1>3, <3>2 DEF ItemExhausted
  <2> QED BY <1>1, <1>3, <2>1 DEF ItemExhausted
<1>4. CASE StageExhausted
  BY <1>1, <1>4 DEF StageExhausted
<1>5. CASE Decide
  <2>1. elapsed' \in 0..TimeCap /\ executionTime \in 0..TimeCap
    BY <1>5, ClockType DEF Decide
  <2>2. PlusTime(executionTime, elapsed') \in 0..TimeCap
    BY <2>1, ClockType
  <2>3. DecisionStatus \in Statuses
    BY DEF DecisionStatus, Statuses
  <2>4. [Status(DecisionStatus) EXCEPT !.policy = policy, !.failed = failed]
           \in Result
    BY <2>3, DecisionType
  <2> QED BY <1>5, <2>1, <2>2, <2>4, NoneAssumption DEF Decide, Finish, Return
<1> QED BY <1>2, <1>3, <1>4, <1>5

\* A query is a rule that concludes entries from the facts it may see.
LEMMA QueryRuleType == TypeOK => QueryRule \in WorldRule
<1> SUFFICES ASSUME TypeOK PROVE QueryRule \in WorldRule
  OBVIOUS
<1>1. call.query \in Rule
  BY ProgramAssumption DEF TypeOK, Call
<1>2. DefaultOrigins \in SUBSET OriginIds /\ AuthorizerId \in OriginIds
  BY DEF DefaultOrigins, OriginIds
<1>3. TokenOrigins(token) \in SUBSET OriginIds
  <2>1. Len(token) \in OriginIds
    BY ProgramAssumption DEF TypeOK, OriginIds
  <2>2. {[kind |-> "previous", key |-> NoKey]} \in SUBSET Scope
    BY DEF Scope
  <2> QED BY <1>2, <2>1, <2>2, KeyBlocksType, FromScopesType DEF TokenOrigins
<1>4. RuleTrust(token, call.query, DefaultOrigins, AuthorizerId)
         \in SUBSET OriginIds
  BY <1>1, <1>2, KeyBlocksType, FromScopesType DEF RuleTrust, Rule
<1>5. QueryTrust \in SUBSET OriginIds
  BY <1>3, <1>4 DEF QueryTrust
<1>6. QueryOwner \in OriginIds
  BY <1>2 DEF QueryOwner, OriginIds
<1> QED BY <1>1, <1>5, <1>6 DEF QueryRule, WorldRule, Rule

LEMMA QueryStepType == TypeOK /\ RunQuery => TypeOK'
<1> SUFFICES ASSUME TypeOK, RunQuery PROVE TypeOK'
  OBVIOUS
<1>1. elapsed' \in 0..TimeCap /\ executionTime \in 0..TimeCap
  BY ClockType DEF RunQuery, TypeOK
<1>2. PlusTime(executionTime, elapsed') \in 0..TimeCap
  BY <1>1, ClockType
<1>3. Conclusions(QueryRule, facts) \subseteq Entry
  BY QueryRuleType, ConclusionsType DEF TypeOK
<1>4. Answer \in Result
  <2>1. {e.fact : e \in Conclusions(QueryRule, facts)} \subseteq Facts
    BY <1>3 DEF Entry
  <2>2. Status("facts") \in Result /\ Status("unexpected_result") \in Result
    BY StatusType DEF Statuses
  <2>3. \A v \in SUBSET Facts :
           [Status("facts") EXCEPT !.values = v] \in Result
    BY <2>2 DEF Result
  <2> QED BY <2>1, <2>2, <2>3 DEF Answer
<1>5. Status("expression") \in Result
  BY StatusType DEF Statuses
<1> QED BY <1>1, <1>2, <1>4, <1>5, NoneAssumption
        DEF RunQuery, Finish, Return, TypeOK, built, world, inner

LEMMA NextType == TypeOK /\ [Next]_vars => TypeOK'
<1> SUFFICES ASSUME TypeOK, [Next]_vars PROVE TypeOK'
  OBVIOUS
<1>1. CASE Next
  BY <1>1, RunStepType, PhaseStepType, DecisionStepType, QueryStepType
     DEF Next, LibraryStep
<1>2. CASE UNCHANGED vars
  BY <1>2 DEF vars, built, world, inner, TypeOK
<1> QED BY <1>1, <1>2

\* Every reachable state of an authorizer has the types of its declarations.
THEOREM TypeCorrect == Spec => []TypeOK
BY InitType, NextType, PTL DEF Spec

-----------------------------------------------------------------------------
(* Decisions and answers are taken on complete facts.                          *)

\* What keeps CompleteWhenRecorded inductive: facts are only added while no
\* completed run is recorded, because run() then returns at once.
Recorded ==
    /\ TypeOK
    /\ CompleteWhenRecorded
    /\ pc = "running" => executionTime = None

\* Only a run changes the facts, and what was loaded never changes.
LEMMA FactsChange ==
    [Next]_vars => UNCHANGED built /\ (facts' = facts \/ RunIterates)
<1> SUFFICES ASSUME [Next]_vars
             PROVE  UNCHANGED built /\ (facts' = facts \/ RunIterates)
  OBVIOUS
<1> USE DEF built, world, vars
<1>1. CASE StartCall \/ RunFails \/ RunCompletes \/ RunIterates
  BY <1>1 DEF StartCall, RunFails, RunCompletes, RunIterates
<1>2. CASE RunReturns \/ SubtractionPanics \/ NoTimeLeft \/ StartPhase
  BY <1>2 DEF RunReturns, SubtractionPanics, NoTimeLeft, StartPhase
<1>3. CASE EvaluateQuery \/ ItemExhausted \/ StageExhausted \/ Decide \/ RunQuery
  BY <1>3 DEF EvaluateQuery, ItemExhausted, StageExhausted, Decide, RunQuery
<1> QED BY <1>1, <1>2, <1>3 DEF Next, LibraryStep

\* A time is recorded by the pass that finds nothing new, and never forgotten;
\* afterwards no call goes back to applying rules.
LEMMA RecordingStep ==
    Recorded /\ [Next]_vars =>
        /\ executionTime' # None => executionTime # None \/ RunCompletes
        /\ executionTime # None => executionTime' # None /\ ~RunIterates
        /\ pc' = "running" => executionTime' = None
<1> SUFFICES ASSUME Recorded, [Next]_vars
             PROVE  /\ executionTime' # None => executionTime # None \/ RunCompletes
                    /\ executionTime # None => executionTime' # None /\ ~RunIterates
                    /\ pc' = "running" => executionTime' = None
  OBVIOUS
<1> USE DEF Recorded
<1>0. TypeOK'
  BY NextType
<1>1. CASE StartCall
  <2>1. pc = "idle" /\ executionTime' = executionTime
        /\ (pc' = "running" => executionTime = None)
    BY <1>1 DEF StartCall
  <2> QED BY <2>1 DEF RunIterates
<1>2. CASE RunFails \/ RunCompletes \/ RunIterates
  BY <1>0, <1>2 DEF RunFails, RunCompletes, RunIterates, Return, TypeOK
<1>3. CASE RunReturns \/ SubtractionPanics \/ NoTimeLeft \/ StartPhase
  <2>1. pc = "ran" /\ pc' # "running" /\ executionTime' = executionTime
    BY <1>3 DEF RunReturns, SubtractionPanics, NoTimeLeft, StartPhase, Return
  <2> QED BY <2>1 DEF RunIterates
<1>4. CASE EvaluateQuery \/ ItemExhausted \/ StageExhausted \/ Decide \/ RunQuery
  <2>1. pc \in {"deciding", "querying"} /\ executionTime # None
    BY <1>4 DEF EvaluateQuery, ItemExhausted, StageExhausted, Decide, RunQuery,
                TypeOK
  <2>2. pc' \in {pc, "idle"}
    BY <1>4 DEF EvaluateQuery, ItemExhausted, StageExhausted, Decide, RunQuery,
                Finish, Return
  <2>3. executionTime' \in {executionTime, PlusTime(executionTime, elapsed')}
    BY <1>4 DEF EvaluateQuery, ItemExhausted, StageExhausted, Decide, RunQuery,
                Finish
  <2>4. PlusTime(executionTime, elapsed') # None
    BY <1>0, <2>1, ClockType, NoneAssumption DEF TypeOK
  <2> QED BY <2>1, <2>2, <2>3, <2>4 DEF RunIterates
<1>5. CASE UNCHANGED vars
  BY <1>5 DEF vars, RunIterates
<1> QED BY <1>1, <1>2, <1>3, <1>4, <1>5 DEF Next, LibraryStep

LEMMA RecordedStep == Recorded /\ [Next]_vars => Recorded'
<1> SUFFICES ASSUME Recorded, [Next]_vars, TypeOK' PROVE Recorded'
  BY NextType DEF Recorded
<1>1. pc' = "running" => executionTime' = None
  BY RecordingStep
<1>2. CASE executionTime' = None
  BY <1>1, <1>2 DEF Recorded, CompleteWhenRecorded
<1>3. CASE executionTime' # None /\ RunCompletes
  <2>1. NewFacts = {} /\ ~AnyFails(rules, facts)
    BY <1>3 DEF RunCompletes
  <2>2. rules' = rules /\ facts' = facts
    BY <1>3 DEF RunCompletes, built
  <2> QED BY <1>1, <2>1, <2>2 DEF Recorded, CompleteWhenRecorded, NewFacts
<1>4. CASE executionTime' # None /\ executionTime # None
  <2>1. NewFacts = {} /\ ~AnyFails(rules, facts)
    BY <1>4 DEF Recorded, CompleteWhenRecorded
  <2>2. rules' = rules /\ facts' = facts
    BY <1>4, RecordingStep, FactsChange DEF built
  <2> QED BY <1>1, <2>1, <2>2 DEF Recorded, CompleteWhenRecorded, NewFacts
<1> QED BY <1>2, <1>3, <1>4, RecordingStep

LEMMA RecordedInvariant == Spec => []Recorded
<1>1. Init => Recorded
  BY InitType DEF Init, Recorded, CompleteWhenRecorded
<1> QED BY <1>1, RecordedStep, PTL DEF Spec

\* Whenever an execution time is recorded, no rule adds a fact and none fails:
\* checks, policies and queries never see the facts of an unfinished run.
THEOREM Completeness == Spec => []CompleteWhenRecorded
BY RecordedInvariant, PTL DEF Recorded

-----------------------------------------------------------------------------
(* Isolation: the authorizer implements separately evaluated coalitions.       *)

\* The coalitions are typed and evaluated with the same definitions.
LEMMA SameTypes == Separate!WorldRule = WorldRule /\ Separate!Entry = Entry
BY DEF Separate!WorldRule, Separate!Entry, Separate!OriginIds, Separate!Ground,
       Separate!Guard, WorldRule, Entry, OriginIds, Ground, Guard

LEMMA SameDerived ==
    ASSUME NEW rs, NEW entries
    PROVE  Separate!Derived(rs, entries) = Derived(rs, entries)
BY DEF Separate!Derived, Separate!Conclusions, Separate!MatchOrigin,
       Separate!Matches, Separate!Visible, Separate!Trusts,
       Derived, Conclusions, MatchOrigin, Matches, Visible, Trusts

LEMMA IsolationInit == Init => Separate!Init
<1> SUFFICES ASSUME Init PROVE Separate!Init
  OBVIOUS
<1>1. rules \subseteq WorldRule /\ facts \subseteq Entry
  BY InitType DEF TypeOK
<1>2. View \in [Groups -> SUBSET Entry]
  BY <1>1 DEF View
<1>3. ASSUME NEW g \in Groups
      PROVE  Separate!Seen(View[g], g) = View[g]
  BY DEF View, Separate!Seen
<1>4. ASSUME NEW g \in Groups, NEW h \in Groups
      PROVE  Separate!Seen(View[g], h) = Separate!Seen(View[h], g)
  BY DEF View, Separate!Seen
<1> QED BY <1>1, <1>2, <1>3, <1>4, SameTypes DEF Separate!Init

LEMMA IsolationStep == [Next]_vars => [Separate!Pass]_(Separate!vars)
<1> SUFFICES ASSUME [Next]_vars PROVE [Separate!Pass]_(Separate!vars)
  OBVIOUS
<1>1. rules' = rules
  BY FactsChange DEF built
<1>2. CASE facts' = facts
  BY <1>1, <1>2 DEF View, Separate!vars
<1>3. CASE RunIterates
  <2>1. facts' = facts \cup Derived(rules, facts)
    BY <1>3 DEF RunIterates
  <2>2. ASSUME NEW g \in Groups
        PROVE  {e \in facts' : e.origin \subseteq g}
                  = View[g] \cup Separate!Derived(Separate!RulesOf(rules, g), View[g])
    <3>1. {e \in Derived(rules, facts) : e.origin \subseteq g}
             = Derived({r \in rules : r.origin \in g},
                       {e \in facts : e.origin \subseteq g})
      BY DerivedWithin
    <3>2. View[g] = {e \in facts : e.origin \subseteq g}
      BY DEF View
    <3> QED BY <2>1, <3>1, <3>2, SameDerived DEF Separate!RulesOf
  <2>3. View' = [g \in Groups |->
                   View[g] \cup Separate!Derived(Separate!RulesOf(rules, g), View[g])]
    BY <2>2 DEF View
  <2> QED BY <1>1, <2>3 DEF Separate!Pass
<1> QED BY <1>2, <1>3, FactsChange

\* No block influences what a coalition it is not part of sees, in any state of
\* any sequence of calls, for every token, authorizer and choice of coalitions.
THEOREM Isolation == Spec => CoalitionsAreIsolated
BY IsolationInit, IsolationStep, PTL DEF Spec, CoalitionsAreIsolated, Separate!Spec

-----------------------------------------------------------------------------
(* What a step may not do.                                                     *)

\* The time of a later phase is added to the recorded one, up to the cap.
LEMMA TimeAdds ==
    ASSUME NEW s \in 0..TimeCap, NEW t \in 0..TimeCap
    PROVE  s <= PlusTime(s, t)
BY TimeCapAssumption DEF PlusTime

\* No call loses a fact, an iteration or a recorded time, whether it succeeds,
\* fails or is stopped by a limit.
THEOREM Growth == Spec => WorldGrows
<1> DEFINE Grows == /\ facts \subseteq facts'
                    /\ iterations <= iterations'
                    /\ executionTime # None =>
                          executionTime' # None /\ executionTime <= executionTime'
<1>1. Recorded /\ Recorded' /\ [Next]_vars => [Grows]_vars
  <2> SUFFICES ASSUME Recorded, Recorded', [Next]_vars PROVE Grows
    OBVIOUS
  <2>1. facts \subseteq facts'
    BY FactsChange DEF RunIterates
  <2>2. iterations <= iterations'
    <3>1. iterations \in Nat /\ index \in Nat /\ index' \in Nat
      BY DEF Recorded, TypeOK
    <3>2. CASE RunCompletes
      BY <3>1, <3>2 DEF RunCompletes
    <3>3. CASE RunIterates
      <4>1. iterations' = iterations \/ iterations' = iterations + index'
        BY <3>3 DEF RunIterates
      <4> QED BY <3>1, <4>1
    <3>4. CASE StartCall \/ RunFails \/ RunReturns \/ SubtractionPanics
               \/ NoTimeLeft \/ StartPhase
      <4>1. iterations' = iterations
        BY <3>4 DEF StartCall, RunFails, RunReturns, SubtractionPanics,
                    NoTimeLeft, StartPhase, world
      <4> QED BY <3>1, <4>1
    <3>5. CASE EvaluateQuery \/ ItemExhausted \/ StageExhausted \/ Decide
               \/ RunQuery
      <4>1. iterations' = iterations
        BY <3>5 DEF EvaluateQuery, ItemExhausted, StageExhausted, Decide,
                    RunQuery, world
      <4> QED BY <3>1, <4>1
    <3>6. CASE UNCHANGED vars
      BY <3>1, <3>6 DEF vars, world
    <3> QED BY <3>2, <3>3, <3>4, <3>5, <3>6 DEF Next, LibraryStep
  <2>3. ASSUME executionTime # None
        PROVE  executionTime' # None /\ executionTime <= executionTime'
    <3>1. executionTime \in 0..TimeCap /\ elapsed' \in 0..TimeCap
      BY <2>3 DEF Recorded, TypeOK
    <3>2. executionTime' # None /\ pc # "running"
      BY <2>3, RecordingStep DEF Recorded
    <3>3. executionTime' = executionTime
          \/ executionTime' = PlusTime(executionTime, elapsed')
      <4>1. CASE StartCall \/ RunReturns \/ SubtractionPanics
                 \/ NoTimeLeft \/ StartPhase
        BY <4>1 DEF StartCall, RunReturns, SubtractionPanics, NoTimeLeft,
                    StartPhase
      <4>2. CASE EvaluateQuery \/ ItemExhausted \/ StageExhausted \/ Decide
                 \/ RunQuery
        BY <4>2 DEF EvaluateQuery, ItemExhausted, StageExhausted, Decide,
                    RunQuery, Finish
      <4>3. CASE UNCHANGED vars
        BY <4>3 DEF vars
      <4>4. ~(RunFails \/ RunCompletes \/ RunIterates)
        BY <3>2 DEF RunFails, RunCompletes, RunIterates
      <4> QED BY <4>1, <4>2, <4>3, <4>4 DEF Next, LibraryStep
    <3>4. executionTime <= executionTime
      BY <3>1, TimeCapAssumption
    <3> QED BY <3>1, <3>2, <3>3, <3>4, TimeAdds
  <2> QED BY <2>1, <2>2, <2>3
<1> QED BY <1>1, RecordedInvariant, PTL DEF Spec, WorldGrows

-----------------------------------------------------------------------------
(* The facts are those of the least model, no more.                            *)

\* What was loaded and is closed under the rules contains every fact there is.
OnlyDerivable ==
    \A closed \in SUBSET Entry :
        LoadedFacts(token, content) \subseteq closed
            /\ Derived(LoadedRules(token, content), closed) \subseteq closed
            => facts \subseteq closed

\* No call adds a fact that the loaded facts and rules do not entail. With
\* Completeness: once a time is recorded, the facts are exactly the least model,
\* whatever limits, failures and retries came before.
THEOREM Soundness == Spec => [](OnlyDerivable /\ (executionTime # None =>
                                 Derived(rules, facts) \subseteq facts))
<1> DEFINE Inv == OnlyDerivable /\ rules = LoadedRules(token, content)
<1>1. Init => Inv
  BY DEF Init, OnlyDerivable
<1>2. Inv /\ [Next]_vars => Inv'
  <2> SUFFICES ASSUME Inv, [Next]_vars PROVE Inv'
    OBVIOUS
  <2>1. token' = token /\ content' = content /\ rules' = rules
    BY FactsChange DEF built
  <2>2. ASSUME NEW closed \in SUBSET Entry,
               LoadedFacts(token, content) \subseteq closed,
               Derived(LoadedRules(token, content), closed) \subseteq closed
        PROVE  facts' \subseteq closed
    <3>1. facts \subseteq closed
      BY <2>2 DEF OnlyDerivable
    <3>2. Derived(rules, facts) \subseteq closed
      BY <2>2, <3>1, DerivedMonotone
    <3>3. facts' = facts \/ facts' = facts \cup Derived(rules, facts)
      BY FactsChange DEF RunIterates
    <3> QED BY <3>1, <3>2, <3>3
  <2> QED BY <2>1, <2>2 DEF OnlyDerivable
<1>3. Recorded => (executionTime # None => Derived(rules, facts) \subseteq facts)
  BY DEF Recorded, CompleteWhenRecorded, NewFacts
<1> QED BY <1>1, <1>2, <1>3, RecordedInvariant, PTL DEF Spec

-----------------------------------------------------------------------------
(* The whole model, and the part of it that a group of blocks sees.            *)

WholeModel(tk, c) == LeastModel(tk, LoadedRules(tk, c), LoadedFacts(tk, c))

\* Facts and rules are loaded under the blocks of the token and the authorizer.
LEMMA LoadedInUniverse ==
    ASSUME NEW tk \in Tokens, NEW c \in Contents
    PROVE  /\ LoadedFacts(tk, c) \subseteq Universe(tk)
           /\ LoadedRules(tk, c) \subseteq RulesOfToken(tk)
<1>1. \A e \in LoadedFacts(tk, c) : e.origin \subseteq Ids(tk)
  BY DEF LoadedFacts, Ids
<1>2. \A r \in LoadedRules(tk, c) : r.origin \in Ids(tk)
  BY DEF LoadedRules, LoadRule, Ids
<1>3. LoadedFacts(tk, c) \subseteq Universe(tk)
  BY <1>1, LoadedFactsType DEF Entry, Universe
<1>4. LoadedRules(tk, c) \subseteq RulesOfToken(tk)
  BY <1>2, LoadedRulesType DEF RulesOfToken
<1> QED BY <1>3, <1>4

\* What a group of blocks sees of the model of the whole token is the model of
\* this group: no other block adds to it or takes from it.
LEMMA ModelOfGroup ==
    ASSUME NEW tk \in Tokens, NEW c \in Contents, NEW group
    PROVE  {e \in WholeModel(tk, c) : e.origin \subseteq group} = ModelOf(tk, c, group)
<1> DEFINE rs == LoadedRules(tk, c)
           loaded == LoadedFacts(tk, c)
           own == {r \in rs : r.origin \in group}
           ownLoaded == {e \in loaded : e.origin \subseteq group}
           M == LeastModel(tk, rs, loaded)
           G == LeastModel(tk, own, ownLoaded)
           seen == {e \in M : e.origin \subseteq group}
           others == {e \in Universe(tk) : ~(e.origin \subseteq group)}
<1>1. tk \in Seq(Block) /\ rs \in SUBSET RulesOfToken(tk) /\ loaded \in SUBSET Universe(tk)
  BY LoadedInUniverse, ProgramAssumption
<1>2. own \in SUBSET RulesOfToken(tk) /\ ownLoaded \in SUBSET Universe(tk)
  BY <1>1
<1>3. /\ loaded \subseteq M /\ M \subseteq Universe(tk) /\ Derived(rs, M) \subseteq M
      /\ \A closed : loaded \subseteq closed /\ Derived(rs, closed) \subseteq closed
            => M \subseteq closed
  <2> HIDE DEF rs, loaded
  <2> QED BY <1>1, ModelIsLeast
<1>4. /\ ownLoaded \subseteq G /\ Derived(own, G) \subseteq G
      /\ \A closed : ownLoaded \subseteq closed /\ Derived(own, closed) \subseteq closed
            => G \subseteq closed
  <2> HIDE DEF own, ownLoaded
  <2> QED BY <1>1, <1>2, ModelIsLeast
<1>5. ModelOf(tk, c, group) = G /\ WholeModel(tk, c) = M
  BY DEF ModelOf, WholeModel
<1> HIDE DEF M, G, rs, loaded
<1>6. G \subseteq seen
  <2>1. ownLoaded \subseteq seen
    BY <1>3
  <2>2. Derived(own, seen) = {e \in Derived(rs, M) : e.origin \subseteq group}
    BY DerivedWithin
  <2>3. Derived(own, seen) \subseteq seen
    BY <1>3, <2>2
  <2> QED BY <1>4, <2>1, <2>3
<1>7. seen \subseteq G
  <2> DEFINE all == G \cup others
  <2>1. loaded \subseteq all
    BY <1>1, <1>4
  <2>2. G = {e \in all : e.origin \subseteq group} /\ all \subseteq Universe(tk)
    BY <1>3, <1>6
  <2>3. {e \in Derived(rs, all) : e.origin \subseteq group} = Derived(own, G)
    <3>1. {e \in Derived(rs, all) : e.origin \subseteq group}
             = Derived(own, {e \in all : e.origin \subseteq group})
      BY DerivedWithin
    <3> QED BY <2>2, <3>1
  <2>4. Derived(rs, all) \subseteq Universe(tk)
    <3>1. Derived(rs, all) \subseteq Derived(rs, Universe(tk))
      BY <2>2, DerivedMonotone
    <3>2. Derived(rs, Universe(tk)) \subseteq Universe(tk)
      BY <1>1, UniverseClosed
    <3> QED BY <3>1, <3>2
  <2>5. Derived(rs, all) \subseteq all
    BY <1>4, <2>3, <2>4
  <2>6. M \subseteq all
    <3> HIDE DEF all
    <3> QED BY <1>3, <2>1, <2>5
  <2> QED BY <2>6
<1> QED BY <1>5, <1>6, <1>7

\* A rule or query sees the model of the blocks it trusts.
LEMMA VisibleModel ==
    ASSUME NEW tk \in Tokens, NEW c \in Contents, NEW trust
    PROVE  Visible(WholeModel(tk, c), trust) = TrustedModel(tk, c, trust)
<1>1. WholeModel(tk, c) \subseteq Universe(tk)
  <2>1. tk \in Seq(Block)
    BY ProgramAssumption
  <2> QED BY <2>1, LoadedInUniverse, ModelIsLeast DEF WholeModel
<1>2. \A e \in WholeModel(tk, c) : e.origin \subseteq Ids(tk)
  BY <1>1 DEF Universe
<1>3. Visible(WholeModel(tk, c), trust)
         = {e \in WholeModel(tk, c) : e.origin \subseteq trust \cap Ids(tk)}
  BY <1>2 DEF Visible, Trusts
<1> QED BY <1>3, ModelOfGroup DEF TrustedModel

\* What is not trusted makes no difference to a query ...
LEMMA OutcomesOfVisible ==
    ASSUME NEW kind, NEW q, NEW trust, NEW entries
    PROVE  QueryOutcomes(kind, q, trust, Visible(entries, trust))
              = QueryOutcomes(kind, q, trust, entries)
<1>1. Visible(Visible(entries, trust), trust) = Visible(entries, trust)
  BY DEF Visible
<1>2. Guards(q, trust, Visible(entries, trust)) = Guards(q, trust, entries)
  BY <1>1 DEF Guards
<1> QED BY <1>2 DEF QueryOutcomes, FindMatch, CheckMatchAll

\* ... nor to what a rule concludes.
LEMMA ConclusionsOfVisible ==
    ASSUME NEW r, NEW entries
    PROVE  Conclusions(r, Visible(entries, r.trust)) = Conclusions(r, entries)
<1>1. Visible(Visible(entries, r.trust), r.trust) = Visible(entries, r.trust)
  BY DEF Visible
<1> QED BY <1>1 DEF Conclusions

\* A query of a check or a policy has, on the whole model, the outcomes it has
\* on the model of the blocks it trusts.
LEMMA OutcomesOfModel ==
    ASSUME NEW tk \in Tokens, NEW c \in Contents, NEW stage, NEW item, NEW q
    PROVE  Outcomes(tk, c, stage, item, q, WholeModel(tk, c))
              = ModelOutcomes(tk, c, stage, item, q)
<1> DEFINE trust == RuleTrust(tk, q, OwnerTrust(tk, c, StageOwner(stage)), StageOwner(stage))
           kind == ItemKind(stage, item)
<1>1. Outcomes(tk, c, stage, item, q, WholeModel(tk, c))
         = QueryOutcomes(kind, q, trust, WholeModel(tk, c))
  BY DEF Outcomes
<1>2. ModelOutcomes(tk, c, stage, item, q)
         = QueryOutcomes(kind, q, trust, TrustedModel(tk, c, trust))
  BY DEF ModelOutcomes
<1> HIDE DEF trust, kind
<1> QED BY <1>1, <1>2, VisibleModel, OutcomesOfVisible

-----------------------------------------------------------------------------
(* The progress of authorize_inner.                                            *)

\* Decisions and answers are taken on the whole model.
Complete ==
    /\ token \in Tokens
    /\ content \in Contents
    /\ pc \in {"deciding", "querying"} => facts = WholeModel(token, content)

\* The items before the current position.
Passed(stage, i) ==
    \/ stage < position.stage
    \/ stage = position.stage /\ i < position.item

\* What is reported of an item of a check stage is what it can do.
Reported(tk, c, reported, stage, i) ==
    IF <<StageOwner(stage), i>> \in reported
    THEN CanMiss(tk, c, stage, StageItems(tk, c, stage)[i])
    ELSE CanHold(tk, c, stage, StageItems(tk, c, stage)[i])

ChecksReported ==
    \A stage \in CheckStages(token) : \A i \in DOMAIN StageItems(token, content, stage) :
        Passed(stage, i) => Reported(token, content, failed, stage, i)

\* Only checks that were evaluated are reported.
OnlyPassedReported ==
    \A f \in failed :
        \E stage \in CheckStages(token) : \E i \in DOMAIN StageItems(token, content, stage) :
            Passed(stage, i) /\ f = <<StageOwner(stage), i>>

PolicyMisses(i) == CanMiss(token, content, PolicyStage, content.policies[i])

\* The policies before the first that matched, or before the position, miss.
FirstPolicy ==
    /\ policy = 0 => \A i \in DOMAIN content.policies : Passed(PolicyStage, i) => PolicyMisses(i)
    /\ policy # 0 =>
          /\ position.stage > PolicyStage
          /\ policy \in DOMAIN content.policies
          /\ CanHold(token, content, PolicyStage, content.policies[policy])
          /\ \A i \in DOMAIN content.policies : i < policy => PolicyMisses(i)

\* The queries of the current item that were evaluated can all miss.
QueriesMissed ==
    position.stage <= LastStage(token) /\ HasItem =>
        \A q \in 1..(position.query - 1) :
            "false" \in ModelOutcomes(token, content, position.stage, Item, Item.queries[q])

Progress ==
    pc = "deciding" =>
        /\ position \in Position /\ position.item >= 1 /\ position.query >= 1
        /\ policy \in Nat
        /\ ChecksReported
        /\ OnlyPassedReported
        /\ FirstPolicy
        /\ QueriesMissed

\* An element of a sequence.
LEMMA ElementOf ==
    ASSUME NEW S, NEW q \in Seq(S), NEW i \in DOMAIN q
    PROVE  q[i] \in S
OBVIOUS

\* A stage has one owner, and an owner has one stage of checks.
LEMMA OwnStage ==
    ASSUME NEW tk \in Seq(Block), NEW s \in CheckStages(tk), NEW t \in CheckStages(tk),
           StageOwner(s) = StageOwner(t)
    PROVE  s = t
<1>1. s \in Nat /\ t \in Nat /\ s # 2 /\ t # 2
  BY DEF CheckStages, LastStage, PolicyStage
<1> QED BY <1>1, AuthorizerAssumption DEF StageOwner, PolicyStage

\* The items of the stages are checks, and policies.
LEMMA ItemsType ==
    ASSUME NEW tk \in Tokens, NEW c \in Contents
    PROVE  /\ LastStage(tk) \in Nat /\ LastStage(tk) >= PolicyStage
           /\ \A stage \in CheckStages(tk) : StageItems(tk, c, stage) \in Seq(Check)
           /\ StageItems(tk, c, PolicyStage) = c.policies
           /\ c.policies \in Seq(Policy)
<1>1. tk \in Seq(Block) /\ Len(tk) \in Nat /\ c \in Content
  BY ProgramAssumption
<1>2. ASSUME NEW stage \in CheckStages(tk)
      PROVE  StageItems(tk, c, stage) \in Seq(Check)
  <2>1. stage \in 0..LastStage(tk) /\ stage # PolicyStage
    BY DEF CheckStages
  <2>2. CASE stage = 0
    BY <1>1, <2>2 DEF StageItems, PolicyStage, Content
  <2>3. CASE stage = 1 /\ tk = << >>
    BY <2>3 DEF StageItems, PolicyStage
  <2>4. CASE stage = 1 /\ tk # << >>
    <3>1. tk[1] \in Block
      BY <1>1, <2>4
    <3> QED BY <2>4, <3>1 DEF StageItems, PolicyStage, Block
  <2>5. CASE stage > 2
    <3>1. stage - 1 \in 1..Len(tk)
      BY <1>1, <2>1, <2>5 DEF LastStage, PolicyStage
    <3>2. tk[stage - 1] \in Block
      BY <1>1, <3>1
    <3> QED BY <2>5, <3>2 DEF StageItems, PolicyStage, Block
  <2> QED BY <1>1, <2>1, <2>2, <2>3, <2>4, <2>5 DEF LastStage, PolicyStage
<1>3. StageItems(tk, c, PolicyStage) = c.policies
  BY DEF StageItems, PolicyStage
<1> QED BY <1>1, <1>2, <1>3 DEF Content, LastStage, PolicyStage

\* The item at the current position.
LEMMA CurrentItem ==
    ASSUME Complete, position \in Position, position.item >= 1,
           position.stage <= LastStage(token)
    PROVE  /\ Items \in Seq(Check) \/ Items \in Seq(Policy)
           /\ Len(Items) \in Nat
           /\ DOMAIN Items = 1..Len(Items)
           /\ position.stage # PolicyStage => position.stage \in CheckStages(token)
           /\ position.stage = PolicyStage => Items = content.policies
           /\ HasItem => /\ position.item \in DOMAIN Items
                         /\ Item.queries \in Seq(Rule)
<1>1. token \in Tokens /\ content \in Contents /\ position.stage \in Nat /\ position.item \in Nat
  BY DEF Complete, Position
<1>2. position.stage # PolicyStage => position.stage \in CheckStages(token)
  BY <1>1, ItemsType DEF CheckStages
<1>3. Items \in Seq(Check) \/ Items \in Seq(Policy)
  BY <1>1, <1>2, ItemsType DEF Items
<1>4. position.stage = PolicyStage => Items = content.policies
  BY <1>1, ItemsType DEF Items
<1>5. Len(Items) \in Nat /\ DOMAIN Items = 1..Len(Items)
  BY <1>3
<1>6. ASSUME HasItem
      PROVE  position.item \in DOMAIN Items /\ Item.queries \in Seq(Rule)
  <2>1. position.item \in DOMAIN Items
    BY <1>1, <1>5, <1>6 DEF HasItem
  <2>2. Items[position.item] \in Check \/ Items[position.item] \in Policy
    BY <1>3, <2>1
  <2> QED BY <2>1, <2>2 DEF Item, Check, Policy
<1> QED BY <1>2, <1>3, <1>4, <1>5, <1>6

-----------------------------------------------------------------------------
(* The steps of authorize_inner keep its progress.                             *)

\* What holds of the state while checks and policies are evaluated.
Deciding ==
    /\ Complete
    /\ Progress
    /\ pc = "deciding"
    /\ position.stage <= LastStage(token)

\* The check at the position is not reported yet.
LEMMA NotReported ==
    ASSUME Deciding, HasItem, position.stage # PolicyStage
    PROVE  <<StageOwner(position.stage), position.item>> \notin failed
<1> USE DEF Deciding, Progress
<1>1. token \in Seq(Block) /\ position.stage \in CheckStages(token)
  BY CurrentItem, ProgramAssumption DEF Complete
<1> SUFFICES ASSUME NEW s \in CheckStages(token), NEW i,
                    <<StageOwner(position.stage), position.item>> = <<StageOwner(s), i>>,
                    Passed(s, i)
             PROVE  FALSE
  BY DEF OnlyPassedReported
<1>2. s = position.stage /\ i = position.item
  BY <1>1, OwnStage
<1>3. position.stage \in Nat /\ position.item \in Nat
  BY DEF Position
<1> QED BY <1>2, <1>3 DEF Passed

\* Going on to the next item, when the report of this one is right.
LEMMA ItemPassed ==
    ASSUME Deciding, HasItem, UNCHANGED <<token, content, policy>>,
           position' = NextItem,
           position.stage # PolicyStage =>
              /\ Reported(token, content, failed', position.stage, position.item)
              /\ failed' \in {failed, failed \cup {<<StageOwner(position.stage), position.item>>}},
           position.stage = PolicyStage => failed' = failed /\ PolicyMisses(position.item)
    PROVE  Progress'
<1> USE DEF Deciding, Progress
<1>1. /\ position.stage \in Nat /\ position.item \in Nat
      /\ position' = At(position.stage, position.item + 1, 1)
  BY DEF Position, NextItem
<1>2. /\ position'.stage = position.stage
      /\ position'.item = position.item + 1
      /\ position'.query = 1
      /\ position' \in Position
  BY <1>1 DEF At, Position
<1>3. token \in Seq(Block) /\ Items \in Seq(Check) \cup Seq(Policy)
      /\ position.item \in DOMAIN Items
      /\ (position.stage # PolicyStage => position.stage \in CheckStages(token))
  BY CurrentItem, ProgramAssumption DEF Complete
<1>4. ASSUME NEW stage \in CheckStages(token), NEW i \in DOMAIN StageItems(token, content, stage),
             Passed(stage, i)'
      PROVE  Passed(stage, i) \/ (stage = position.stage /\ i = position.item)
  <2>1. StageItems(token, content, stage) \in Seq(Check)
    BY <1>4, ItemsType DEF Complete
  <2>2. i \in Nat
    BY <2>1
  <2> QED BY <1>1, <1>2, <1>4, <2>2 DEF Passed
<1>5. \A stage, i : Passed(stage, i) => Passed(stage, i)' \/ i \notin Nat
  BY <1>1, <1>2 DEF Passed
<1>6. ChecksReported'
  <2> SUFFICES ASSUME NEW stage \in CheckStages(token),
                      NEW i \in DOMAIN StageItems(token, content, stage),
                      Passed(stage, i)'
               PROVE  Reported(token, content, failed', stage, i)
    BY DEF ChecksReported
  <2>1. CASE stage = position.stage /\ i = position.item
    BY <2>1 DEF CheckStages
  <2>2. CASE Passed(stage, i) /\ ~(stage = position.stage /\ i = position.item)
    <3>1. Reported(token, content, failed, stage, i)
      BY <2>2 DEF ChecksReported
    <3>2. <<StageOwner(stage), i>> \in failed' <=> <<StageOwner(stage), i>> \in failed
      BY <1>3, <2>2, OwnStage
    <3> QED BY <3>1, <3>2 DEF Reported
  <2> QED BY <1>4, <2>1, <2>2
<1>7. OnlyPassedReported'
  <2> SUFFICES ASSUME NEW f \in failed'
               PROVE  \E stage \in CheckStages(token) :
                        \E i \in DOMAIN StageItems(token, content, stage) :
                           Passed(stage, i)' /\ f = <<StageOwner(stage), i>>
    BY DEF OnlyPassedReported
  <2>1. CASE f \in failed
    <3>1. PICK stage \in CheckStages(token) :
             \E i \in DOMAIN StageItems(token, content, stage) :
                Passed(stage, i) /\ f = <<StageOwner(stage), i>>
      BY <2>1 DEF OnlyPassedReported
    <3>2. PICK i \in DOMAIN StageItems(token, content, stage) :
                Passed(stage, i) /\ f = <<StageOwner(stage), i>>
      BY <3>1
    <3>3. StageItems(token, content, stage) \in Seq(Check)
      BY ItemsType DEF Complete
    <3>4. i \in Nat
      BY <3>3
    <3> QED BY <1>5, <3>2, <3>4
  <2>2. CASE f \notin failed
    <3>1. f = <<StageOwner(position.stage), position.item>> /\ position.stage # PolicyStage
      BY <2>2
    <3>2. \A stage, i : stage = position.stage /\ i = position.item => Passed(stage, i)'
      BY <1>1, <1>2 DEF Passed
    <3> QED BY <1>3, <3>1, <3>2 DEF Items
  <2> QED BY <2>1, <2>2
<1>8. FirstPolicy'
  <2>1. ASSUME policy = 0, NEW i \in DOMAIN content.policies, Passed(PolicyStage, i)'
        PROVE  PolicyMisses(i)
    <3>1. i \in Nat
      BY ItemsType DEF Complete
    <3>2. Passed(PolicyStage, i) \/ (PolicyStage = position.stage /\ i = position.item)
      BY <1>1, <1>2, <2>1, <3>1 DEF Passed
    <3> QED BY <2>1, <3>2 DEF FirstPolicy
  <2>2. \A i : PolicyMisses(i)' <=> PolicyMisses(i)
    BY DEF PolicyMisses
  <2> QED BY <1>2, <2>1, <2>2 DEF FirstPolicy
<1>9. QueriesMissed'
  BY <1>2 DEF QueriesMissed
<1> QED BY <1>1, <1>2, <1>6, <1>7, <1>8, <1>9

\* Going on to the next stage, after the last item or the policy that matched.
LEMMA StagePassed ==
    ASSUME Deciding, UNCHANGED <<token, content, failed>>,
           position' = NextStage,
           \/ ~HasItem /\ policy' = policy
           \/ /\ HasItem /\ position.stage = PolicyStage /\ policy' = position.item
              /\ CanHold(token, content, PolicyStage, content.policies[position.item])
    PROVE  Progress'
<1> USE DEF Deciding, Progress
<1>1. /\ position.stage \in Nat /\ position.item \in Nat
      /\ position' = At(position.stage + 1, 1, 1)
  BY DEF Position, NextStage
<1>2. /\ position'.stage = position.stage + 1
      /\ position'.item = 1
      /\ position'.query = 1
      /\ position' \in Position
  BY <1>1 DEF At, Position
<1>3. /\ Len(Items) \in Nat /\ DOMAIN Items = 1..Len(Items)
      /\ HasItem => position.item \in DOMAIN Items
      /\ position.stage = PolicyStage => Items = content.policies
  BY CurrentItem
<1>4. \A stage \in CheckStages(token) \cup {PolicyStage} :
         stage \in Nat /\ \A i \in DOMAIN StageItems(token, content, stage) : i \in Nat /\ i >= 1
  <2> SUFFICES ASSUME NEW stage \in CheckStages(token) \cup {PolicyStage}
               PROVE  stage \in Nat /\ \A i \in DOMAIN StageItems(token, content, stage) :
                                          i \in Nat /\ i >= 1
    OBVIOUS
  <2>1. StageItems(token, content, stage) \in Seq(Check) \cup Seq(Policy)
    BY ItemsType DEF Complete
  <2> QED BY <2>1 DEF CheckStages, PolicyStage
<1>5. ASSUME NEW stage \in CheckStages(token) \cup {PolicyStage},
             NEW i \in DOMAIN StageItems(token, content, stage)
      PROVE  /\ Passed(stage, i) => Passed(stage, i)'
             /\ Passed(stage, i)' => Passed(stage, i) \/ stage = position.stage
             /\ Passed(stage, i)' /\ ~HasItem => Passed(stage, i)
  <2>1. /\ Passed(stage, i) => Passed(stage, i)'
        /\ Passed(stage, i)' => Passed(stage, i) \/ stage = position.stage
    BY <1>1, <1>2, <1>4 DEF Passed
  <2>2. ASSUME stage = position.stage, ~HasItem
        PROVE  Passed(stage, i)
    <3>1. i <= Len(Items)
      BY <1>3, <2>2 DEF Items
    <3> QED BY <1>1, <1>3, <1>4, <2>2, <3>1 DEF HasItem, Passed
  <2> QED BY <2>1, <2>2
<1>6. ChecksReported'
  <2> SUFFICES ASSUME NEW stage \in CheckStages(token),
                      NEW i \in DOMAIN StageItems(token, content, stage),
                      Passed(stage, i)'
               PROVE  Reported(token, content, failed, stage, i)
    BY DEF ChecksReported
  <2>1. Passed(stage, i)
    BY <1>5 DEF CheckStages
  <2> QED BY <2>1 DEF ChecksReported
<1>7. OnlyPassedReported'
  <2> SUFFICES ASSUME NEW f \in failed
               PROVE  \E stage \in CheckStages(token) :
                        \E i \in DOMAIN StageItems(token, content, stage) :
                           Passed(stage, i)' /\ f = <<StageOwner(stage), i>>
    BY DEF OnlyPassedReported
  <2>1. PICK stage \in CheckStages(token) :
             \E i \in DOMAIN StageItems(token, content, stage) :
                Passed(stage, i) /\ f = <<StageOwner(stage), i>>
    BY DEF OnlyPassedReported
  <2>2. PICK i \in DOMAIN StageItems(token, content, stage) :
                Passed(stage, i) /\ f = <<StageOwner(stage), i>>
    BY <2>1
  <2> QED BY <1>5, <2>2
<1>8. policy' \in Nat /\ FirstPolicy'
  <2>1. \A i : PolicyMisses(i)' <=> PolicyMisses(i)
    BY DEF PolicyMisses
  <2>2. StageItems(token, content, PolicyStage) = content.policies
    BY ItemsType DEF Complete
  <2>3. CASE ~HasItem /\ policy' = policy
    <3>1. ASSUME policy = 0, NEW i \in DOMAIN content.policies, Passed(PolicyStage, i)'
          PROVE  PolicyMisses(i)
      <4>1. Passed(PolicyStage, i)
        BY <1>5, <2>2, <2>3, <3>1
      <4> QED BY <3>1, <4>1 DEF FirstPolicy
    <3>2. position.stage > PolicyStage => position'.stage > PolicyStage
      BY <1>1, <1>2 DEF PolicyStage
    <3> QED BY <2>1, <2>3, <3>1, <3>2 DEF FirstPolicy
  <2>4. CASE HasItem /\ position.stage = PolicyStage /\ policy' = position.item
             /\ CanHold(token, content, PolicyStage, content.policies[position.item])
    <3>1. policy = 0 /\ position'.stage > PolicyStage
      BY <1>1, <1>2, <2>4 DEF FirstPolicy, PolicyStage
    <3>2. \A i : i < position.item => Passed(PolicyStage, i)
      BY <2>4 DEF Passed
    <3>3. \A i \in DOMAIN content.policies : i < position.item => PolicyMisses(i)
      BY <3>1, <3>2 DEF FirstPolicy
    <3>4. position.item \in DOMAIN content.policies /\ position.item # 0
      BY <1>3, <2>4
    <3> QED BY <1>1, <2>1, <2>4, <3>1, <3>3, <3>4 DEF FirstPolicy
  <2> QED BY <2>3, <2>4
<1>9. QueriesMissed'
  BY <1>2 DEF QueriesMissed
<1> QED BY <1>1, <1>2, <1>6, <1>7, <1>8, <1>9

\* Going on to the next query, when this one can miss.
LEMMA QueryPassed ==
    ASSUME Deciding, HasQuery, UNCHANGED <<token, content, failed, policy>>,
           position' = NextQuery,
           "false" \in ModelOutcomes(token, content, position.stage, Item,
                                     Item.queries[position.query])
    PROVE  Progress'
<1> USE DEF Deciding, Progress
<1>1. /\ position.stage \in Nat /\ position.item \in Nat /\ position.query \in Nat
      /\ position' = At(position.stage, position.item, position.query + 1)
  BY DEF Position, NextQuery
<1>2. /\ position'.stage = position.stage
      /\ position'.item = position.item
      /\ position'.query = position.query + 1
      /\ position' \in Position
  BY <1>1 DEF At, Position
<1>3. \A stage, i : Passed(stage, i)' <=> Passed(stage, i)
  BY <1>2 DEF Passed
<1>4. ChecksReported' /\ OnlyPassedReported'
  BY <1>3 DEF ChecksReported, OnlyPassedReported
<1>5. FirstPolicy'
  <2>1. \A i : PolicyMisses(i)' <=> PolicyMisses(i)
    BY DEF PolicyMisses
  <2> QED BY <1>2, <1>3, <2>1 DEF FirstPolicy
<1>6. QueriesMissed'
  <2>1. Item' = Item /\ HasItem
    BY <1>2 DEF Item, Items, HasQuery
  <2>2. ASSUME NEW q \in 1..((position.query + 1) - 1)
        PROVE  "false" \in ModelOutcomes(token, content, position.stage, Item, Item.queries[q])
    <3>1. q = position.query \/ q \in 1..(position.query - 1)
      BY <1>1
    <3> QED BY <2>1, <3>1 DEF QueriesMissed
  <2> QED BY <1>2, <2>1, <2>2 DEF QueriesMissed
<1> QED BY <1>1, <1>2, <1>4, <1>5, <1>6

\* The checks and policies of a call that starts to decide are all ahead.
LEMMA ProgressStarts ==
    ASSUME Complete, StartPhase
    PROVE  Progress'
<1>1. UNCHANGED <<token, content>> /\ position' = At(0, 1, 1) /\ failed' = {} /\ policy' = 0
  BY DEF StartPhase, FirstPosition, built
<1>2. position'.stage = 0 /\ position'.item = 1 /\ position'.query = 1 /\ position' \in Position
  BY <1>1 DEF At, Position
<1>3. ASSUME NEW stage \in CheckStages(token) \cup {PolicyStage},
             NEW i \in DOMAIN StageItems(token, content, stage)
      PROVE  ~Passed(stage, i)'
  <2>1. StageItems(token, content, stage) \in Seq(Check) \cup Seq(Policy)
    BY ItemsType DEF Complete
  <2>2. i \in Nat /\ i >= 1 /\ stage \in Nat
    BY <2>1 DEF CheckStages, PolicyStage
  <2> QED BY <1>2, <2>2 DEF Passed
<1>4. ChecksReported' /\ OnlyPassedReported'
  BY <1>1, <1>3 DEF ChecksReported, OnlyPassedReported
<1>5. FirstPolicy'
  <2>1. StageItems(token, content, PolicyStage) = content.policies
    BY ItemsType DEF Complete
  <2> QED BY <1>1, <1>3, <2>1 DEF FirstPolicy
<1>6. QueriesMissed'
  BY <1>2 DEF QueriesMissed
<1> QED BY <1>1, <1>2, <1>4, <1>5, <1>6 DEF Progress

\* The answer of a query that lets the evaluation go on.
LEMMA ProgressByQuery ==
    ASSUME Complete, Progress, EvaluateQuery
    PROVE  Progress'
<1> SUFFICES ASSUME pc' = "deciding" PROVE Progress'
  BY DEF Progress
<1>1. Deciding /\ HasQuery /\ HasItem /\ UNCHANGED <<token, content, failed>>
  BY DEF EvaluateQuery, Deciding, HasQuery, built
<1> DEFINE query == Item.queries[position.query]
           outcomes == ModelOutcomes(token, content, position.stage, Item, query)
<1>2. Outcomes(token, content, position.stage, Item, query, facts) = outcomes
  BY <1>1, OutcomesOfModel DEF Deciding, Complete
<1> HIDE DEF query, outcomes
<1>3. \/ /\ "false" \in outcomes /\ position' = NextQuery /\ policy' = policy
      \/ /\ "true" \in outcomes
         /\ position' = IF position.stage = PolicyStage THEN NextStage ELSE NextItem
         /\ policy' = IF position.stage = PolicyStage THEN position.item ELSE policy
  BY <1>2 DEF EvaluateQuery, Finish, Return, query
<1>4. CASE "false" \in outcomes /\ position' = NextQuery /\ policy' = policy
  BY <1>1, <1>4, QueryPassed DEF outcomes, query
<1>5. ASSUME "true" \in outcomes,
             position' = IF position.stage = PolicyStage THEN NextStage ELSE NextItem,
             policy' = IF position.stage = PolicyStage THEN position.item ELSE policy
      PROVE  Progress'
  <2>1. position \in Position /\ position.item >= 1 /\ position.query >= 1
    BY <1>1 DEF Deciding, Progress
  <2>2. Item.queries \in Seq(Rule) /\ (position.stage = PolicyStage => Items = content.policies)
    BY <1>1, <2>1, CurrentItem DEF Deciding
  <2>3. position.query \in DOMAIN Item.queries
    BY <1>1, <2>1, <2>2 DEF HasQuery, Position
  <2>4. CanHold(token, content, position.stage, Item)
    BY <1>5, <2>3 DEF CanHold, outcomes, query
  <2>5. CASE position.stage = PolicyStage
    <3>1. CanHold(token, content, PolicyStage, content.policies[position.item])
      BY <2>2, <2>4, <2>5 DEF Item
    <3> QED BY <1>1, <1>5, <2>5, <3>1, StagePassed
  <2>6. CASE position.stage # PolicyStage
    <3>1. Reported(token, content, failed, position.stage, position.item)
      BY <1>1, <2>4, <2>6, NotReported DEF Reported, Item, Items
    <3>2. failed' = failed
      BY <1>1
    <3>3. Reported(token, content, failed', position.stage, position.item)
      BY <3>1, <3>2
    <3> QED BY <1>1, <1>5, <2>6, <3>2, <3>3, ItemPassed
  <2> QED BY <2>5, <2>6
<1> QED BY <1>3, <1>4, <1>5

\* An item whose queries were all evaluated, and a stage without further items.
LEMMA ProgressByExhaustion ==
    ASSUME Complete, Progress, ItemExhausted \/ StageExhausted
    PROVE  Progress'
<1>1. CASE ItemExhausted
  <2>1. /\ Deciding /\ HasItem /\ ~HasQuery /\ UNCHANGED <<token, content, policy>>
        /\ position' = NextItem
        /\ failed' = IF position.stage = PolicyStage THEN failed
                     ELSE failed \cup {<<StageOwner(position.stage), position.item>>}
    BY <1>1 DEF ItemExhausted, Deciding, built
  <2>2. position \in Position /\ position.item >= 1 /\ position.query >= 1 /\ QueriesMissed
    BY <2>1 DEF Deciding, Progress
  <2>3. Item.queries \in Seq(Rule) /\ (position.stage = PolicyStage => Items = content.policies)
    BY <2>1, <2>2, CurrentItem DEF Deciding
  <2>4. DOMAIN Item.queries \subseteq 1..(position.query - 1)
    BY <2>1, <2>2, <2>3 DEF HasQuery, Position
  <2>5. CanMiss(token, content, position.stage, Item)
    BY <2>1, <2>2, <2>4 DEF QueriesMissed, CanMiss, Deciding
  <2>6. position.stage = PolicyStage => PolicyMisses(position.item)
    BY <2>3, <2>5 DEF PolicyMisses, Item
  <2>7. position.stage # PolicyStage =>
           Reported(token, content, failed', position.stage, position.item)
    BY <2>1, <2>5 DEF Reported, Item, Items
  <2> QED BY <2>1, <2>6, <2>7, ItemPassed
<1>2. CASE StageExhausted
  <2>1. /\ Deciding /\ ~HasItem /\ UNCHANGED <<token, content, failed, policy>>
        /\ position' = NextStage
    BY <1>2 DEF StageExhausted, Deciding, built
  <2> QED BY <2>1, StagePassed
<1> QED BY <1>1, <1>2

LEMMA ProgressStep ==
    ASSUME Complete, Progress, [Next]_vars
    PROVE  Progress'
<1>1. CASE StartCall \/ RunFails \/ RunCompletes \/ RunIterates
  <2>1. pc' # "deciding"
    <3>1. CASE StartCall
      BY <3>1 DEF StartCall
    <3>2. CASE RunFails
      BY <3>2 DEF RunFails, Return
    <3>3. CASE RunCompletes
      BY <3>3 DEF RunCompletes
    <3>4. CASE RunIterates
      <4> DEFINE hit == LimitHit(index', Cardinality(facts'), elapsed')
      <4>1. UNCHANGED pc \/ Return(Status(hit))
        BY <3>4 DEF RunIterates
      <4> HIDE DEF hit
      <4> QED BY <3>4, <4>1 DEF RunIterates, Return
    <3> QED BY <1>1, <3>1, <3>2, <3>3, <3>4
  <2> QED BY <2>1 DEF Progress
<1>2. CASE RunReturns \/ SubtractionPanics \/ NoTimeLeft \/ Decide \/ RunQuery
  <2>1. pc' # "deciding"
    BY <1>2 DEF RunReturns, SubtractionPanics, NoTimeLeft, Decide, RunQuery, Finish, Return
  <2> QED BY <2>1 DEF Progress
<1>3. CASE UNCHANGED vars
  BY <1>3 DEF vars, built, inner, Progress, ChecksReported, OnlyPassedReported, FirstPolicy,
              QueriesMissed, Passed, PolicyMisses, HasItem, Item, Items
<1> QED BY <1>1, <1>2, <1>3, ProgressStarts, ProgressByQuery, ProgressByExhaustion
        DEF Next, LibraryStep

-----------------------------------------------------------------------------
(* Decisions and answers.                                                      *)

\* A decision reports checks of the token and of the authorizer, and a policy.
OnlyItems(tk, c, r) ==
    /\ \A f \in r.failed :
          \E stage \in CheckStages(tk) : \E i \in DOMAIN StageItems(tk, c, stage) :
              f = <<StageOwner(stage), i>>
    /\ r.policy \in DOMAIN c.policies \cup {0}

Faithful ==
    result.status \in Decided =>
        Justified(token, content, result) /\ OnlyItems(token, content, result)

\* Results other than decisions and answers.
LEMMA PlainStatus ==
    ASSUME NEW s
    PROVE  Status(s).status = s
BY DEF Status, NoResult

\* A step changes neither the token nor the content, and a result is that of
\* the call in progress: a decision, an answer, or neither.
LEMMA ResultsOfSteps ==
    ASSUME [Next]_vars
    PROVE  /\ UNCHANGED <<token, content>>
           /\ \/ UNCHANGED <<result, call>>
              \/ Decide \/ RunQuery
              \/ result'.status \notin Decided \cup {"facts"}
<1> DEFINE neither == {"none", "expression", "ran", "panic", "timeout",
                       "too_many_iterations", "too_many_facts"}
<1> SUFFICES \/ UNCHANGED <<result, call>>
             \/ Decide \/ RunQuery
             \/ result'.status \notin Decided \cup {"facts"}
  BY FactsChange DEF built
<1>1. \A s \in neither : s \notin Decided \cup {"facts"}
  BY DEF Decided
<1>2. (\E s \in neither : result' = Status(s)) => result'.status \notin Decided \cup {"facts"}
  BY <1>1, PlainStatus
<1>3. CASE StartCall
  <2>1. result' = NoResult
    BY <1>3 DEF StartCall
  <2> QED BY <1>1, <2>1 DEF NoResult
<1>4. CASE RunFails \/ RunReturns \/ SubtractionPanics \/ NoTimeLeft
  BY <1>2, <1>4 DEF RunFails, RunReturns, SubtractionPanics, NoTimeLeft, Return
<1>5. CASE RunIterates
  <2> DEFINE hit == LimitHit(index', Cardinality(facts'), elapsed')
  <2>1. hit \in neither
    BY DEF LimitHit
  <2>2. UNCHANGED <<result>> \/ Return(Status(hit))
    BY <1>5 DEF RunIterates
  <2>3. UNCHANGED call
    BY <1>5 DEF RunIterates
  <2> HIDE DEF hit, neither
  <2> QED BY <1>2, <2>1, <2>2, <2>3 DEF Return
<1>6. CASE RunCompletes \/ StartPhase \/ ItemExhausted \/ StageExhausted
  BY <1>6 DEF RunCompletes, StartPhase, ItemExhausted, StageExhausted
<1>7. CASE EvaluateQuery
  <2>1. UNCHANGED call
    BY <1>7 DEF EvaluateQuery
  <2>2. UNCHANGED result \/ result' = Status("expression") \/ result' = Status("timeout")
    BY <1>7, Zenon DEF EvaluateQuery, Finish, Return
  <2> QED BY <1>2, <2>1, <2>2
<1>8. CASE UNCHANGED vars
  BY <1>8 DEF vars
<1> QED BY <1>3, <1>4, <1>5, <1>6, <1>7, <1>8 DEF Next, LibraryStep

\* The decision that ends authorize_inner.
LEMMA DecisionIsFaithful ==
    ASSUME Complete, Progress, Decide
    PROVE  Faithful'
<1> DEFINE r == [Status(DecisionStatus) EXCEPT !.policy = policy, !.failed = failed]
<1>1. /\ UNCHANGED <<token, content>> /\ result' = r /\ pc = "deciding"
      /\ position.stage > LastStage(token)
  BY DEF Decide, Finish, Return, built
<1>2. r.status = DecisionStatus /\ r.policy = policy /\ r.failed = failed
  BY DEF Status, NoResult
<1>3. /\ position \in Position /\ policy \in Nat
      /\ ChecksReported /\ OnlyPassedReported /\ FirstPolicy
  BY <1>1 DEF Progress
<1>4. LastStage(token) \in Nat /\ LastStage(token) >= PolicyStage
  BY ItemsType DEF Complete
<1>5. \A stage \in 0..LastStage(token) : \A i : Passed(stage, i)
  BY <1>1, <1>3, <1>4 DEF Passed, Position
<1>6. \A stage \in CheckStages(token) : \A i \in DOMAIN StageItems(token, content, stage) :
         Reported(token, content, failed, stage, i)
  BY <1>3, <1>5 DEF ChecksReported, CheckStages
<1>7. \A i \in DOMAIN content.policies :
         (policy = 0 \/ i < policy) => CanMiss(token, content, PolicyStage, content.policies[i])
  <2>1. \A i : Passed(PolicyStage, i)
    BY <1>4, <1>5 DEF PolicyStage
  <2> QED BY <1>3, <2>1 DEF FirstPolicy, PolicyMisses
<1>8. policy # 0 => CanHold(token, content, PolicyStage, content.policies[policy])
  BY <1>3 DEF FirstPolicy
<1>9. DecisionStatus = "allow" <=>
         failed = {} /\ policy # 0 /\ content.policies[policy].kind = "allow"
  BY DEF DecisionStatus
<1> HIDE DEF r
<1>10. Justified(token, content, r)
  BY <1>2, <1>6, <1>7, <1>8, <1>9 DEF Justified, Reported
<1>11. OnlyItems(token, content, r)
  <2>1. policy \in DOMAIN content.policies \cup {0}
    BY <1>3 DEF FirstPolicy
  <2> QED BY <1>2, <1>3, <2>1 DEF OnlyPassedReported, OnlyItems
<1> QED BY <1>1, <1>10, <1>11 DEF Faithful

LEMMA FaithfulStep ==
    ASSUME Complete, Progress, Faithful, [Next]_vars
    PROVE  Faithful'
<1>1. CASE RunQuery
  <2>1. Answer.status \notin Decided
    BY PlainStatus DEF Answer, Status, NoResult, Decided
  <2>2. result' = Status("expression") \/ result' = Answer
    BY <1>1 DEF RunQuery, Finish, Return
  <2> QED BY <2>1, <2>2, PlainStatus DEF Faithful, Decided
<1> QED BY <1>1, ResultsOfSteps, DecisionIsFaithful DEF Faithful

\* The blocks whose facts an answer is said to be concluded from.
AskedTrust ==
    IF call.query.scopes # {}
    THEN FromScopes(call.query.scopes, {}, AuthorizerId, KeyBlocks(token))
    ELSE IF call.op = "query_all" THEN Ids(token) ELSE {AuthorizerId, 0}

\* The origins that a query trusts, among those of the token.
LEMMA QueryTrustIs ==
    ASSUME token \in Seq(Block)
    PROVE  QueryTrust \cap Ids(token) = AskedTrust \cap Ids(token)
<1>1. CASE call.query.scopes # {}
  BY <1>1 DEF QueryTrust, AskedTrust, RuleTrust, FromScopes
<1>2. CASE call.query.scopes = {} /\ call.op = "query_all" /\ token = << >>
  <2>1. BlockIds(token) = {}
    BY <1>2 DEF BlockIds
  <2> QED BY <1>2, <2>1 DEF QueryTrust, AskedTrust, TokenOrigins, DefaultOrigins, Ids
<1>3. CASE call.query.scopes = {} /\ call.op = "query_all" /\ token # << >>
  <2> DEFINE previous == [kind |-> "previous", key |-> NoKey]
  <2>1. Len(token) \in Nat /\ Len(token) # AuthorizerId
    BY AuthorizerAssumption
  <2>2. ScopeOrigins(previous, Len(token), KeyBlocks(token)) = 0..Len(token)
    BY <2>1 DEF ScopeOrigins
  <2>3. TokenOrigins(token) = {AuthorizerId, Len(token)} \cup 0..Len(token)
    <3> HIDE DEF previous
    <3>1. TokenOrigins(token)
             = {AuthorizerId, Len(token)}
                  \cup UNION {ScopeOrigins(s, Len(token), KeyBlocks(token)) : s \in {previous}}
      BY <1>3 DEF TokenOrigins, FromScopes, previous
    <3> QED BY <2>2, <3>1
  <2>4. Ids(token) \subseteq TokenOrigins(token)
    BY <2>1, <2>3 DEF Ids, BlockIds
  <2> QED BY <1>3, <2>4 DEF QueryTrust, AskedTrust
<1>4. CASE call.query.scopes = {} /\ call.op # "query_all"
  BY <1>4 DEF QueryTrust, AskedTrust, RuleTrust, FromScopes, DefaultOrigins
<1> QED BY <1>1, <1>2, <1>3, <1>4

\* The answer of a query that concludes.
LEMMA AnswerIsJustified ==
    ASSUME Complete, RunQuery
    PROVE  AnswerJustified'
<1>1. UNCHANGED <<token, content, call>> /\ pc = "querying"
      /\ (result' = Status("expression") \/ result' = Answer)
  BY DEF RunQuery, Finish, Return, built
<1>2. facts = WholeModel(token, content) /\ token \in Tokens /\ content \in Contents
  BY <1>1 DEF Complete
<1> DEFINE asked == [origin |-> QueryOwner, trust |-> AskedTrust,
                     instances |-> call.query.instances]
<1>3. Visible(facts, QueryTrust) = Visible(facts, AskedTrust)
  <2>1. token \in Seq(Block)
    BY <1>2, ProgramAssumption
  <2>2. facts \subseteq Universe(token)
    BY <1>2, <2>1, LoadedInUniverse, ModelIsLeast DEF WholeModel
  <2>3. \A e \in facts : e.origin \subseteq Ids(token)
    BY <2>2 DEF Universe
  <2> QED BY <2>1, <2>3, QueryTrustIs DEF Visible, Trusts
<1>4. Conclusions(QueryRule, facts) = Conclusions(asked, facts)
  BY <1>3 DEF Conclusions, QueryRule
<1>5. Conclusions(asked, facts) = Conclusions(asked, TrustedModel(token, content, AskedTrust))
  <2>1. Visible(facts, asked.trust) = TrustedModel(token, content, AskedTrust)
    BY <1>2, VisibleModel
  <2> HIDE DEF asked
  <2> QED BY <2>1, ConclusionsOfVisible
<1>6. {e.fact : e \in Conclusions(QueryRule, facts)} = ModelAnswer(AskedTrust)
  BY <1>4, <1>5 DEF ModelAnswer
<1>7. result'.status = "facts" => result'.values = ModelAnswer(AskedTrust)
  <2>1. CASE result' = Status("expression")
    BY <2>1, PlainStatus
  <2>2. CASE result' = Answer
    <3>1. Answer \in {Status("unexpected_result"),
                      [Status("facts") EXCEPT !.values = ModelAnswer(AskedTrust)]}
      BY <1>6 DEF Answer
    <3> QED BY <2>2, <3>1 DEF Status, NoResult
  <2> QED BY <1>1, <2>1, <2>2
<1>8. AskedTrust' = AskedTrust /\ \A trust : ModelAnswer(trust)' = ModelAnswer(trust)
  BY <1>1 DEF AskedTrust, ModelAnswer, QueryOwner
<1>9. (result'.status = "facts" => result'.values = ModelAnswer(AskedTrust)')
  BY <1>7, <1>8 DEF ModelAnswer
<1> QED BY <1>9 DEF AnswerJustified, AskedTrust

LEMMA AnswerStep ==
    ASSUME Complete, AnswerJustified, [Next]_vars
    PROVE  AnswerJustified'
<1>1. CASE UNCHANGED <<token, content, result, call>>
  BY <1>1 DEF AnswerJustified, ModelAnswer, QueryOwner
<1>2. CASE Decide
  <2>1. result'.status = DecisionStatus
    BY <1>2 DEF Decide, Finish, Return, Status, NoResult
  <2>2. DecisionStatus # "facts"
    BY DEF DecisionStatus
  <2> QED BY <2>1, <2>2 DEF AnswerJustified
<1>3. CASE result'.status \notin Decided \cup {"facts"}
  BY <1>3 DEF AnswerJustified
<1> QED BY <1>1, <1>2, <1>3, ResultsOfSteps, AnswerIsJustified

-----------------------------------------------------------------------------
(* The theorems.                                                               *)

\* No fact is there that the model lacks, none that was loaded is missing, and
\* no phase starts before the rules have nothing to add.
Modelled ==
    /\ Recorded
    /\ rules = LoadedRules(token, content)
    /\ LoadedFacts(token, content) \subseteq facts
    /\ facts \subseteq WholeModel(token, content)

LEMMA WholeModelIsLeast ==
    ASSUME NEW tk \in Tokens, NEW c \in Contents
    PROVE  /\ LoadedFacts(tk, c) \subseteq WholeModel(tk, c)
           /\ Derived(LoadedRules(tk, c), WholeModel(tk, c)) \subseteq WholeModel(tk, c)
           /\ \A closed : LoadedFacts(tk, c) \subseteq closed
                          /\ Derived(LoadedRules(tk, c), closed) \subseteq closed
                 => WholeModel(tk, c) \subseteq closed
<1>1. tk \in Seq(Block)
  BY ProgramAssumption
<1> QED BY <1>1, LoadedInUniverse, ModelIsLeast DEF WholeModel

LEMMA ModelledIsComplete == Modelled => Complete
<1> SUFFICES ASSUME Modelled PROVE Complete
  OBVIOUS
<1>1. token \in Tokens /\ content \in Contents
  BY DEF Modelled, Recorded, TypeOK
<1>2. ASSUME pc \in {"deciding", "querying"}
      PROVE  facts = WholeModel(token, content)
  <2>1. Derived(rules, facts) \subseteq facts
    BY <1>2 DEF Modelled, Recorded, TypeOK, CompleteWhenRecorded, NewFacts
  <2> QED BY <1>1, <2>1, WholeModelIsLeast DEF Modelled
<1> QED BY <1>1, <1>2 DEF Complete

LEMMA ModelledStep == Modelled /\ [Next]_vars => Modelled'
<1> SUFFICES ASSUME Modelled, [Next]_vars PROVE Modelled'
  OBVIOUS
<1>1. /\ UNCHANGED <<token, content, rules>>
      /\ facts' = facts \/ facts' = facts \cup Derived(rules, facts)
  BY FactsChange DEF built, RunIterates
<1>2. Derived(rules, facts) \subseteq Derived(rules, WholeModel(token, content))
  BY DerivedMonotone DEF Modelled
<1>3. token \in Tokens /\ content \in Contents
  BY DEF Modelled, Recorded, TypeOK
<1>4. Recorded'
  BY RecordedStep DEF Modelled
<1> QED BY <1>1, <1>2, <1>3, <1>4, WholeModelIsLeast DEF Modelled

LEMMA ModelledInit == Init => Modelled
<1> SUFFICES ASSUME Init PROVE Modelled
  OBVIOUS
<1>1. Recorded
  BY InitType DEF Init, Recorded, CompleteWhenRecorded
<1> QED BY <1>1, WholeModelIsLeast DEF Init, Modelled

LEMMA ModelledInvariant == Spec => []Modelled
BY ModelledInit, ModelledStep, PTL DEF Spec

\* Every decision is the one that the model of the trusted blocks justifies, for
\* each check and policy alone, whatever was called before, stopped or failed.
THEOREM Decisions == Spec => []DecisionJustified
<1>1. Init => Progress /\ Faithful
  BY DEF Init, Progress, Faithful, NoResult, Decided
<1>2. Modelled /\ Progress /\ Faithful /\ [Next]_vars => Progress' /\ Faithful'
  BY ModelledIsComplete, ProgressStep, FaithfulStep
<1>3. Faithful => DecisionJustified
  BY DEF Faithful, DecisionJustified
<1> QED BY <1>1, <1>2, <1>3, ModelledInvariant, PTL DEF Spec

\* Every answer has what the model of the blocks that the query trusts yields,
\* no less and no more.
THEOREM Answers == Spec => []AnswerJustified
<1>1. Init => AnswerJustified
  BY DEF Init, AnswerJustified, NoResult
<1>2. Modelled /\ AnswerJustified /\ [Next]_vars => AnswerJustified'
  BY ModelledIsComplete, AnswerStep
<1> QED BY <1>1, <1>2, ModelledInvariant, PTL DEF Spec

==============================================================================
