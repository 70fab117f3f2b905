--------------------------- MODULE SnapshotProofs ----------------------------
(* Theorems about Snapshots for every token, content and set of limits, and    *)
(* for any sequence of calls, snapshots and restorations: what is restored     *)
(* derives no more, is complete when it says so, and is the same authorizer    *)
(* unless a rule trusts the key of a later block or calls a function.          *)
EXTENDS Snapshots, AuthorizerProofs

-----------------------------------------------------------------------------
(* Rules that can do less than others.                                         *)

Weaker(r, s) ==
    /\ r.origin = s.origin
    /\ r.trust \subseteq s.trust
    /\ \A g \in r.instances : g.guard = "true" => g \in s.instances

AllWeaker(rs, ss) == \A r \in rs : \E s \in ss : Weaker(r, s)

LEMMA WeakerTransitive ==
    ASSUME NEW rs, NEW ss, NEW ts, AllWeaker(rs, ss), AllWeaker(ss, ts)
    PROVE  AllWeaker(rs, ts)
BY DEF AllWeaker, Weaker

\* Weaker rules conclude no more.
LEMMA WeakerDerives ==
    ASSUME NEW rs, NEW ss, NEW entries, AllWeaker(rs, ss)
    PROVE  Derived(rs, entries) \subseteq Derived(ss, entries)
<1> SUFFICES ASSUME NEW r \in rs, NEW e \in Conclusions(r, entries)
             PROVE  e \in Derived(ss, entries)
  BY DEF Derived
<1>1. PICK s \in ss : Weaker(r, s)
  BY DEF AllWeaker
<1>2. PICK ground \in r.instances :
         \E m \in Matches(ground, Visible(entries, r.trust)) :
            /\ ground.guard = "true"
            /\ e = [origin |-> MatchOrigin(m, r.origin), fact |-> ground.head]
  BY ConclusionsMember
<1>3. Visible(entries, r.trust) \subseteq Visible(entries, s.trust)
  BY <1>1 DEF Visible, Trusts, Weaker
<1>4. Matches(ground, Visible(entries, r.trust)) \subseteq Matches(ground, Visible(entries, s.trust))
  BY <1>3, MatchesMonotone
<1>5. ground \in s.instances /\ r.origin = s.origin
  BY <1>1, <1>2 DEF Weaker
<1>6. e \in Conclusions(s, entries)
  BY <1>2, <1>4, <1>5, ConclusionsMember
<1> QED BY <1>6 DEF Derived

\* Rules with the instances of others, that trust no more, fail on no more.
NoBolder(rs, ss) ==
    \A r \in rs : \E s \in ss : r.trust \subseteq s.trust /\ r.instances = s.instances

LEMMA NoBolderFails ==
    ASSUME NEW rs, NEW ss, NEW entries, NoBolder(rs, ss), AnyFails(rs, entries)
    PROVE  AnyFails(ss, entries)
<1>1. PICK r \in rs : Fails(r, entries)
  BY DEF AnyFails
<1>2. PICK s \in ss : r.trust \subseteq s.trust /\ r.instances = s.instances
  BY DEF NoBolder
<1>3. PICK ground \in r.instances :
         ground.guard = "error" /\ Matches(ground, Visible(entries, r.trust)) # {}
  BY <1>1 DEF Fails
<1>4. Visible(entries, r.trust) \subseteq Visible(entries, s.trust)
  BY <1>2 DEF Visible, Trusts
<1>5. Matches(ground, Visible(entries, s.trust)) # {}
  BY <1>3, <1>4, MatchesMonotone
<1>6. Fails(s, entries)
  BY <1>2, <1>3, <1>5 DEF Fails
<1> QED BY <1>6 DEF AnyFails

-----------------------------------------------------------------------------
(* Scopes.                                                                     *)

\* Fewer blocks for a key, and less trust by default, give less trust.
LEMMA FromScopesMonotone ==
    ASSUME NEW scopes \in SUBSET Scope, NEW few, NEW many, few \subseteq many, NEW current,
           NEW keys \in Numbering, NEW all \in Numbering,
           \A k \in Keys : keys[k] \subseteq all[k]
    PROVE  FromScopes(scopes, few, current, keys) \subseteq FromScopes(scopes, many, current, all)
<1>1. ASSUME NEW s \in scopes
      PROVE  ScopeOrigins(s, current, keys) \subseteq ScopeOrigins(s, current, all)
  <2>1. CASE s.kind = "authority"
    BY <2>1 DEF ScopeOrigins
  <2>2. CASE s.kind = "previous"
    BY <2>2 DEF ScopeOrigins
  <2>3. CASE s.kind = "key"
    <3>1. s.key \in Keys
      BY <2>3 DEF Scope
    <3> QED BY <2>3, <3>1 DEF ScopeOrigins
  <2> QED BY <2>1, <2>2, <2>3 DEF Scope
<1> QED BY <1>1 DEF FromScopes

\* The table of keys while a snapshot is read holds a part of the whole one.
LEMMA KeysSoFarType ==
    ASSUME NEW tk, NEW i
    PROVE  /\ KeysSoFar(tk, i) \in Numbering
           /\ KeyBlocks(tk) \in Numbering
           /\ \A k \in Keys : KeysSoFar(tk, i)[k] \subseteq KeyBlocks(tk)[k]
<1>1. KeyBlocks(tk) \in Numbering
  BY KeyBlocksType DEF Numbering
<1>2. \A k \in Keys : KeysSoFar(tk, i)[k] = {j \in KeyBlocks(tk)[k] : j <= i}
  BY DEF KeysSoFar
<1>3. KeysSoFar(tk, i) \in Numbering
  BY <1>1, <1>2 DEF KeysSoFar, Numbering
<1> QED BY <1>1, <1>2, <1>3

-----------------------------------------------------------------------------
(* Tokens and contents that lost some of their instances.                      *)

ReducedRule(r, s) ==
    /\ r.scopes = s.scopes
    /\ \A g \in r.instances : g.guard = "true" => g \in s.instances

ReducedRules(rs, ss) == \A r \in rs : \E s \in ss : ReducedRule(r, s)

ReducedBlock(b, d) ==
    /\ b.scopes = d.scopes /\ b.facts = d.facts /\ b.key = d.key
    /\ ReducedRules(b.rules, d.rules)

ReducedContent(c, d) ==
    /\ c.scopes = d.scopes /\ c.facts = d.facts
    /\ ReducedRules(c.rules, d.rules)

Reduced(tk, c, tk0, c0) ==
    /\ tk \in Seq(Block) /\ c \in Content
    /\ Len(tk) = Len(tk0)
    /\ \A i \in 1..Len(tk) : ReducedBlock(tk[i], tk0[i])
    /\ ReducedContent(c, c0)

LEMMA ReducedReflexive ==
    ASSUME NEW tk \in Seq(Block), NEW c \in Content
    PROVE  Reduced(tk, c, tk, c)
BY DEF Reduced, ReducedBlock, ReducedContent, ReducedRules, ReducedRule

\* A function that is missing makes instances fail, and does nothing else.
LEMMA WithoutExternsReduces ==
    ASSUME NEW r \in Rule
    PROVE  WithoutExterns(r) \in Rule /\ ReducedRule(WithoutExterns(r), r)
<1> DEFINE without(g) == IF g \in External THEN [g EXCEPT !.guard = "error"] ELSE g
<1>1. WithoutExterns(r) = [r EXCEPT !.instances = {without(g) : g \in r.instances}]
  BY DEF WithoutExterns
<1>2. ASSUME NEW g \in r.instances
      PROVE  /\ without(g) \in Ground
             /\ without(g).guard = "true" => without(g) = g
  BY DEF Rule, Ground, Guard
<1> HIDE DEF without
<1>3. WithoutExterns(r).instances = {without(g) : g \in r.instances}
      /\ WithoutExterns(r).scopes = r.scopes
  BY <1>1 DEF Rule
<1>4. {without(g) : g \in r.instances} \in SUBSET Ground
  BY <1>2
<1>5. WithoutExterns(r) \in Rule
  BY <1>1, <1>4 DEF Rule
<1>6. ASSUME NEW h \in WithoutExterns(r).instances, h.guard = "true"
      PROVE  h \in r.instances
  BY <1>2, <1>3, <1>6
<1> QED BY <1>3, <1>5, <1>6 DEF ReducedRule

\* Sequences, element by element.
LEMMA SameLength ==
    ASSUME NEW S, NEW T, NEW q \in Seq(S), NEW p,
           p = [i \in DOMAIN q |-> p[i]], \A i \in DOMAIN q : p[i] \in T
    PROVE  p \in Seq(T) /\ Len(p) = Len(q)
<1>1. DOMAIN q = 1..Len(q) /\ Len(q) \in Nat
  OBVIOUS
<1> QED BY <1>1

\* The checks and policies that are read again.
LEMMA UnregisteredType ==
    ASSUME NEW kinds, NEW items \in Seq([kind: kinds, queries: Seq(Rule)])
    PROVE  Unregistered(items) \in Seq([kind: kinds, queries: Seq(Rule)])
<1> DEFINE Kind == [kind: kinds, queries: Seq(Rule)]
<1>1. ASSUME NEW i \in DOMAIN items
      PROVE  Unregistered(items)[i] \in Kind
  <2>1. items[i] \in Kind
    BY ElementOf
  <2> DEFINE queries == [q \in DOMAIN items[i].queries |-> WithoutExterns(items[i].queries[q])]
  <2>2. Unregistered(items)[i] = [items[i] EXCEPT !.queries = queries]
    BY DEF Unregistered
  <2>3. items[i].queries \in Seq(Rule)
    BY <2>1
  <2>4. \A q \in DOMAIN items[i].queries : queries[q] \in Rule
    BY <2>3, ElementOf, WithoutExternsReduces
  <2>5. queries = [q \in DOMAIN items[i].queries |-> queries[q]]
    OBVIOUS
  <2> HIDE DEF queries
  <2>6. queries \in Seq(Rule)
    BY <2>3, <2>4, <2>5, SameLength
  <2> QED BY <2>1, <2>2, <2>6
<1>2. Unregistered(items) = [i \in DOMAIN items |-> Unregistered(items)[i]]
  BY DEF Unregistered
<1>3. items \in Seq(Kind)
  OBVIOUS
<1> HIDE DEF Kind
<1>4. Unregistered(items) \in Seq(Kind)
  BY <1>1, <1>2, <1>3, SameLength
<1> QED BY <1>4 DEF Kind

LEMMA RestoredRulesReduce ==
    ASSUME NEW rs \in SUBSET Rule
    PROVE  /\ {WithoutExterns(r) : r \in rs} \in SUBSET Rule
           /\ ReducedRules({WithoutExterns(r) : r \in rs}, rs)
BY WithoutExternsReduces DEF ReducedRules

\* An authorizer that is read again has the blocks and the content it had, with
\* the instances that called a function of the program failing.
LEMMA RestoredReduced ==
    ASSUME NEW tk \in Seq(Block), NEW c \in Content
    PROVE  Reduced(RestoredBlocks(tk), RestoredContent(c), tk, c)
<1>1. ASSUME NEW i \in DOMAIN tk
      PROVE  RestoredBlocks(tk)[i] \in Block /\ ReducedBlock(RestoredBlocks(tk)[i], tk[i])
  <2>1. tk[i] \in Block
    BY ElementOf
  <2> DEFINE less == {WithoutExterns(r) : r \in tk[i].rules}
             again == Unregistered(tk[i].checks)
  <2>2. RestoredBlocks(tk)[i] = [tk[i] EXCEPT !.rules = less, !.checks = again]
    BY DEF RestoredBlocks
  <2>3. less \in SUBSET Rule /\ ReducedRules(less, tk[i].rules)
    BY <2>1, RestoredRulesReduce DEF Block
  <2>4. again \in Seq(Check)
    BY <2>1, UnregisteredType DEF Block, Check
  <2> HIDE DEF less, again
  <2> QED BY <2>1, <2>2, <2>3, <2>4 DEF Block, ReducedBlock
<1>2. RestoredBlocks(tk) = [i \in DOMAIN tk |-> RestoredBlocks(tk)[i]]
  BY DEF RestoredBlocks
<1>3. RestoredBlocks(tk) \in Seq(Block) /\ Len(RestoredBlocks(tk)) = Len(tk)
  BY <1>1, <1>2, SameLength
<1>4. RestoredContent(c) \in Content /\ ReducedContent(RestoredContent(c), c)
  <2> DEFINE less == {WithoutExterns(r) : r \in c.rules}
             checks == Unregistered(c.checks)
             policies == Unregistered(c.policies)
  <2>1. RestoredContent(c) = [c EXCEPT !.rules = less, !.checks = checks, !.policies = policies]
    BY DEF RestoredContent
  <2>2. less \in SUBSET Rule /\ ReducedRules(less, c.rules)
    BY RestoredRulesReduce DEF Content
  <2>3. checks \in Seq(Check) /\ policies \in Seq(Policy)
    BY UnregisteredType DEF Content, Check, Policy
  <2> HIDE DEF less, checks, policies
  <2> QED BY <2>1, <2>2, <2>3 DEF Content, ReducedContent
<1> QED BY <1>1, <1>3, <1>4 DEF Reduced

LEMMA ReducedTransitive ==
    ASSUME NEW a, NEW x, NEW b, NEW y, NEW d, NEW z, Reduced(a, x, b, y), Reduced(b, y, d, z)
    PROVE  Reduced(a, x, d, z)
<1>1. \A rs, ss, ts : ReducedRules(rs, ss) /\ ReducedRules(ss, ts) => ReducedRules(rs, ts)
  BY DEF ReducedRules, ReducedRule
<1>2. ASSUME NEW i \in 1..Len(a)
      PROVE  ReducedBlock(a[i], d[i])
  BY <1>1 DEF Reduced, ReducedBlock
<1>3. ReducedContent(x, z)
  BY <1>1 DEF Reduced, ReducedContent
<1> QED BY <1>2, <1>3 DEF Reduced

\* Signatures, facts and trust do not depend on what was reduced.
LEMMA ReducedLoads ==
    ASSUME NEW tk, NEW c, NEW tk0, NEW c0, Reduced(tk, c, tk0, c0)
    PROVE  /\ BlockIds(tk) = BlockIds(tk0)
           /\ \A i \in BlockIds(tk) : tk[i + 1] \in Block /\ ReducedBlock(tk[i + 1], tk0[i + 1])
           /\ KeyBlocks(tk) = KeyBlocks(tk0)
           /\ \A i : KeysSoFar(tk, i) = KeysSoFar(tk0, i)
           /\ LoadedFacts(tk, c) = LoadedFacts(tk0, c0)
<1>1. BlockIds(tk) = BlockIds(tk0)
  BY DEF Reduced, BlockIds
<1>2. ASSUME NEW i \in BlockIds(tk)
      PROVE  i + 1 \in 1..Len(tk) /\ tk[i + 1] \in Block /\ ReducedBlock(tk[i + 1], tk0[i + 1])
  BY DEF Reduced, BlockIds
<1>3. \A k \in Keys : {i \in 1..(Len(tk) - 1) : tk[i + 1].key = k}
                        = {i \in 1..(Len(tk0) - 1) : tk0[i + 1].key = k}
  <2>1. 1..(Len(tk) - 1) = 1..(Len(tk0) - 1) /\ 1..(Len(tk) - 1) \subseteq BlockIds(tk)
    BY DEF Reduced, BlockIds
  <2>2. \A i \in 1..(Len(tk) - 1) : tk[i + 1].key = tk0[i + 1].key
    BY <1>2, <2>1 DEF ReducedBlock
  <2> QED BY <2>1, <2>2
<1>4. KeyBlocks(tk) = KeyBlocks(tk0)
  BY <1>3 DEF KeyBlocks
<1>5. \A i : KeysSoFar(tk, i) = KeysSoFar(tk0, i)
  BY <1>4 DEF KeysSoFar
<1>6. LoadedFacts(tk, c) = LoadedFacts(tk0, c0)
  <2>1. \A i \in BlockIds(tk) : tk[i + 1].facts = tk0[i + 1].facts
    BY <1>2 DEF ReducedBlock
  <2>2. c.facts = c0.facts
    BY DEF Reduced, ReducedContent
  <2> QED BY <1>1, <2>1, <2>2 DEF LoadedFacts
<1> QED BY <1>1, <1>2, <1>4, <1>5, <1>6

-----------------------------------------------------------------------------
(* Rules that are read again.                                                  *)

\* A rule of the authorizer or of a block, in the table of a whole token or in
\* that of the blocks read so far.
LEMMA LoadedRulesAre ==
    ASSUME NEW tk, NEW c, NEW w
    PROVE  /\ w \in LoadedRules(tk, c) <=>
                \/ \E r \in c.rules : w = LoadRule(tk, r, ContentTrust(tk, c), AuthorizerId)
                \/ \E i \in BlockIds(tk) : \E r \in tk[i + 1].rules :
                      w = LoadRule(tk, r, BlockTrust(tk, i), i)
           /\ w \in RestoredRules(tk, c) <=>
                \/ \E r \in c.rules : w = LoadRule(tk, r, ContentTrust(tk, c), AuthorizerId)
                \/ \E i \in BlockIds(tk) : \E r \in tk[i + 1].rules :
                      w = RestoredBlockRule(tk, i, r)
BY DEF LoadedRules, RestoredRules

\* What is reduced loads weaker rules, and is read again as weaker rules.
LEMMA ReducedWeaker ==
    ASSUME NEW tk, NEW c, NEW tk0, NEW c0, Reduced(tk, c, tk0, c0)
    PROVE  /\ AllWeaker(LoadedRules(tk, c), LoadedRules(tk0, c0))
           /\ AllWeaker(RestoredRules(tk, c), RestoredRules(tk0, c0))
<1> USE ReducedLoads
<1>1. ASSUME NEW r \in c.rules
      PROVE  \E s \in c0.rules :
                Weaker(LoadRule(tk, r, ContentTrust(tk, c), AuthorizerId),
                       LoadRule(tk0, s, ContentTrust(tk0, c0), AuthorizerId))
  <2>1. PICK s \in c0.rules : ReducedRule(r, s)
    BY DEF Reduced, ReducedContent, ReducedRules
  <2>2. ContentTrust(tk, c) = ContentTrust(tk0, c0)
    BY DEF ContentTrust, Reduced, ReducedContent
  <2> QED BY <2>1, <2>2 DEF LoadRule, RuleTrust, Weaker, ReducedRule
<1>2. ASSUME NEW i \in BlockIds(tk), NEW r \in tk[i + 1].rules
      PROVE  \E s \in tk0[i + 1].rules :
                /\ Weaker(LoadRule(tk, r, BlockTrust(tk, i), i),
                          LoadRule(tk0, s, BlockTrust(tk0, i), i))
                /\ Weaker(RestoredBlockRule(tk, i, r), RestoredBlockRule(tk0, i, s))
  <2>1. PICK s \in tk0[i + 1].rules : ReducedRule(r, s)
    BY DEF ReducedBlock, ReducedRules
  <2>2. BlockTrust(tk, i) = BlockTrust(tk0, i)
    BY DEF BlockTrust, ReducedBlock
  <2>3. Weaker(LoadRule(tk, r, BlockTrust(tk, i), i), LoadRule(tk0, s, BlockTrust(tk0, i), i))
    BY <2>1, <2>2 DEF LoadRule, RuleTrust, Weaker, ReducedRule
  <2>4. Weaker(RestoredBlockRule(tk, i, r), RestoredBlockRule(tk0, i, s))
    BY <2>1 DEF RestoredBlockRule, ReducedBlock, Weaker, ReducedRule
  <2> QED BY <2>3, <2>4
<1> QED BY <1>1, <1>2, LoadedRulesAre DEF AllWeaker

\* Reading the blocks one by one gives a rule no origin that it had not, and
\* leaves out only the blocks that come after its own.
LEMMA RestoredTrust ==
    ASSUME NEW tk \in Seq(Block), NEW i \in BlockIds(tk), NEW r \in tk[i + 1].rules
    PROVE  /\ RestoredBlockRule(tk, i, r).trust \subseteq
                 LoadRule(tk, r, BlockTrust(tk, i), i).trust
           /\ (\A s \in tk[i + 1].scopes \cup r.scopes :
                 s.kind = "key" => \A j \in KeyBlocks(tk)[s.key] : j <= i)
                 => RestoredBlockRule(tk, i, r) = LoadRule(tk, r, BlockTrust(tk, i), i)
<1>1. tk[i + 1] \in Block
  BY DEF BlockIds
<1>2. tk[i + 1].scopes \in SUBSET Scope /\ r.scopes \in SUBSET Scope
  BY <1>1 DEF Block, Rule
<1> DEFINE few == KeysSoFar(tk, i)
           many == KeyBlocks(tk)
           narrow == FromScopes(tk[i + 1].scopes, DefaultOrigins, i, few)
           wide == FromScopes(tk[i + 1].scopes, DefaultOrigins, i, many)
<1>3. few \in Numbering /\ many \in Numbering /\ \A k \in Keys : few[k] \subseteq many[k]
  BY KeysSoFarType
<1>4. /\ RestoredBlockRule(tk, i, r) =
            [origin |-> i, trust |-> FromScopes(r.scopes, narrow, i, few),
             instances |-> r.instances]
      /\ LoadRule(tk, r, BlockTrust(tk, i), i) =
            [origin |-> i, trust |-> FromScopes(r.scopes, wide, i, many),
             instances |-> r.instances]
  BY DEF RestoredBlockRule, LoadRule, BlockTrust, RuleTrust
<1>5. \A k \in Keys : few[k] = {j \in many[k] : j <= i}
  BY DEF KeysSoFar
<1> HIDE DEF few, many
<1>6. narrow \subseteq wide
  BY <1>2, <1>3, FromScopesMonotone
<1>7. FromScopes(r.scopes, narrow, i, few) \subseteq FromScopes(r.scopes, wide, i, many)
  <2> HIDE DEF narrow, wide
  <2> QED BY <1>2, <1>3, <1>6, FromScopesMonotone
<1>8. ASSUME \A s \in tk[i + 1].scopes \cup r.scopes :
                s.kind = "key" => \A j \in many[s.key] : j <= i
      PROVE  FromScopes(r.scopes, narrow, i, few) = FromScopes(r.scopes, wide, i, many)
  <2>1. \A s \in tk[i + 1].scopes \cup r.scopes : s.kind = "key" => few[s.key] = many[s.key]
    <3> SUFFICES ASSUME NEW s \in tk[i + 1].scopes \cup r.scopes, s.kind = "key"
                 PROVE  few[s.key] = many[s.key]
      OBVIOUS
    <3>1. s.key \in Keys
      BY <1>2 DEF Scope
    <3>2. \A j \in many[s.key] : j <= i
      BY <1>8
    <3> QED BY <1>5, <3>1, <3>2
  <2>2. narrow = wide
    BY <1>2, <1>3, <2>1, FromScopesAgree
  <2> HIDE DEF narrow, wide
  <2> QED BY <1>2, <1>3, <2>1, <2>2, FromScopesAgree
<1> HIDE DEF narrow, wide
<1> QED BY <1>4, <1>7, <1>8 DEF many

LEMMA RestoredWeaker ==
    ASSUME NEW tk \in Seq(Block), NEW c
    PROVE  /\ AllWeaker(RestoredRules(tk, c), LoadedRules(tk, c))
           /\ NoBolder(RestoredRules(tk, c), LoadedRules(tk, c))
<1>1. ASSUME NEW w \in RestoredRules(tk, c)
      PROVE  \E s \in LoadedRules(tk, c) :
                s.origin = w.origin /\ w.trust \subseteq s.trust /\ w.instances = s.instances
  <2>1. CASE w \in LoadedRules(tk, c)
    BY <2>1
  <2>2. ASSUME NEW i \in BlockIds(tk), NEW r \in tk[i + 1].rules, w = RestoredBlockRule(tk, i, r)
        PROVE  \E s \in LoadedRules(tk, c) :
                  s.origin = w.origin /\ w.trust \subseteq s.trust /\ w.instances = s.instances
    <3>1. LoadRule(tk, r, BlockTrust(tk, i), i) \in LoadedRules(tk, c)
      BY LoadedRulesAre
    <3>2. w.trust \subseteq LoadRule(tk, r, BlockTrust(tk, i), i).trust
      BY <2>2, RestoredTrust
    <3> QED BY <2>2, <3>1, <3>2 DEF RestoredBlockRule, LoadRule
  <2> QED BY <2>1, <2>2, LoadedRulesAre
<1> QED BY <1>1 DEF AllWeaker, NoBolder, Weaker

\* Unless a rule of a block trusts the key of a later one, nothing is lost.
LEMMA NoLaterKey ==
    ASSUME original.token \in Seq(Block), ~TrustsLaterKey, NEW c
    PROVE  RestoredRules(original.token, c) = LoadedRules(original.token, c)
<1>1. ASSUME NEW i \in BlockIds(original.token), NEW r \in original.token[i + 1].rules
      PROVE  RestoredBlockRule(original.token, i, r)
                = LoadRule(original.token, r, BlockTrust(original.token, i), i)
  <2>1. i \in Nat /\ original.token[i + 1] \in Block
    BY DEF BlockIds
  <2>2. original.token[i + 1].scopes \in SUBSET Scope /\ r.scopes \in SUBSET Scope
    BY <2>1 DEF Block, Rule
  <2>3. ASSUME NEW s \in original.token[i + 1].scopes \cup r.scopes, s.kind = "key",
               NEW j \in KeyBlocks(original.token)[s.key]
        PROVE  j <= i
    <3>1. s.key \in Keys
      BY <2>2, <2>3 DEF Scope
    <3>2. j \in Nat
      BY <3>1, KeyBlocksType
    <3>3. ~(j > i)
      BY <2>3 DEF TrustsLaterKey
    <3> QED BY <2>1, <3>2, <3>3
  <2> QED BY <2>3, RestoredTrust
<1>2. \A w : w \in RestoredRules(original.token, c) <=> w \in LoadedRules(original.token, c)
  BY <1>1, LoadedRulesAre
<1> QED BY <1>2

-----------------------------------------------------------------------------
(* What calls, snapshots and restorations preserve.                            *)

\* No rule yields anything more; without functions of the program, none fails.
Closed(rs, entries) ==
    /\ Derived(rs, entries) \subseteq entries
    /\ ~CallsExterns => ~AnyFails(rs, entries)

\* The blocks and the content that are held or saved are those first built, less
\* the instances that called a function.
FromOriginal(tk, c) ==
    /\ Reduced(tk, c, original.token, original.content)
    /\ ~CallsExterns => tk = original.token /\ c = original.content

StoredEntries ==
    {[origin |-> TokenOrigin(g.origins), fact |-> g.fact] : g \in stored.generated}

\* The rules of the world that the snapshot is read as.
RulesRead == RestoredRules(RestoredBlocks(stored.blocks), RestoredContent(stored.content))

OriginalOK ==
    /\ original.token \in Tokens /\ original.content \in Contents
    /\ original.token \in Seq(Block) /\ original.content \in Content

WorldOK ==
    /\ FromOriginal(token, content)
    /\ rules \in {LoadedRules(token, content), RestoredRules(token, content)}
    /\ LoadedFacts(token, content) \subseteq facts
    /\ \A e \in facts : e = [origin |-> e.origin, fact |-> e.fact]

TimesOK ==
    /\ executionTime # None \/ pc \in {"ran", "deciding", "querying"}
          => Closed(rules, facts)
    /\ pc = "running" => executionTime = None

StoredOK ==
    stored # None =>
        /\ FromOriginal(stored.blocks, stored.content)
        /\ stored.limits = limits
        /\ LoadedFacts(stored.blocks, stored.content) \subseteq StoredEntries
        /\ RecordedTime(stored.executionTime) # None => Closed(RulesRead, StoredEntries)

\* Complete worlds stay complete over a restoration because what a snapshot is
\* read as was already complete when it was taken.
Kept == OriginalOK /\ WorldOK /\ TimesOK /\ StoredOK

\* Origins are written and read back unchanged.
LEMMA OriginRoundTrip ==
    ASSUME NEW S
    PROVE  TokenOrigin(ProtoOrigin(S)) = S
<1> DEFINE wire(o) == IF o = AuthorizerId THEN [content |-> "authorizer"]
                                          ELSE [content |-> "origin", id |-> o]
           read(p) == IF p.content = "authorizer" THEN AuthorizerId ELSE p.id
<1>1. \A o \in S : read(wire(o)) = o
  OBVIOUS
<1>2. ProtoOrigin(S) = {wire(o) : o \in S}
  BY DEF ProtoOrigin
<1>3. TokenOrigin(ProtoOrigin(S)) = {read(p) : p \in ProtoOrigin(S)}
  BY DEF TokenOrigin
<1> HIDE DEF wire, read
<1> QED BY <1>1, <1>2, <1>3

\* The rules of a world that is read again are weaker than those of the world
\* it was saved from, and fail on no more when no function is missing.
LEMMA ReadRulesWeaker ==
    ASSUME NEW tk \in Seq(Block), NEW c \in Content,
           NEW rs \in {LoadedRules(tk, c), RestoredRules(tk, c)}
    PROVE  /\ AllWeaker(RestoredRules(RestoredBlocks(tk), RestoredContent(c)), rs)
           /\ NoBolder(RestoredRules(tk, c), rs)
<1>1. AllWeaker(RestoredRules(RestoredBlocks(tk), RestoredContent(c)), RestoredRules(tk, c))
  BY RestoredReduced, ReducedWeaker
<1>2. AllWeaker(RestoredRules(tk, c), rs)
  <2>1. AllWeaker(RestoredRules(tk, c), RestoredRules(tk, c))
    BY DEF AllWeaker, Weaker
  <2> QED BY <2>1, RestoredWeaker
<1>3. NoBolder(RestoredRules(tk, c), rs)
  <2>1. NoBolder(RestoredRules(tk, c), RestoredRules(tk, c))
    BY DEF NoBolder
  <2> QED BY <2>1, RestoredWeaker
<1> QED BY <1>1, <1>2, <1>3, WeakerTransitive

\* A world that is complete is read again as a complete one.
LEMMA ReadIsClosed ==
    ASSUME NEW tk, NEW c, NEW rs \in {LoadedRules(tk, c), RestoredRules(tk, c)},
           NEW entries, tk \in Seq(Block), c \in Content,
           OriginalOK, FromOriginal(tk, c), Closed(rs, entries)
    PROVE  Closed(RestoredRules(RestoredBlocks(tk), RestoredContent(c)), entries)
<1> DEFINE read == RestoredRules(RestoredBlocks(tk), RestoredContent(c))
<1>1. Derived(read, entries) \subseteq entries
  <2>1. AllWeaker(read, rs)
    BY ReadRulesWeaker
  <2> HIDE DEF read
  <2> QED BY <2>1, WeakerDerives DEF Closed
<1>2. ASSUME ~CallsExterns
      PROVE  ~AnyFails(read, entries)
  <2>1. RestoredBlocks(tk) = tk /\ RestoredContent(c) = c
    BY <1>2 DEF CallsExterns, FromOriginal
  <2>2. NoBolder(read, rs)
    BY <2>1, ReadRulesWeaker
  <2> HIDE DEF read
  <2> QED BY <1>2, <2>2, NoBolderFails DEF Closed
<1> QED BY <1>1, <1>2 DEF Closed

LEMMA KeptInit == SnapshotInit => Kept
<1> SUFFICES ASSUME SnapshotInit PROVE Kept
  OBVIOUS
<1> USE DEF SnapshotInit, Init
<1>1. token \in Seq(Block) /\ content \in Content
  BY ProgramAssumption
<1>2. original.token = token /\ original.content = content
  OBVIOUS
<1>3. \A e \in facts : e = [origin |-> e.origin, fact |-> e.fact]
  BY DEF LoadedFacts
<1>4. WorldOK
  BY <1>1, <1>2, <1>3, ReducedReflexive DEF WorldOK, FromOriginal
<1> QED BY <1>1, <1>2, <1>4 DEF Kept, OriginalOK, TimesOK, StoredOK

\* A call adds what the rules derive, and records no time before they derive
\* nothing new.
LEMMA KeptByCalls ==
    Kept /\ [Next]_vars /\ UNCHANGED snapshotVars => Kept'
<1> SUFFICES ASSUME Kept, [Next]_vars, UNCHANGED snapshotVars PROVE Kept'
  OBVIOUS
<1>1. UNCHANGED <<token, content, limits, rules>>
      /\ (facts' = facts \/ (RunIterates /\ facts' = facts \cup Derived(rules, facts)))
  BY FactsChange DEF built, RunIterates
<1>2. UNCHANGED <<stored, restored, original>>
  BY DEF snapshotVars
<1>3. CallsExterns' = CallsExterns
  BY <1>2 DEF CallsExterns
<1>4. OriginalOK'
  BY <1>2 DEF Kept, OriginalOK
<1>5. StoredOK'
  BY <1>1, <1>2, <1>3 DEF Kept, StoredOK, FromOriginal, Closed, StoredEntries, RulesRead
<1>6. WorldOK'
  <2>1. \A e \in Derived(rules, facts) : e = [origin |-> e.origin, fact |-> e.fact]
    <3> SUFFICES ASSUME NEW r \in rules, NEW e \in Conclusions(r, facts)
                 PROVE  e = [origin |-> e.origin, fact |-> e.fact]
      BY DEF Derived
    <3> QED BY ConclusionsMember
  <2>2. facts \subseteq facts' /\ \A e \in facts' : e = [origin |-> e.origin, fact |-> e.fact]
    BY <1>1, <2>1 DEF Kept, WorldOK
  <2> QED BY <1>1, <1>2, <1>3, <2>2 DEF Kept, WorldOK, FromOriginal
<1>7. TimesOK'
  <2> USE DEF Kept, TimesOK
  <2>1. ASSUME facts' = facts,
               (executionTime' # None \/ pc' \in {"ran", "deciding", "querying"})
                 => Closed(rules, facts),
               pc' = "running" => executionTime' = None
        PROVE  TimesOK'
    BY <1>1, <1>3, <2>1 DEF Closed
  <2>2. CASE StartCall
    <3>1. facts' = facts /\ executionTime' = executionTime
          /\ pc' = IF executionTime = None THEN "running" ELSE "ran"
      BY <2>2 DEF StartCall, world
    <3> QED BY <2>1, <3>1
  <2>3. CASE RunFails
    <3>1. facts' = facts /\ executionTime' = executionTime /\ pc' = "idle"
      BY <2>3 DEF RunFails, Return, world
    <3> QED BY <2>1, <3>1
  <2>4. CASE RunCompletes
    <3>1. facts' = facts /\ pc' = "ran" /\ Closed(rules, facts)
      BY <2>4 DEF RunCompletes, NewFacts, Closed
    <3> QED BY <2>1, <3>1
  <2>5. CASE RunIterates
    <3>1. executionTime = None /\ executionTime' = None
      BY <2>5 DEF RunIterates
    <3>2. pc' \in {"running", "idle"}
      <4> DEFINE hit == LimitHit(index', Cardinality(facts'), elapsed')
      <4>1. UNCHANGED pc \/ Return(Status(hit))
        BY <2>5 DEF RunIterates
      <4> HIDE DEF hit
      <4> QED BY <2>5, <4>1 DEF RunIterates, Return
    <3> QED BY <3>1, <3>2
  <2>6. CASE RunReturns \/ SubtractionPanics \/ NoTimeLeft
    <3>1. facts' = facts /\ executionTime' = executionTime /\ pc' = "idle"
      BY <2>6 DEF RunReturns, SubtractionPanics, NoTimeLeft, Return, world
    <3> QED BY <2>1, <3>1
  <2>7. CASE StartPhase
    <3>1. /\ facts' = facts /\ executionTime' = executionTime /\ pc = "ran"
          /\ pc' \in {"deciding", "querying"}
      BY <2>7 DEF StartPhase, world
    <3> QED BY <2>1, <3>1
  <2>8. CASE EvaluateQuery \/ ItemExhausted \/ StageExhausted \/ Decide
    <3>1. facts' = facts /\ pc = "deciding" /\ pc' \in {"deciding", "idle"}
      BY <2>8, Zenon DEF EvaluateQuery, ItemExhausted, StageExhausted, Decide, Finish, Return,
                         world
    <3> QED BY <2>1, <3>1
  <2>9. CASE RunQuery
    <3>1. facts' = facts /\ pc = "querying" /\ pc' = "idle"
      BY <2>9 DEF RunQuery, Finish, Return, world
    <3> QED BY <2>1, <3>1
  <2>10. CASE UNCHANGED vars
    <3>1. facts' = facts /\ executionTime' = executionTime /\ pc' = pc
      BY <2>10 DEF vars, world
    <3> QED BY <2>1, <3>1
  <2> QED BY <2>2, <2>3, <2>4, <2>5, <2>6, <2>7, <2>8, <2>9, <2>10 DEF Next, LibraryStep
<1> QED BY <1>4, <1>5, <1>6, <1>7 DEF Kept

\* A snapshot holds the facts of the authorizer, and its time only if it has one.
LEMMA SnapshotHolds ==
    ASSUME Kept, TakeSnapshot
    PROVE  /\ StoredEntries' = facts
           /\ RecordedTime(stored'.executionTime) # None => executionTime # None
<1> DEFINE wire(e) == [origins |-> ProtoOrigin(e.origin), fact |-> e.fact]
           back(g) == [origin |-> TokenOrigin(g.origins), fact |-> g.fact]
<1>1. stored'.generated = {wire(e) : e \in facts}
      /\ stored'.executionTime = IF executionTime = None THEN 0 ELSE executionTime
  BY DEF TakeSnapshot
<1>2. StoredEntries' = {back(g) : g \in stored'.generated}
  BY DEF StoredEntries
<1>3. \A e \in facts : back(wire(e)) = e
  BY OriginRoundTrip DEF Kept, WorldOK
<1>4. StoredEntries' = facts
  <2> HIDE DEF wire, back
  <2> QED BY <1>1, <1>2, <1>3
<1>5. RecordedTime(0) = None
  BY DEF RecordedTime
<1> QED BY <1>1, <1>4, <1>5

LEMMA KeptByTakeSnapshot == Kept /\ TakeSnapshot => Kept'
<1> SUFFICES ASSUME Kept, TakeSnapshot PROVE Kept'
  OBVIOUS
<1>1. UNCHANGED <<token, content, limits, rules, facts, executionTime, pc, original>>
  BY DEF TakeSnapshot, vars, built, world
<1>2. CallsExterns' = CallsExterns
  BY <1>1 DEF CallsExterns
<1>3. OriginalOK' /\ WorldOK' /\ TimesOK'
  BY <1>1, <1>2 DEF Kept, OriginalOK, WorldOK, TimesOK, FromOriginal, Closed
<1>4. stored'.blocks = token /\ stored'.content = content /\ stored'.limits = limits
  BY DEF TakeSnapshot
<1>5. RulesRead' = RestoredRules(RestoredBlocks(token), RestoredContent(content))
  BY <1>4 DEF RulesRead
<1>6. Closed(rules, facts) => Closed(RulesRead', facts)
  BY <1>5, ReadIsClosed DEF Kept, WorldOK, FromOriginal, Reduced
<1>7. RecordedTime(stored'.executionTime) # None => Closed(RulesRead', facts)
  BY <1>6, SnapshotHolds DEF Kept, TimesOK
<1>8. StoredOK'
  BY <1>1, <1>2, <1>4, <1>7, SnapshotHolds DEF Kept, WorldOK, StoredOK, FromOriginal, Closed
<1> QED BY <1>3, <1>8 DEF Kept

\* A restored world: reduced once more, with the facts of the snapshot.
LEMMA RestoredWorld ==
    ASSUME Kept, Restore
    PROVE  /\ UNCHANGED <<pc, stored, original>>
           /\ FromOriginal(token', content')
           /\ rules' = RulesRead /\ limits' = stored.limits
           /\ rules' = RestoredRules(token', content')
           /\ facts' = StoredEntries
           /\ LoadedFacts(token', content') \subseteq facts'
<1>1. /\ UNCHANGED <<pc, stored, original>>
      /\ token' = RestoredBlocks(stored.blocks) /\ content' = RestoredContent(stored.content)
      /\ rules' = RestoredRules(token', content') /\ limits' = stored.limits
      /\ facts' = LoadedFacts(token', content') \cup StoredEntries
      /\ stored # None
  BY DEF Restore, StoredFacts, StoredEntries
<1>2. FromOriginal(stored.blocks, stored.content)
      /\ LoadedFacts(stored.blocks, stored.content) \subseteq StoredEntries
  BY <1>1 DEF Kept, StoredOK
<1>3. Reduced(token', content', stored.blocks, stored.content)
  BY <1>1, <1>2, RestoredReduced DEF FromOriginal, Reduced
<1>4. Reduced(token', content', original.token, original.content)
  BY <1>2, <1>3, ReducedTransitive DEF FromOriginal
<1>5. ~CallsExterns => token' = original.token /\ content' = original.content
  BY <1>1, <1>2 DEF FromOriginal, CallsExterns
<1>6. LoadedFacts(token', content') = LoadedFacts(stored.blocks, stored.content)
  BY <1>3, ReducedLoads
<1> QED BY <1>1, <1>2, <1>4, <1>5, <1>6 DEF FromOriginal, RulesRead

LEMMA KeptByRestore == Kept /\ Restore => Kept'
<1> SUFFICES ASSUME Kept, Restore PROVE Kept'
  OBVIOUS
<1> USE RestoredWorld
<1>1. CallsExterns' = CallsExterns
  BY DEF CallsExterns
<1>2. OriginalOK'
  BY DEF Kept, OriginalOK
<1>3. \A e \in facts' : e = [origin |-> e.origin, fact |-> e.fact]
  BY DEF StoredEntries
<1>4. WorldOK'
  BY <1>1, <1>3 DEF WorldOK, FromOriginal
<1>5. TimesOK'
  <2>1. pc' = "idle" /\ executionTime' = RecordedTime(stored.executionTime) /\ stored # None
    BY DEF Restore
  <2>2. executionTime' # None => Closed(rules', facts')
    BY <2>1 DEF Kept, StoredOK
  <2> QED BY <1>1, <2>1, <2>2 DEF TimesOK, Closed
<1>6. StoredOK'
  <2>1. stored.limits = limits'
    OBVIOUS
  <2> QED BY <1>1, <2>1 DEF Kept, StoredOK, FromOriginal, Closed, StoredEntries, RulesRead
<1> QED BY <1>2, <1>4, <1>5, <1>6 DEF Kept

LEMMA KeptNext == Kept /\ [SnapshotNext]_<<vars, snapshotVars>> => Kept'
<1> SUFFICES ASSUME Kept, [SnapshotNext]_<<vars, snapshotVars>> PROVE Kept'
  OBVIOUS
<1>1. CASE RestoreFails
  <2>1. UNCHANGED <<vars, stored, original>>
    BY <1>1 DEF RestoreFails
  <2> QED BY <2>1 DEF Kept, OriginalOK, WorldOK, TimesOK, StoredOK, FromOriginal, Closed,
                      StoredEntries, RulesRead, CallsExterns, vars, built, world
<1> QED BY <1>1, KeptByTakeSnapshot, KeptByRestore, KeptByCalls DEF SnapshotNext

LEMMA KeptInvariant == SnapshotSpec => []Kept
BY KeptInit, KeptNext, PTL DEF SnapshotSpec

-----------------------------------------------------------------------------
\* An authorizer with a recorded time has every fact its rules yield, and none
\* of them fails, also when time, facts and rules were read from a snapshot.
THEOREM RestoredCompleteness == SnapshotSpec => []RestoredIsComplete
<1>1. Kept => RestoredIsComplete
  BY DEF Kept, TimesOK, Closed, RestoredIsComplete, NewFacts
<1> QED BY <1>1, KeptInvariant, PTL

\* A restoration changes neither rules, facts nor limits, unless a rule trusts
\* the key of a later block or calls a function of the program.
THEOREM RestoreIsIdentity == SnapshotSpec => RestoreIsTransparent
<1>1. Kept => (/\ Restore
               /\ {[origin |-> TokenOrigin(g.origins), fact |-> g.fact] :
                       g \in stored.generated} = facts
               /\ ~TrustsLaterKey
               /\ ~CallsExterns
               => UNCHANGED <<token, content, limits, rules, facts>>)
  <2> SUFFICES ASSUME Kept, Restore, StoredEntries = facts, ~TrustsLaterKey, ~CallsExterns
               PROVE  UNCHANGED <<token, content, limits, rules, facts>>
    BY DEF StoredEntries
  <2>1. /\ token = original.token /\ content = original.content
        /\ token' = original.token /\ content' = original.content
    BY RestoredWorld DEF Kept, WorldOK, FromOriginal
  <2>2. facts' = facts
    BY RestoredWorld
  <2>3. limits' = limits
    BY RestoredWorld DEF Kept, StoredOK, Restore
  <2>4. rules' = LoadedRules(original.token, original.content)
        /\ rules = LoadedRules(original.token, original.content)
    <3>1. RestoredRules(original.token, original.content)
             = LoadedRules(original.token, original.content)
      BY NoLaterKey DEF Kept, OriginalOK
    <3> QED BY <2>1, <3>1, RestoredWorld DEF Kept, WorldOK
  <2> QED BY <2>1, <2>2, <2>3, <2>4
<1> QED BY <1>1, KeptInvariant, PTL DEF RestoreIsTransparent

\* What was loaded first and is closed under the rules loaded first contains
\* every fact of the authorizer, and of the snapshot.
OnlyOriginal ==
    \A closed :
        LoadedFacts(original.token, original.content) \subseteq closed
            /\ Derived(LoadedRules(original.token, original.content), closed)
                  \subseteq closed
            => facts \subseteq closed /\ (stored # None => StoredEntries \subseteq closed)

LEMMA WorldIsWeaker ==
    ASSUME Kept
    PROVE  AllWeaker(rules, LoadedRules(original.token, original.content))
<1>1. AllWeaker(LoadedRules(token, content), LoadedRules(original.token, original.content))
  BY ReducedWeaker DEF Kept, WorldOK, FromOriginal
<1>2. AllWeaker(RestoredRules(token, content), LoadedRules(token, content))
  BY RestoredWeaker DEF Kept, WorldOK, FromOriginal, Reduced
<1>3. AllWeaker(RestoredRules(token, content), LoadedRules(original.token, original.content))
  BY <1>1, <1>2, WeakerTransitive
<1> QED BY <1>1, <1>3 DEF Kept, WorldOK

\* No sequence of calls, interrupted runs, snapshots and restorations makes a
\* fact appear that the rules and facts loaded first do not entail.
THEOREM RestoredSoundness == SnapshotSpec => []OnlyOriginal
<1>1. SnapshotInit => OnlyOriginal
  BY DEF SnapshotInit, Init, OnlyOriginal
<1>2. Kept /\ OnlyOriginal /\ [SnapshotNext]_<<vars, snapshotVars>> => OnlyOriginal'
  <2> SUFFICES ASSUME Kept, OnlyOriginal, [SnapshotNext]_<<vars, snapshotVars>>,
                      NEW closed,
                      (LoadedFacts(original.token, original.content) \subseteq closed)',
                      (Derived(LoadedRules(original.token, original.content), closed)
                          \subseteq closed)'
               PROVE  facts' \subseteq closed /\ (stored' # None => StoredEntries' \subseteq closed)
    BY DEF OnlyOriginal
  <2>1. original' = original
    BY DEF SnapshotNext, TakeSnapshot, Restore, RestoreFails, snapshotVars
  <2>2. /\ Derived(LoadedRules(original.token, original.content), closed) \subseteq closed
        /\ facts \subseteq closed /\ (stored # None => StoredEntries \subseteq closed)
    BY <2>1 DEF OnlyOriginal
  <2>3. Derived(rules, facts) \subseteq closed
    <3>1. Derived(rules, facts) \subseteq Derived(rules, closed)
      BY <2>2, DerivedMonotone
    <3> QED BY <2>2, <3>1, WorldIsWeaker, WeakerDerives
  <2>4. CASE TakeSnapshot
    BY <2>2, <2>4, SnapshotHolds DEF TakeSnapshot, vars, world
  <2>5. CASE Restore
    <3>1. stored' = stored /\ StoredEntries' = StoredEntries /\ facts' = StoredEntries
          /\ stored # None
      BY <2>5, RestoredWorld DEF StoredEntries, Restore
    <3> QED BY <2>2, <3>1
  <2>6. CASE UNCHANGED <<vars, stored>>
    BY <2>2, <2>6 DEF vars, world, StoredEntries
  <2>7. CASE [Next]_vars /\ UNCHANGED snapshotVars
    <3>1. facts' = facts \/ facts' = facts \cup Derived(rules, facts)
      BY <2>7, FactsChange DEF RunIterates
    <3>2. stored' = stored /\ StoredEntries' = StoredEntries
      BY <2>7 DEF snapshotVars, StoredEntries
    <3> QED BY <2>2, <2>3, <3>1, <3>2
  <2> QED BY <2>4, <2>5, <2>6, <2>7 DEF SnapshotNext, RestoreFails
<1> QED BY <1>1, <1>2, KeptInvariant, PTL DEF SnapshotSpec

\* Nothing that the authorizer built first would not derive appears, under any
\* origin, however often it is stopped, saved and restored.
THEOREM RestoredWithinModel == SnapshotSpec => []SnapshotsAddNothing
<1>1. Kept /\ OnlyOriginal => SnapshotsAddNothing
  <2> SUFFICES ASSUME Kept, OnlyOriginal
               PROVE  facts \subseteq WholeModel(original.token, original.content)
    BY DEF SnapshotsAddNothing, WholeModel
  <2>1. original.token \in Tokens /\ original.content \in Contents
    BY DEF Kept, OriginalOK
  <2> QED BY <2>1, WholeModelIsLeast DEF OnlyOriginal
<1> QED BY <1>1, KeptInvariant, RestoredSoundness, PTL

-----------------------------------------------------------------------------
(* Decisions and answers of a restored authorizer.                             *)

\* Neither of the two exceptions: the authorizer is restored as it was built.
Whole == ~TrustsLaterKey /\ ~CallsExterns

\* Checks, policies and queries are then evaluated on the whole model.
LEMMA KeptIsComplete == Kept /\ OnlyOriginal /\ Whole => Complete
<1> SUFFICES ASSUME Kept, OnlyOriginal, Whole PROVE Complete
  OBVIOUS
<1>1. token = original.token /\ content = original.content
  BY DEF Kept, WorldOK, FromOriginal, Whole
<1>2. token \in Tokens /\ content \in Contents
  BY <1>1 DEF Kept, OriginalOK
<1>3. rules = LoadedRules(token, content)
  <2>1. RestoredRules(original.token, content) = LoadedRules(original.token, content)
    BY NoLaterKey DEF Kept, OriginalOK, Whole
  <2> QED BY <1>1, <2>1 DEF Kept, WorldOK
<1>4. ASSUME pc \in {"deciding", "querying"}
      PROVE  facts = WholeModel(token, content)
  <2>1. Derived(rules, facts) \subseteq facts /\ LoadedFacts(token, content) \subseteq facts
    BY <1>4 DEF Kept, WorldOK, TimesOK, Closed
  <2>2. facts \subseteq WholeModel(token, content)
    BY <1>1, <1>2, WholeModelIsLeast DEF OnlyOriginal
  <2> QED BY <1>2, <1>3, <2>1, <2>2, WholeModelIsLeast
<1> QED BY <1>2, <1>4 DEF Complete

\* What is decided or answered, and how far a decision has come.
Right == Progress /\ Faithful /\ AnswerJustified

LEMMA RightNext ==
    Kept /\ OnlyOriginal /\ (Whole => Right) /\ [SnapshotNext]_<<vars, snapshotVars>>
        => (Whole => Right)'
<1> SUFFICES ASSUME Kept, OnlyOriginal, Whole => Right, [SnapshotNext]_<<vars, snapshotVars>>,
                    Whole'
             PROVE  Right'
  OBVIOUS
<1>1. original' = original
  BY DEF SnapshotNext, TakeSnapshot, Restore, RestoreFails, snapshotVars
<1>2. Whole
  BY <1>1 DEF Whole, TrustsLaterKey, CallsExterns
<1>3. Complete
  BY <1>2, KeptIsComplete
<1>4. CASE [Next]_vars
  BY <1>2, <1>3, <1>4, ProgressStep, FaithfulStep, AnswerStep DEF Right
<1>5. CASE UNCHANGED vars
  BY <1>4, <1>5
<1>6. CASE Restore
  <2>1. pc' = "idle" /\ result' = NoResult
    BY <1>6 DEF Restore
  <2>2. result'.status = "none"
    BY <2>1 DEF NoResult
  <2> QED BY <2>1, <2>2 DEF Right, Progress, Faithful, AnswerJustified, Decided
<1> QED BY <1>4, <1>5, <1>6 DEF SnapshotNext, TakeSnapshot, RestoreFails

\* The decisions and answers of a restored authorizer are those of the model of
\* the blocks that each check, policy or query trusts, as before the snapshot,
\* unless a rule trusts the key of a later block or a function is missing.
THEOREM RestoredDecisions == SnapshotSpec => []RestoredIsJustified
<1>1. SnapshotInit => (Whole => Right)
  BY DEF SnapshotInit, Init, Right, Progress, Faithful, AnswerJustified, NoResult, Decided
<1>2. (Whole => Right) => RestoredIsJustified
  BY DEF Whole, Right, Faithful, RestoredIsJustified, DecisionJustified
<1> QED BY <1>1, <1>2, RightNext, KeptInvariant, RestoredSoundness, PTL DEF SnapshotSpec
==============================================================================
