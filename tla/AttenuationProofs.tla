-------------------------- MODULE AttenuationProofs --------------------------
(* Appending a block can only restrict: a theorem of Attenuation for every     *)
(* token, every block that is appended and every content of the authorizer.    *)
EXTENDS Attenuation, AuthorizerProofs

-----------------------------------------------------------------------------
(* A token with one more block.                                                *)

\* The keys that the content, or a block of the token, trusts by name.
Named(tk, c) ==
    {s.key : s \in ContentScopes(c) \cup UNION {BlockScopes(tk[i]) : i \in 1..Len(tk)}}

\* Scopes that name such keys only.
NamedScopes(tk, c, scopes) ==
    scopes \in SUBSET Scope /\ \A s \in scopes : s.key \in Named(tk, c)

\* A token, and the same with a block of a signer that it does not name.
Appends(old, c, tk) ==
    /\ old \in Tokens /\ tk \in Tokens /\ c \in Contents
    /\ old # << >>
    /\ Len(tk) = Len(old) + 1
    /\ \A i \in 1..Len(old) : tk[i] = old[i]
    /\ tk[Len(tk)].key \notin Named(old, c) \ {NoKey}

LEMMA AppendsType ==
    ASSUME NEW old, NEW c, NEW tk, Appends(old, c, tk)
    PROVE  /\ old \in Seq(Block) /\ tk \in Seq(Block) /\ c \in Content
           /\ Len(old) \in Nat \ {0} /\ Len(tk) = Len(old) + 1
           /\ BlockIds(old) = 0..(Len(old) - 1)
           /\ Ids(old) = 0..(Len(old) - 1) \cup {AuthorizerId}
           /\ \A i \in BlockIds(old) : tk[i + 1] = old[i + 1] /\ old[i + 1] \in Block
           /\ Ids(tk) = Ids(old) \cup {Len(old)}
<1>1. old \in Seq(Block) /\ tk \in Seq(Block) /\ c \in Content
  BY ProgramAssumption DEF Appends
<1>2. Len(old) \in Nat \ {0} /\ Len(tk) = Len(old) + 1
  BY <1>1 DEF Appends
<1>3. BlockIds(old) = 0..(Len(old) - 1) /\ BlockIds(tk) = 0..(Len(tk) - 1)
  BY DEF BlockIds
<1>4. ASSUME NEW i \in BlockIds(old)
      PROVE  tk[i + 1] = old[i + 1] /\ old[i + 1] \in Block
  <2>1. i + 1 \in 1..Len(old)
    BY <1>2, <1>3
  <2> QED BY <1>1, <2>1 DEF Appends
<1>5. Ids(tk) = Ids(old) \cup {Len(old)}
  BY <1>2, <1>3 DEF Ids
<1> QED BY <1>1, <1>2, <1>3, <1>4, <1>5 DEF Ids

\* The block is not among those of a key that was named before.
LEMMA SameKeyBlocks ==
    ASSUME NEW old, NEW c, NEW tk, Appends(old, c, tk),
           NEW k \in Keys, k \in Named(old, c)
    PROVE  KeyBlocks(tk)[k] = KeyBlocks(old)[k]
<1> USE AppendsType
<1>1. tk[Len(old) + 1].key # k
  BY KeyAssumption DEF Appends
<1>2. /\ KeyBlocks(tk)[k] = {i \in 1..Len(old) : tk[i + 1].key = k}
      /\ KeyBlocks(old)[k] = {i \in 1..(Len(old) - 1) : old[i + 1].key = k}
  BY DEF KeyBlocks
<1>3. ASSUME NEW i \in 1..(Len(old) - 1)
      PROVE  tk[i + 1] = old[i + 1]
  <2>1. i \in BlockIds(old)
    OBVIOUS
  <2> QED BY <2>1
<1>4. ASSUME NEW i \in 1..Len(old), tk[i + 1].key = k
      PROVE  i \in 1..(Len(old) - 1)
  BY <1>1, <1>4
<1> QED BY <1>2, <1>3, <1>4

\* Scopes that were there before trust the blocks they trusted.
LEMMA SameTrust ==
    ASSUME NEW old, NEW c, NEW tk, Appends(old, c, tk),
           NEW scopes, NamedScopes(old, c, scopes),
           NEW default \in SUBSET Ids(old), NEW current \in Ids(old)
    PROVE  /\ FromScopes(scopes, default, current, KeyBlocks(tk))
                 = FromScopes(scopes, default, current, KeyBlocks(old))
           /\ FromScopes(scopes, default, current, KeyBlocks(old)) \in SUBSET Ids(old)
<1> USE DEF NamedScopes
<1>1. ASSUME NEW s \in scopes, s.kind = "key"
      PROVE  s.key \in Keys /\ KeyBlocks(tk)[s.key] = KeyBlocks(old)[s.key]
  BY <1>1, SameKeyBlocks DEF Scope
<1>2. KeyBlocks(tk) \in Numbering /\ KeyBlocks(old) \in Numbering
  BY KeyBlocksType DEF Numbering
<1>3. FromScopes(scopes, default, current, KeyBlocks(tk))
         = FromScopes(scopes, default, current, KeyBlocks(old))
  BY <1>1, <1>2, FromScopesAgree
<1>4. ASSUME NEW s \in scopes
      PROVE  ScopeOrigins(s, current, KeyBlocks(old)) \subseteq Ids(old)
  <2>1. CASE s.kind = "authority"
    BY <2>1, AppendsType DEF ScopeOrigins
  <2>2. CASE s.kind = "previous"
    BY <2>2, AppendsType, AuthorizerAssumption DEF ScopeOrigins
  <2>3. CASE s.kind = "key"
    <3>1. KeyBlocks(old)[s.key] \subseteq 1..(Len(old) - 1)
      BY <1>1, <2>3 DEF KeyBlocks
    <3>2. 1..(Len(old) - 1) \subseteq Ids(old)
      BY AppendsType
    <3> QED BY <2>3, <3>1, <3>2 DEF ScopeOrigins
  <2> QED BY <2>1, <2>2, <2>3 DEF Scope
<1>5. AuthorizerId \in Ids(old)
  BY DEF Ids
<1> QED BY <1>3, <1>4, <1>5 DEF FromScopes

\* The scopes of the queries of checks or policies.
LEMMA QueryScopes ==
    ASSUME NEW kinds, NEW items \in Seq([kind: kinds, queries: Seq(Rule)]),
           NEW i \in DOMAIN items, NEW q \in DOMAIN items[i].queries
    PROVE  items[i].queries[q].scopes \in SUBSET Scope
<1>1. items[i] \in [kind: kinds, queries: Seq(Rule)]
  BY ElementOf
<1>2. items[i].queries[q] \in Rule
  BY <1>1, ElementOf
<1> QED BY <1>2 DEF Rule

\* The scopes of an owner, its rules and its queries are named.
LEMMA ContentIsNamed ==
    ASSUME NEW old, NEW c \in Content
    PROVE  /\ NamedScopes(old, c, c.scopes)
           /\ \A r \in c.rules : NamedScopes(old, c, r.scopes)
           /\ \A i \in DOMAIN c.checks : \A q \in DOMAIN c.checks[i].queries :
                 NamedScopes(old, c, c.checks[i].queries[q].scopes)
           /\ \A i \in DOMAIN c.policies : \A q \in DOMAIN c.policies[i].queries :
                 NamedScopes(old, c, c.policies[i].queries[q].scopes)
<1>1. /\ c.scopes \in SUBSET Scope
      /\ \A r \in c.rules : r.scopes \in SUBSET Scope
  BY DEF Content, Rule
<1>2. \A i \in DOMAIN c.checks : \A q \in DOMAIN c.checks[i].queries :
         c.checks[i].queries[q].scopes \in SUBSET Scope
  BY QueryScopes DEF Content, Check
<1>3. \A i \in DOMAIN c.policies : \A q \in DOMAIN c.policies[i].queries :
         c.policies[i].queries[q].scopes \in SUBSET Scope
  BY QueryScopes DEF Content, Policy
<1>4. ASSUME NEW scopes \in SUBSET Scope, scopes \subseteq ContentScopes(c)
      PROVE  NamedScopes(old, c, scopes)
  BY <1>4 DEF NamedScopes, Named
<1>5. /\ c.scopes \subseteq ContentScopes(c)
      /\ \A r \in c.rules : r.scopes \subseteq ContentScopes(c)
      /\ \A i \in DOMAIN c.checks : \A q \in DOMAIN c.checks[i].queries :
            c.checks[i].queries[q].scopes \subseteq ContentScopes(c)
      /\ \A i \in DOMAIN c.policies : \A q \in DOMAIN c.policies[i].queries :
            c.policies[i].queries[q].scopes \subseteq ContentScopes(c)
  BY DEF ContentScopes, BlockScopes, QueriesOf
<1> QED BY <1>1, <1>2, <1>3, <1>4, <1>5

LEMMA BlockIsNamed ==
    ASSUME NEW old \in Seq(Block), NEW c, NEW b \in 1..Len(old)
    PROVE  /\ NamedScopes(old, c, old[b].scopes)
           /\ \A r \in old[b].rules : NamedScopes(old, c, r.scopes)
           /\ \A i \in DOMAIN old[b].checks : \A q \in DOMAIN old[b].checks[i].queries :
                 NamedScopes(old, c, old[b].checks[i].queries[q].scopes)
<1>1. old[b] \in Block
  OBVIOUS
<1>2. old[b].scopes \in SUBSET Scope /\ \A r \in old[b].rules : r.scopes \in SUBSET Scope
  BY <1>1 DEF Block, Rule
<1>3. \A i \in DOMAIN old[b].checks : \A q \in DOMAIN old[b].checks[i].queries :
         old[b].checks[i].queries[q].scopes \in SUBSET Scope
  <2>1. old[b].checks \in Seq([kind: {"one", "all", "reject"}, queries: Seq(Rule)])
    BY <1>1 DEF Block, Check
  <2> QED BY <2>1, QueryScopes
<1>4. ASSUME NEW scopes \in SUBSET Scope, scopes \subseteq BlockScopes(old[b])
      PROVE  NamedScopes(old, c, scopes)
  BY <1>4 DEF NamedScopes, Named
<1>5. /\ old[b].scopes \subseteq BlockScopes(old[b])
      /\ \A r \in old[b].rules : r.scopes \subseteq BlockScopes(old[b])
      /\ \A i \in DOMAIN old[b].checks : \A q \in DOMAIN old[b].checks[i].queries :
            old[b].checks[i].queries[q].scopes \subseteq BlockScopes(old[b])
  BY DEF BlockScopes, QueriesOf
<1> QED BY <1>2, <1>3, <1>4, <1>5

\* The authorizer and the blocks that were there trust what they trusted.
LEMMA SameOwnerTrust ==
    ASSUME NEW old, NEW c, NEW tk, Appends(old, c, tk)
    PROVE  /\ ContentTrust(tk, c) = ContentTrust(old, c)
           /\ ContentTrust(old, c) \in SUBSET Ids(old)
           /\ \A i \in BlockIds(old) :
                 BlockTrust(tk, i) = BlockTrust(old, i) /\ BlockTrust(old, i) \in SUBSET Ids(old)
<1>1. DefaultOrigins \in SUBSET Ids(old) /\ AuthorizerId \in Ids(old)
  BY AppendsType DEF DefaultOrigins
<1>2. NamedScopes(old, c, c.scopes)
  BY AppendsType, ContentIsNamed
<1>3. ContentTrust(tk, c) = ContentTrust(old, c) /\ ContentTrust(old, c) \in SUBSET Ids(old)
  BY <1>1, <1>2, SameTrust DEF ContentTrust
<1>4. ASSUME NEW i \in BlockIds(old)
      PROVE  BlockTrust(tk, i) = BlockTrust(old, i) /\ BlockTrust(old, i) \in SUBSET Ids(old)
  <2>1. i + 1 \in 1..Len(old) /\ old \in Seq(Block) /\ i \in Ids(old) /\ tk[i + 1] = old[i + 1]
    BY AppendsType
  <2>2. NamedScopes(old, c, old[i + 1].scopes)
    BY <2>1, BlockIsNamed
  <2> DEFINE trust(keys) == FromScopes(old[i + 1].scopes, DefaultOrigins, i, keys)
  <2>3. trust(KeyBlocks(tk)) = trust(KeyBlocks(old)) /\ trust(KeyBlocks(old)) \in SUBSET Ids(old)
    BY <1>1, <2>1, <2>2, SameTrust
  <2> QED BY <2>1, <2>3 DEF BlockTrust
<1> QED BY <1>3, <1>4

\* Their rules are loaded as they were ...
LEMMA SameRules ==
    ASSUME NEW old, NEW c, NEW tk, Appends(old, c, tk)
    PROVE  /\ \A r \in c.rules :
                 LoadRule(tk, r, ContentTrust(tk, c), AuthorizerId)
                    = LoadRule(old, r, ContentTrust(old, c), AuthorizerId)
           /\ \A i \in BlockIds(old) : \A r \in old[i + 1].rules :
                 LoadRule(tk, r, BlockTrust(tk, i), i) = LoadRule(old, r, BlockTrust(old, i), i)
<1>1. ASSUME NEW r \in c.rules
      PROVE  LoadRule(tk, r, ContentTrust(tk, c), AuthorizerId)
                = LoadRule(old, r, ContentTrust(old, c), AuthorizerId)
  <2>1. NamedScopes(old, c, r.scopes)
    BY AppendsType, ContentIsNamed
  <2>2. AuthorizerId \in Ids(old)
    BY AppendsType
  <2> QED BY <2>1, <2>2, SameOwnerTrust, SameTrust DEF LoadRule, RuleTrust
<1>2. ASSUME NEW i \in BlockIds(old), NEW r \in old[i + 1].rules
      PROVE  LoadRule(tk, r, BlockTrust(tk, i), i) = LoadRule(old, r, BlockTrust(old, i), i)
  <2>1. i + 1 \in 1..Len(old) /\ old \in Seq(Block) /\ i \in Ids(old)
    BY AppendsType
  <2>2. NamedScopes(old, c, r.scopes)
    BY <2>1, BlockIsNamed
  <2>3. BlockTrust(tk, i) = BlockTrust(old, i) /\ BlockTrust(old, i) \in SUBSET Ids(old)
    BY SameOwnerTrust
  <2> QED BY <2>1, <2>2, <2>3, SameTrust DEF LoadRule, RuleTrust
<1> QED BY <1>1, <1>2

\* ... so that any group of them has the rules and facts that it had ...
LEMMA SameLoaded ==
    ASSUME NEW old, NEW c, NEW tk, Appends(old, c, tk), NEW group \in SUBSET Ids(old)
    PROVE  /\ {r \in LoadedRules(tk, c) : r.origin \in group}
                 = {r \in LoadedRules(old, c) : r.origin \in group}
           /\ {e \in LoadedFacts(tk, c) : e.origin \subseteq group}
                 = {e \in LoadedFacts(old, c) : e.origin \subseteq group}
<1> DEFINE new == Len(old)
<1>1. BlockIds(tk) = BlockIds(old) \cup {new} /\ new \notin group
  BY AppendsType, AuthorizerAssumption DEF BlockIds
<1>2. \A w : w \in LoadedRules(tk, c) /\ w.origin \in group
                <=> w \in LoadedRules(old, c) /\ w.origin \in group
  <2>1. ASSUME NEW w
        PROVE  /\ w \in LoadedRules(tk, c) <=>
                     \/ \E r \in c.rules : w = LoadRule(tk, r, ContentTrust(tk, c), AuthorizerId)
                     \/ \E i \in BlockIds(tk) : \E r \in tk[i + 1].rules :
                           w = LoadRule(tk, r, BlockTrust(tk, i), i)
               /\ w \in LoadedRules(old, c) <=>
                     \/ \E r \in c.rules : w = LoadRule(old, r, ContentTrust(old, c), AuthorizerId)
                     \/ \E i \in BlockIds(old) : \E r \in old[i + 1].rules :
                           w = LoadRule(old, r, BlockTrust(old, i), i)
    BY DEF LoadedRules
  <2>2. \A r : LoadRule(tk, r, BlockTrust(tk, new), new).origin = new
    BY DEF LoadRule
  <2>3. \A i \in BlockIds(old) : tk[i + 1] = old[i + 1]
    BY AppendsType
  <2> HIDE DEF new
  <2> QED BY <1>1, <2>1, <2>2, <2>3, SameRules
<1>3. \A e : e \in LoadedFacts(tk, c) /\ e.origin \subseteq group
                <=> e \in LoadedFacts(old, c) /\ e.origin \subseteq group
  <2>1. \A e : /\ e \in LoadedFacts(tk, c) <=>
                     \/ e \in [origin: {{AuthorizerId}}, fact: c.facts]
                     \/ \E i \in BlockIds(tk) : e \in [origin: {{i}}, fact: tk[i + 1].facts]
               /\ e \in LoadedFacts(old, c) <=>
                     \/ e \in [origin: {{AuthorizerId}}, fact: c.facts]
                     \/ \E i \in BlockIds(old) : e \in [origin: {{i}}, fact: old[i + 1].facts]
    BY DEF LoadedFacts
  <2>2. \A i \in BlockIds(old) : tk[i + 1] = old[i + 1]
    BY AppendsType
  <2>3. \A e \in [origin: {{new}}, fact: tk[new + 1].facts] : ~(e.origin \subseteq group)
    BY <1>1
  <2> HIDE DEF new
  <2> QED BY <1>1, <2>1, <2>2, <2>3
<1> QED BY <1>2, <1>3

\* ... and derives on its own what it derived.
LEMMA SameModel ==
    ASSUME NEW old, NEW c, NEW tk, Appends(old, c, tk), NEW group \in SUBSET Ids(old)
    PROVE  ModelOf(tk, c, group) = ModelOf(old, c, group)
<1> DEFINE rs == {r \in LoadedRules(old, c) : r.origin \in group}
           loaded == {e \in LoadedFacts(old, c) : e.origin \subseteq group}
<1>1. ModelOf(tk, c, group) = LeastModel(tk, rs, loaded)
      /\ ModelOf(old, c, group) = LeastModel(old, rs, loaded)
  <2>1. /\ {r \in LoadedRules(tk, c) : r.origin \in group} = rs
        /\ {e \in LoadedFacts(tk, c) : e.origin \subseteq group} = loaded
    BY SameLoaded
  <2>2. ModelOf(tk, c, group)
           = LeastModel(tk, {r \in LoadedRules(tk, c) : r.origin \in group},
                            {e \in LoadedFacts(tk, c) : e.origin \subseteq group})
    BY DEF ModelOf
  <2>3. ModelOf(old, c, group) = LeastModel(old, rs, loaded)
    BY DEF ModelOf
  <2> HIDE DEF rs, loaded
  <2> QED BY <2>1, <2>2, <2>3
<1>2. old \in Seq(Block) /\ tk \in Seq(Block) /\ Ids(old) \subseteq Ids(tk)
  BY AppendsType
<1>3. rs \in SUBSET RulesOfToken(old) /\ loaded \in SUBSET Universe(old)
  BY LoadedInUniverse DEF Appends
<1>4. rs \in SUBSET RulesOfToken(tk) /\ loaded \in SUBSET Universe(tk)
  <2>1. RulesOfToken(old) \subseteq RulesOfToken(tk)
    BY <1>2 DEF RulesOfToken
  <2>2. Universe(old) \subseteq Universe(tk)
    BY <1>2 DEF Universe
  <2> QED BY <1>3, <2>1, <2>2
<1> HIDE DEF rs, loaded
<1>5. LeastModel(tk, rs, loaded) \subseteq LeastModel(old, rs, loaded)
  <2>1. loaded \subseteq LeastModel(old, rs, loaded)
        /\ Derived(rs, LeastModel(old, rs, loaded)) \subseteq LeastModel(old, rs, loaded)
    BY <1>2, <1>3, ModelIsLeast
  <2> QED BY <1>2, <1>4, <2>1, ModelIsLeast
<1>6. LeastModel(old, rs, loaded) \subseteq LeastModel(tk, rs, loaded)
  <2>1. loaded \subseteq LeastModel(tk, rs, loaded)
        /\ Derived(rs, LeastModel(tk, rs, loaded)) \subseteq LeastModel(tk, rs, loaded)
    BY <1>2, <1>4, ModelIsLeast
  <2> QED BY <1>2, <1>3, <2>1, ModelIsLeast
<1>7. LeastModel(tk, rs, loaded) = LeastModel(old, rs, loaded)
  BY <1>5, <1>6
<1> QED BY <1>1, <1>7

-----------------------------------------------------------------------------
(* What checks and policies find.                                              *)

\* The stages of the longer token are those of the other, and that of its last
\* block.
LEMMA SameStages ==
    ASSUME NEW old, NEW c, NEW tk, Appends(old, c, tk)
    PROVE  /\ CheckStages(tk) = CheckStages(old) \cup {Len(old) + 2}
           /\ StageOwner(Len(old) + 2) = Len(old)
           /\ StageOwner(PolicyStage) = AuthorizerId
           /\ \A stage \in CheckStages(old) :
                 /\ StageItems(tk, c, stage) = StageItems(old, c, stage)
                 /\ StageOwner(stage) \in Ids(old)
<1> USE AppendsType DEF PolicyStage
<1>1. CheckStages(tk) = CheckStages(old) \cup {Len(old) + 2}
  <2>1. LastStage(tk) = Len(old) + 2
    BY DEF LastStage
  <2>2. LastStage(old) = IF Len(old) > 1 THEN Len(old) + 1 ELSE 2
    BY DEF LastStage
  <2>3. 0..LastStage(tk) = 0..(Len(old) + 1) \cup {Len(old) + 2} /\ Len(old) + 2 # 2
    BY <2>1
  <2>4. (0..LastStage(old)) \ {2} = (0..(Len(old) + 1)) \ {2}
    BY <2>2
  <2> QED BY <2>3, <2>4 DEF CheckStages
<1>2. StageOwner(Len(old) + 2) = Len(old) /\ StageOwner(2) = AuthorizerId
  BY DEF StageOwner
<1>3. ASSUME NEW stage \in CheckStages(old)
      PROVE  /\ StageItems(tk, c, stage) = StageItems(old, c, stage)
             /\ StageOwner(stage) \in Ids(old)
  <2>1. stage \in Nat /\ stage # 2 /\ (stage > 2 => stage <= Len(old) + 1)
    BY DEF CheckStages, LastStage
  <2>2. CASE stage = 0
    BY <2>2 DEF StageItems, StageOwner
  <2>3. CASE stage = 1
    <3>1. tk[1] = old[1] /\ tk # << >> /\ old # << >>
      BY DEF Appends
    <3> QED BY <2>3, <3>1 DEF StageItems, StageOwner
  <2>4. CASE stage > 2
    <3>1. stage - 1 \in 1..Len(old)
      BY <2>1, <2>4
    <3>2. tk[stage - 1] = old[stage - 1]
      BY <3>1 DEF Appends
    <3>3. stage - 2 \in Ids(old)
      BY <2>1, <2>4
    <3> QED BY <2>1, <2>4, <3>2, <3>3 DEF StageItems, StageOwner
  <2> QED BY <2>1, <2>2, <2>3, <2>4
<1> QED BY <1>1, <1>2, <1>3

\* A query that was there has the outcomes that it had.
LEMMA SameOutcomes ==
    ASSUME NEW old, NEW c, NEW tk, Appends(old, c, tk),
           NEW stage, StageOwner(stage) \in Ids(old), NEW item, NEW q,
           NamedScopes(old, c, q.scopes)
    PROVE  ModelOutcomes(tk, c, stage, item, q) = ModelOutcomes(old, c, stage, item, q)
<1> DEFINE owner == StageOwner(stage)
           default == OwnerTrust(old, c, owner)
           trust == RuleTrust(old, q, default, owner)
<1>1. OwnerTrust(tk, c, owner) = default /\ default \in SUBSET Ids(old)
  <2>1. owner # AuthorizerId => owner \in BlockIds(old)
    BY DEF Ids
  <2> QED BY <2>1, SameOwnerTrust DEF OwnerTrust
<1>2. owner \in Ids(old)
  OBVIOUS
<1> HIDE DEF default, owner
<1>3. RuleTrust(tk, q, default, owner) = trust /\ trust \in SUBSET Ids(old)
  BY <1>1, <1>2, SameTrust DEF RuleTrust
<1> HIDE DEF trust
<1>4. TrustedModel(tk, c, trust) = TrustedModel(old, c, trust)
  <2>1. trust \cap Ids(tk) = trust /\ trust \cap Ids(old) = trust
    BY <1>3, AppendsType
  <2> QED BY <1>3, <2>1, SameModel DEF TrustedModel
<1>5. ModelOutcomes(tk, c, stage, item, q)
         = QueryOutcomes(ItemKind(stage, item), q, trust, TrustedModel(tk, c, trust))
  BY <1>1, <1>3 DEF ModelOutcomes, owner
<1>6. ModelOutcomes(old, c, stage, item, q)
         = QueryOutcomes(ItemKind(stage, item), q, trust, TrustedModel(old, c, trust))
  BY DEF ModelOutcomes, owner, default, trust
<1> QED BY <1>4, <1>5, <1>6

\* So do the checks and policies that were there.
LEMMA SameVerdicts ==
    ASSUME NEW old, NEW c, NEW tk, Appends(old, c, tk),
           NEW stage \in CheckStages(old) \cup {PolicyStage},
           NEW i \in DOMAIN StageItems(old, c, stage)
    PROVE  LET item == StageItems(old, c, stage)[i]
           IN  /\ CanHold(tk, c, stage, item) <=> CanHold(old, c, stage, item)
               /\ CanMiss(tk, c, stage, item) <=> CanMiss(old, c, stage, item)
<1> DEFINE item == StageItems(old, c, stage)[i]
<1>1. StageOwner(stage) \in Ids(old)
  BY SameStages, AppendsType
<1>2. ASSUME NEW q \in DOMAIN item.queries
      PROVE  /\ NamedScopes(old, c, item.queries[q].scopes)
  <2>1. c \in Content /\ old \in Seq(Block) /\ stage \in Nat
    BY AppendsType DEF CheckStages, PolicyStage
  <2>2. CASE stage = 0
    <3>1. StageItems(old, c, stage) = c.checks
      BY <2>2 DEF StageItems, PolicyStage
    <3> QED BY <2>1, <3>1, ContentIsNamed
  <2>3. CASE stage = PolicyStage
    <3>1. StageItems(old, c, stage) = c.policies
      BY <2>3 DEF StageItems, PolicyStage
    <3> QED BY <2>1, <3>1, ContentIsNamed
  <2>4. CASE stage = 1
    <3>1. StageItems(old, c, stage) = old[1].checks /\ 1 \in 1..Len(old)
      BY <2>4, AppendsType DEF StageItems, PolicyStage, Appends
    <3> QED BY <2>1, <3>1, BlockIsNamed
  <2>5. CASE stage > 2
    <3>1. StageItems(old, c, stage) = old[stage - 1].checks
      BY <2>1, <2>5 DEF StageItems, PolicyStage
    <3>2. stage - 1 \in 1..Len(old)
      BY <2>1, <2>5, AppendsType DEF CheckStages, LastStage, PolicyStage
    <3> QED BY <2>1, <3>1, <3>2, BlockIsNamed
  <2> QED BY <2>1, <2>2, <2>3, <2>4, <2>5 DEF PolicyStage
<1> HIDE DEF item
<1>3. \A q \in DOMAIN item.queries :
         ModelOutcomes(tk, c, stage, item, item.queries[q])
            = ModelOutcomes(old, c, stage, item, item.queries[q])
  BY <1>1, <1>2, SameOutcomes
<1> QED BY <1>3 DEF CanHold, CanMiss, item

\* A query cannot both hold and miss, so neither can a check or a policy.
LEMMA OneVerdict ==
    ASSUME NEW tk \in Tokens, NEW c \in Contents,
           NEW stage \in CheckStages(tk) \cup {PolicyStage},
           NEW i \in DOMAIN StageItems(tk, c, stage)
    PROVE  ~(CanHold(tk, c, stage, StageItems(tk, c, stage)[i])
             /\ CanMiss(tk, c, stage, StageItems(tk, c, stage)[i]))
<1> DEFINE item == StageItems(tk, c, stage)[i]
           kind == ItemKind(stage, item)
<1>1. kind \in {"one", "all", "reject"}
  <2>1. CASE stage = PolicyStage
    BY <2>1 DEF ItemKind
  <2>2. CASE stage # PolicyStage
    <3>1. item \in Check
      BY <2>2, ItemsType, ElementOf
    <3> HIDE DEF item
    <3> QED BY <2>2, <3>1 DEF ItemKind, Check
  <2> QED BY <2>1, <2>2
<1> HIDE DEF item, kind
<1>2. ASSUME NEW q, NEW trust, NEW entries
      PROVE  ~("true" \in QueryOutcomes(kind, q, trust, entries)
               /\ "false" \in QueryOutcomes(kind, q, trust, entries))
  <2>1. ~("true" \in FindMatch(q, trust, entries) /\ "false" \in FindMatch(q, trust, entries))
    BY DEF FindMatch
  <2>2. ~("true" \in CheckMatchAll(q, trust, entries)
          /\ "false" \in CheckMatchAll(q, trust, entries))
    BY DEF CheckMatchAll
  <2>3. \A g : /\ Negation(g) = "true" => g = "false"
               /\ Negation(g) = "false" => g = "true"
    BY DEF Negation
  <2> QED BY <1>1, <2>1, <2>2, <2>3 DEF QueryOutcomes
<1>3. \A q : ~("true" \in ModelOutcomes(tk, c, stage, item, q)
               /\ "false" \in ModelOutcomes(tk, c, stage, item, q))
  BY <1>2 DEF ModelOutcomes, kind
<1> QED BY <1>3 DEF CanHold, CanMiss, item

-----------------------------------------------------------------------------
(* Decisions before and after.                                                 *)

\* Two decisions, each justified by its token, on a token and on the same with
\* one more block, agree on all but the checks of that block.
LEMMA DecisionsAgree ==
    ASSUME NEW old, NEW c, NEW tk, Appends(old, c, tk), NEW p, NEW r,
           Justified(old, c, p), OnlyItems(old, c, p),
           Justified(tk, c, r), OnlyItems(tk, c, r)
    PROVE  /\ r.policy = p.policy
           /\ {f \in r.failed : f[1] # Len(old)} = p.failed
           /\ r.status = "allow" => p.status = "allow"
<1> USE AppendsType
<1>1. old \in Tokens /\ tk \in Tokens /\ c \in Contents
  BY DEF Appends
<1> DEFINE items(stage) == StageItems(old, c, stage)
           holds(stage, i) == CanHold(old, c, stage, items(stage)[i])
           misses(stage, i) == CanMiss(old, c, stage, items(stage)[i])
<1>2. \A stage \in CheckStages(old) \cup {PolicyStage} : \A i \in DOMAIN items(stage) :
         /\ ~(holds(stage, i) /\ misses(stage, i))
         /\ CanHold(tk, c, stage, items(stage)[i]) <=> holds(stage, i)
         /\ CanMiss(tk, c, stage, items(stage)[i]) <=> misses(stage, i)
  BY <1>1, OneVerdict, SameVerdicts
<1>3. items(PolicyStage) = c.policies /\ c.policies \in Seq(Policy)
  BY <1>1, ItemsType
<1>4. \A stage \in CheckStages(old) :
         stage \in CheckStages(tk) /\ StageItems(tk, c, stage) = items(stage)
  BY SameStages
<1>5. r.policy = p.policy
  <2>1. \A i \in DOMAIN c.policies :
           /\ ~(holds(PolicyStage, i) /\ misses(PolicyStage, i))
           /\ p.policy = 0 \/ i < p.policy => misses(PolicyStage, i)
           /\ r.policy = 0 \/ i < r.policy => misses(PolicyStage, i)
    BY <1>2, <1>3 DEF Justified
  <2>2. p.policy \in DOMAIN c.policies \cup {0} /\ r.policy \in DOMAIN c.policies \cup {0}
    BY DEF OnlyItems
  <2>3. /\ p.policy # 0 => holds(PolicyStage, p.policy)
        /\ r.policy # 0 => holds(PolicyStage, r.policy)
    BY <1>2, <1>3, <2>2 DEF Justified
  <2>4. DOMAIN c.policies \subseteq Nat \ {0}
    BY <1>3
  <2> HIDE DEF holds, misses, items
  <2> QED BY <2>1, <2>2, <2>3, <2>4
<1>6. ASSUME NEW stage \in CheckStages(old), NEW i \in DOMAIN items(stage)
      PROVE  <<StageOwner(stage), i>> \in r.failed <=> <<StageOwner(stage), i>> \in p.failed
  <2>1. IF <<StageOwner(stage), i>> \in p.failed THEN misses(stage, i) ELSE holds(stage, i)
    BY DEF Justified
  <2>2. IF <<StageOwner(stage), i>> \in r.failed
        THEN CanMiss(tk, c, stage, items(stage)[i]) ELSE CanHold(tk, c, stage, items(stage)[i])
    BY <1>4 DEF Justified
  <2> QED BY <1>2, <2>1, <2>2
<1>7. ASSUME NEW f \in p.failed
      PROVE  f \in r.failed /\ f[1] # Len(old)
  <2>0. PICK stage \in CheckStages(old) : \E i \in DOMAIN items(stage) : f = <<StageOwner(stage), i>>
    BY DEF OnlyItems
  <2>1. PICK i \in DOMAIN items(stage) : f = <<StageOwner(stage), i>>
    BY <2>0
  <2>2. StageOwner(stage) \in Ids(old) /\ Len(old) \notin Ids(old)
    BY SameStages, AuthorizerAssumption
  <2> QED BY <1>6, <2>1, <2>2
<1>8. ASSUME NEW f \in r.failed, f[1] # Len(old)
      PROVE  f \in p.failed
  <2>0. PICK stage \in CheckStages(tk) :
           \E i \in DOMAIN StageItems(tk, c, stage) : f = <<StageOwner(stage), i>>
    BY DEF OnlyItems
  <2>1. PICK i \in DOMAIN StageItems(tk, c, stage) : f = <<StageOwner(stage), i>>
    BY <2>0
  <2>2. StageOwner(stage) # Len(old)
    BY <1>8, <2>1
  <2>3. stage \in CheckStages(old)
    BY <2>2, SameStages
  <2> QED BY <1>4, <1>6, <2>1, <2>3
<1>9. {f \in r.failed : f[1] # Len(old)} = p.failed
  BY <1>7, <1>8
<1>10. r.status = "allow" => p.status = "allow"
  <2>1. /\ r.status = "allow" <=> r.failed = {} /\ r.policy # 0 /\ c.policies[r.policy].kind = "allow"
        /\ p.status = "allow" <=> p.failed = {} /\ p.policy # 0 /\ c.policies[p.policy].kind = "allow"
    BY DEF Justified
  <2> QED BY <1>5, <1>9, <2>1
<1> QED BY <1>5, <1>9, <1>10

-----------------------------------------------------------------------------
(* The theorem.                                                                *)

\* A token without its last block.
Before(old) ==
    /\ old \in Tokens
    /\ old # << >>
    /\ Len(token) = Len(old) + 1
    /\ \A i \in 1..Len(old) : token[i] = old[i]

\* The decision on the token before its last block is kept as it was taken.
ParentKept ==
    parent.status \in Decided =>
        \E old : /\ Before(old)
                 /\ Justified(old, content, parent)
                 /\ OnlyItems(old, content, parent)

Attenuated == Modelled /\ Progress /\ Faithful /\ ParentKept

\* The authorizer of the longer token starts anew.
LEMMA AttenuateStarts ==
    ASSUME Attenuated, Attenuate
    PROVE  Attenuated'
<1> USE DEF Attenuated, Modelled, Recorded
<1>1. /\ token \in Tokens /\ token' \in Tokens /\ token # << >>
      /\ content \in Contents /\ content' = content
      /\ pc = "idle" /\ pc' = "idle" /\ result' = NoResult
      /\ rules' = LoadedRules(token', content) /\ facts' = LoadedFacts(token', content)
      /\ executionTime' = None
  BY DEF Attenuate, TypeOK
<1>2. TypeOK'
  <2>1. rules' \subseteq WorldRule /\ facts' \subseteq Entry
    BY <1>1, LoadedRulesType, LoadedFactsType
  <2>2. position' \in Position
    BY DEF Attenuate, FirstPosition, At, Position
  <2>3. result' \in Result
    BY <1>1 DEF NoResult, Statuses, Result
  <2>4. limits' = limits /\ call' = call /\ iterations' = 0 /\ index' = 0 /\ elapsed' = 0
        /\ budget' = 0 /\ failed' = {} /\ policy' = 0
    BY DEF Attenuate
  <2> QED BY <1>1, <2>1, <2>2, <2>3, <2>4, TimeCapAssumption DEF TypeOK
<1>3. Modelled'
  <2>1. facts' \subseteq WholeModel(token', content)
    BY <1>1, WholeModelIsLeast
  <2> QED BY <1>1, <1>2, <2>1 DEF CompleteWhenRecorded
<1>4. Progress' /\ Faithful'
  <2>1. result'.status = "none"
    BY <1>1 DEF NoResult
  <2> QED BY <1>1, <2>1 DEF Progress, Faithful, Decided
<1>5. ParentKept'
  <2>1. parent' = result /\ result.status \in Decided
    BY DEF Attenuate
  <2>2. PICK b \in Appended : token' = Append(token, b)
    BY DEF Attenuate
  <2>3. token \in Seq(Block)
    BY <1>1, ProgramAssumption
  <2>4. Len(token') = Len(token) + 1 /\ \A i \in 1..Len(token) : token'[i] = token[i]
    BY <2>2, <2>3
  <2>5. \E old : /\ old \in Tokens /\ old # << >>
                 /\ Len(token') = Len(old) + 1 /\ \A i \in 1..Len(old) : token'[i] = old[i]
                 /\ Justified(old, content', parent') /\ OnlyItems(old, content', parent')
    BY <1>1, <2>1, <2>4 DEF Faithful
  <2> QED BY <2>5 DEF ParentKept, Before
<1> QED BY <1>3, <1>4, <1>5

LEMMA AttenuatedNext ==
    Attenuated /\ [AttenuationNext]_attenuationVars => Attenuated'
<1> SUFFICES ASSUME Attenuated, [AttenuationNext]_attenuationVars PROVE Attenuated'
  OBVIOUS
<1>1. CASE [Next]_vars /\ UNCHANGED parent
  <2>1. Modelled' /\ Progress' /\ Faithful'
    BY <1>1, ModelledIsComplete, ModelledStep, ProgressStep, FaithfulStep DEF Attenuated
  <2>2. UNCHANGED <<token, content>>
    BY <1>1, FactsChange DEF built
  <2>3. ParentKept'
    BY <1>1, <2>2 DEF Attenuated, ParentKept, Before
  <2> QED BY <2>1, <2>3 DEF Attenuated
<1> QED BY <1>1, AttenuateStarts DEF AttenuationNext, attenuationVars

LEMMA AttenuatedInvariant == AttenuationSpec => []Attenuated
<1>1. AttenuationInit => Attenuated
  <2> SUFFICES ASSUME AttenuationInit PROVE Attenuated
    OBVIOUS
  <2>1. Modelled
    BY ModelledInit DEF AttenuationInit
  <2>2. result.status = "none" /\ parent.status = "none" /\ pc = "idle"
    BY DEF AttenuationInit, Init, NoResult
  <2> QED BY <2>1, <2>2 DEF Attenuated, Progress, Faithful, ParentKept, Decided
<1> QED BY <1>1, AttenuatedNext, PTL DEF AttenuationSpec

\* Appending a block leaves the decision as it was, but for the checks of that
\* block: a token that was refused never becomes acceptable, whatever the block
\* says, unless its signer was trusted by name.
THEOREM Restriction == AttenuationSpec => []AttenuationOnlyRestricts
<1>1. Attenuated => AttenuationOnlyRestricts
  <2> SUFFICES ASSUME Attenuated, parent.status \in Decided, result.status \in Decided,
                      token[Len(token)].key \notin NamedKeys \ {NoKey}
               PROVE  /\ result.policy = parent.policy
                      /\ {f \in result.failed : f[1] # LastId} = parent.failed
                      /\ result.status = "allow" => parent.status = "allow"
    BY DEF AttenuationOnlyRestricts
  <2>1. PICK old : Before(old) /\ Justified(old, content, parent) /\ OnlyItems(old, content, parent)
    BY DEF Attenuated, ParentKept
  <2>2. token \in Tokens /\ content \in Contents
    BY DEF Attenuated, Modelled, Recorded, TypeOK
  <2>3. Len(old) \in Nat /\ LastId = Len(old)
    BY <2>1, ProgramAssumption DEF Before, LastId
  <2>4. {BlockScopes(token[i]) : i \in 1..(Len(token) - 1)}
           = {BlockScopes(old[i]) : i \in 1..Len(old)}
    <3>1. 1..(Len(token) - 1) = 1..Len(old)
      BY <2>1, <2>3 DEF Before
    <3>2. \A i \in 1..Len(old) : token[i] = old[i]
      BY <2>1 DEF Before
    <3> QED BY <3>1, <3>2
  <2>5. NamedKeys = Named(old, content)
    BY <2>4 DEF NamedKeys, Named
  <2>6. Appends(old, content, token)
    BY <2>1, <2>2, <2>5 DEF Appends, Before
  <2>7. Justified(token, content, result) /\ OnlyItems(token, content, result)
    BY DEF Attenuated, Faithful
  <2> QED BY <2>1, <2>3, <2>6, <2>7, DecisionsAgree
<1> QED BY <1>1, AttenuatedInvariant, PTL
==============================================================================
