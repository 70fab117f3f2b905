----------------------------- MODULE TokenProofs -----------------------------
(* Theorems about TokenChain for all root keys, third parties, contents and    *)
(* algorithms, and any number of tokens: biscuits are signed all along, their  *)
(* revocation identifiers identify, third-party blocks stay where they were    *)
(* requested for, and signature versions never decrease. Then theorems about   *)
(* what tokens say: their tables are those of their bytes, so that every       *)
(* biscuit can be read back, and a system of biscuits implements a ledger.     *)
EXTENDS TokenProperties, SequenceFacts

-----------------------------------------------------------------------------
(* Chains.                                                                     *)

IsChain(c) == c # << >> /\ \E S : c \in Seq(S)

LEMMA ChainFacts ==
    ASSUME NEW c, IsChain(c)
    PROVE  /\ Len(c) \in Nat \ {0}
           /\ DOMAIN c = 1..Len(c)
           /\ Last(c) = c[Len(c)]
<1>1. PICK S : c \in Seq(S)
  BY DEF IsChain
<1>2. c # << >>
  BY DEF IsChain
<1> QED BY <1>1, <1>2 DEF Last

LEMMA AppendFacts ==
    ASSUME NEW c, IsChain(c), NEW b
    PROVE  /\ IsChain(Append(c, b))
           /\ Len(Append(c, b)) = Len(c) + 1
           /\ \A i \in DOMAIN c : Append(c, b)[i] = c[i]
           /\ Append(c, b)[Len(c) + 1] = b
           /\ \A i \in 1..Len(c) : SubSeq(Append(c, b), 1, i) = SubSeq(c, 1, i)
           /\ SubSeq(Append(c, b), 1, Len(c) + 1) = Append(c, b)
           /\ Last(Append(c, b)) = b
<1>1. PICK S : c \in Seq(S)
  BY DEF IsChain
<1> DEFINE a == Append(c, b)
<1>2. c \in Seq(S \cup {b}) /\ a \in Seq(S \cup {b})
  BY <1>1
<1>3. Len(a) = Len(c) + 1 /\ Len(c) \in Nat
  BY <1>2
<1>4. \A i \in DOMAIN c : a[i] = c[i]
  BY <1>2
<1>5. a[Len(c) + 1] = b
  BY <1>2
<1>6. ASSUME NEW i \in 1..Len(c)
      PROVE  SubSeq(a, 1, i) = SubSeq(c, 1, i)
  BY <1>2, <1>3, <1>4
<1>7. SubSeq(a, 1, Len(c) + 1) = a
  BY <1>2, <1>3
<1>8. IsChain(a)
  BY <1>2, <1>3 DEF IsChain
<1> QED BY <1>3, <1>4, <1>5, <1>6, <1>7, <1>8 DEF Last

LEMMA SingletonFacts ==
    ASSUME NEW b
    PROVE  /\ IsChain(<<b>>)
           /\ Len(<<b>>) = 1
           /\ <<b>>[1] = b
           /\ Last(<<b>>) = b
<1>1. <<b>> \in Seq({b}) /\ <<b>> # << >>
  OBVIOUS
<1>2. IsChain(<<b>>)
  BY <1>1 DEF IsChain
<1>3. Len(<<b>>) = 1 /\ <<b>>[1] = b
  OBVIOUS
<1>4. Last(<<b>>) = b
  BY <1>3 DEF Last
<1> QED BY <1>2, <1>3, <1>4

\* The version of a block is that of every block before it, or more.
LEMMA VersionFacts ==
    ASSUME NEW signer, NEW next, NEW external, NEW modern, NEW versions \in SUBSET {0, 1},
           NEW v, v = BlockSignatureVersion(signer, next, external, modern, versions)
    PROVE  /\ v \in {0, 1}
           /\ \A w \in versions : w <= v
           /\ external # NoExternal => v = 1
<1> DEFINE m == Max(versions \cup {0})
<1>1. m \in versions \cup {0} /\ \A w \in versions \cup {0} : m >= w
  <2>1. \E x \in versions \cup {0} : \A w \in versions \cup {0} : x >= w
    OBVIOUS
  <2> QED BY <2>1 DEF Max
<1> HIDE DEF m
<1>2. BlockSignatureVersion(signer, next, external, modern, versions) \in {1, m}
  BY DEF BlockSignatureVersion, m
<1>3. external # NoExternal => BlockSignatureVersion(signer, next, external, modern, versions) = 1
  BY DEF BlockSignatureVersion
<1> QED BY <1>1, <1>2, <1>3

\* The signature of a block covers its next key, in either version.
LEMMA SignatureCoversNext ==
    ASSUME NEW signer, NEW version, NEW data, NEW next, NEW external, NEW previous
    PROVE  Sign(signer, BlockPayload(version, data, next, external, previous)).over.next = next
BY DEF Sign, BlockPayload, PayloadV0, PayloadV1

-----------------------------------------------------------------------------
(* What an operation does to the tokens, whichever it is.                      *)

IsToken(t) ==
    t \in [form: {t.form}, root_key_id: {t.root_key_id}, chain: {t.chain},
           proof: {t.proof}, symbols: {t.symbols}, keys: {t.keys}]

Holds(new, next) == new.proof = [kind |-> "secret", key |-> next]

\* A block signed with a key, after a previous signature.
SignedBlock(b, signer, previous) ==
    b = [data |-> b.data, next |-> b.next, external |-> b.external, version |-> b.version,
         signature |-> Sign(signer, BlockPayload(b.version, b.data, b.next, b.external,
                                                 previous))]

Minted(new) ==
    \E b : /\ new.form = "verified"
           /\ new.chain = <<b>>
           /\ Holds(new, b.next)
           /\ b.next.id = keyPairs + 1
           /\ b.external = NoExternal
           /\ b.version \in {0, 1}
           /\ SignedBlock(b, RootKey[new.root_key_id], None)

Grown(t, new) ==
    \E b : /\ ~IsSealed(t)
           /\ new.form = t.form
           /\ new.root_key_id = t.root_key_id
           /\ new.chain = Append(t.chain, b)
           /\ Holds(new, b.next)
           /\ b.next.id = keyPairs + 1
           /\ \E modern :
                 b.version = BlockSignatureVersion(t.proof.key, b.next, b.external,
                                                   modern, Versions(t.chain))
           /\ SignedBlock(b, t.proof.key, LastSignature(t))
           /\ t.form = "verified" /\ b.external # NoExternal =>
                 ExternalVerifies(b.data, LastSignature(t), b.external)

\* Sealed, read back or verified: the chain stays what it was.
Copied(t, new) ==
    /\ new.chain = t.chain
    /\ new.proof.kind \in {"secret", "seal"}
    /\ new.form = "verified" =>
          \/ Verifies(new.chain, new.proof, RootKey[new.root_key_id])
          \/ /\ t.form = "verified"
             /\ new.root_key_id = t.root_key_id
             /\ ~IsSealed(t)
             /\ new.proof = [kind |-> "seal",
                             signature |-> Sign(t.proof.key, SealPayload(Last(t.chain)))]

TokenStep ==
    \/ UNCHANGED <<tokens, keyPairs>>
    \/ /\ keyPairs' = keyPairs + 1
       /\ \E new : /\ tokens' = tokens \cup {new}
                   /\ IsToken(new)
                   /\ Minted(new) \/ \E t \in tokens : Grown(t, new)
    \/ /\ keyPairs' = keyPairs
       /\ \E new : /\ tokens' = tokens \cup {new}
                   /\ IsToken(new)
                   /\ \E t \in tokens : Copied(t, new)

TokensAreTokens == \A t \in tokens : IsToken(t)

LEMMA ExtendedGrows ==
    ASSUME NEW t, IsToken(t), ~IsSealed(t), NEW data, NEW external, NEW modern, NEW next,
           next.id = keyPairs + 1,
           t.form = "verified" /\ external # NoExternal =>
               ExternalVerifies(data, LastSignature(t), external)
    PROVE  /\ IsToken(Extended(t, data, external, modern, next))
           /\ Grown(t, Extended(t, data, external, modern, next))
<1> DEFINE version == BlockSignatureVersion(t.proof.key, next, external, modern,
                                            Versions(t.chain))
           signature == Sign(t.proof.key, BlockPayload(version, data, next, external,
                                                       LastSignature(t)))
           b == [data |-> data, next |-> next, external |-> external,
                 version |-> version, signature |-> signature]
           new == Extended(t, data, external, modern, next)
<1>1. new = [t EXCEPT !.chain = Append(@, b), !.proof = [kind |-> "secret", key |-> next]]
  BY DEF Extended
<1>2. new \in [form: {t.form}, root_key_id: {t.root_key_id}, chain: {Append(t.chain, b)},
               proof: {[kind |-> "secret", key |-> next]}, symbols: {t.symbols},
               keys: {t.keys}]
  <2> HIDE DEF b, new
  <2> QED BY <1>1 DEF IsToken
<1>3. /\ b.data = data /\ b.next = next /\ b.external = external
      /\ b.version = version /\ b.signature = signature
  <2> HIDE DEF version, signature
  <2> QED OBVIOUS
<1>4. SignedBlock(b, t.proof.key, LastSignature(t))
  BY <1>3 DEF SignedBlock
<1> HIDE DEF b, new
<1>5. IsToken(new)
  BY <1>2 DEF IsToken
<1>6. Grown(t, new)
  BY <1>2, <1>3, <1>4 DEF Grown, Holds
<1> QED BY <1>5, <1>6 DEF new

LEMMA GrownBy ==
    ASSUME TokensAreTokens, NEW t \in tokens, NEW new, NEW symbols, NEW keys, NEW u,
           IsToken(u), Grown(t, u), new = [u EXCEPT !.symbols = symbols, !.keys = keys],
           keyPairs' = keyPairs + 1, tokens' = tokens \cup {new}
    PROVE  TokenStep
<1>1. new \in [form: {u.form}, root_key_id: {u.root_key_id}, chain: {u.chain},
               proof: {u.proof}, symbols: {symbols}, keys: {keys}]
  BY DEF IsToken
<1>2. IsToken(new) /\ new.form = u.form /\ new.root_key_id = u.root_key_id
      /\ new.chain = u.chain /\ new.proof = u.proof
  BY <1>1 DEF IsToken
<1>3. Grown(t, new)
  BY <1>2 DEF Grown, Holds
<1> QED BY <1>2, <1>3 DEF TokenStep

LEMMA MintStep ==
    ASSUME NEW id \in DOMAIN RootKey, NEW content, NEW alg, keyPairs \in Nat,
           Mint(id, content, alg)
    PROVE  TokenStep
<1> DEFINE root == RootKey[id]
           next == NextKey(alg)
           data == Build(content, << >>, << >>)
           version == BlockSignatureVersion(root, next, NoExternal, data.modern, {})
           signature == Sign(root, BlockPayload(version, data, next, NoExternal, None))
           b == [data |-> data, next |-> next, external |-> NoExternal, version |-> version,
                 signature |-> signature]
           new == [form |-> "verified", root_key_id |-> id, chain |-> <<b>>,
                   proof |-> [kind |-> "secret", key |-> next],
                   symbols |-> data.symbols, keys |-> data.keys]
<1>1. keyPairs' = keyPairs + 1 /\ tokens' = tokens \cup {new}
  BY DEF Mint, Signs, Returns
<1>2. version \in {0, 1}
  BY VersionFacts
<1>3. next.id = keyPairs + 1
  BY DEF NextKey
<1>4. /\ b.data = data /\ b.next = next /\ b.external = NoExternal
      /\ b.version = version /\ b.signature = signature
  <2> HIDE DEF version, signature, next, data
  <2> QED OBVIOUS
<1>5. SignedBlock(b, root, None)
  BY <1>4 DEF SignedBlock
<1>6. new \in [form: {"verified"}, root_key_id: {id}, chain: {<<b>>},
               proof: {[kind |-> "secret", key |-> next]},
               symbols: {data.symbols}, keys: {data.keys}]
  <2> HIDE DEF b, next, data
  <2> QED OBVIOUS
<1> HIDE DEF b, new
<1>7. /\ IsToken(new) /\ new.form = "verified" /\ new.root_key_id = id
      /\ new.chain = <<b>> /\ new.proof = [kind |-> "secret", key |-> next]
  BY <1>6 DEF IsToken
<1> HIDE DEF version, signature, next, data
<1>8. Minted(new)
  BY <1>2, <1>3, <1>4, <1>5, <1>7 DEF Minted, Holds
<1> QED BY <1>1, <1>7, <1>8 DEF TokenStep

LEMMA SameTokens ==
    ASSUME NEW error, Refuses(error)
    PROVE  TokenStep
BY DEF Refuses, TokenStep

LEMMA AppendStep ==
    ASSUME TokensAreTokens, keyPairs \in Nat, NEW t \in tokens, NEW content, NEW alg,
           AppendBlock(t, content, alg)
    PROVE  TokenStep
<1> DEFINE data == Build(content, t.symbols, t.keys)
           next == NextKey(alg)
           u == Extended(t, data, NoExternal, data.modern, next)
           new == [u EXCEPT !.symbols = @ \o data.symbols, !.keys = @ \o data.keys]
<1>1. CASE \E error : Refuses(error)
  BY <1>1, SameTokens
<1>2. CASE ~IsSealed(t) /\ Signs(new)
  <2>1. IsToken(t) /\ next.id = keyPairs + 1
    BY DEF TokensAreTokens, NextKey
  <2> HIDE DEF data, next
  <2>2. IsToken(u) /\ Grown(t, u)
    BY <1>2, <2>1, ExtendedGrows
  <2>3. new = [u EXCEPT !.symbols = u.symbols \o data.symbols, !.keys = u.keys \o data.keys]
    OBVIOUS
  <2>4. keyPairs' = keyPairs + 1 /\ tokens' = tokens \cup {new}
    BY <1>2 DEF Signs, Returns
  <2> HIDE DEF u, new
  <2> QED BY <2>2, <2>3, <2>4, GrownBy
<1>3. \/ \E error : Refuses(error)
      \/ ~IsSealed(t) /\ Signs(new)
  <2> HIDE DEF data, next, u
  <2> QED BY DEF AppendBlock, data, next, u
<1> QED BY <1>1, <1>2, <1>3

\* With a response from a third party, the block and its external signature are
\* those of the response.
LEMMA AcceptStep ==
    ASSUME TokensAreTokens, keyPairs \in Nat, NEW t \in tokens, NEW response,
           NEW expected, NEW alg, AcceptThirdParty(t, response, expected, alg)
    PROVE  TokenStep
<1> DEFINE next == NextKey(alg)
           u == Extended(t, response.data, response.external, FALSE, next)
<1>1. CASE \E error : Refuses(error)
  BY <1>1, SameTokens
<1>2. CASE /\ ~IsSealed(t)
           /\ ExternalVerifies(response.data, LastSignature(t), response.external)
           /\ Signs(u)
  <2>1. IsToken(t) /\ next.id = keyPairs + 1
    BY DEF TokensAreTokens, NextKey
  <2> HIDE DEF next
  <2>2. IsToken(u) /\ Grown(t, u)
    BY <1>2, <2>1, ExtendedGrows
  <2>3. keyPairs' = keyPairs + 1 /\ tokens' = tokens \cup {u}
    BY <1>2 DEF Signs, Returns
  <2> HIDE DEF u
  <2> QED BY <2>2, <2>3 DEF TokenStep
<1>3. \/ \E error : Refuses(error)
      \/ /\ ~IsSealed(t)
         /\ ExternalVerifies(response.data, LastSignature(t), response.external)
         /\ Signs(u)
  BY DEF AcceptThirdParty
<1> QED BY <1>1, <1>2, <1>3

LEMMA AcceptUnverifiedStep ==
    ASSUME TokensAreTokens, keyPairs \in Nat, NEW t \in tokens, NEW response, NEW alg,
           AcceptThirdPartyUnverified(t, response, alg)
    PROVE  TokenStep
<1> DEFINE next == NextKey(alg)
           u == Extended(t, response.data, response.external, FALSE, next)
           new == [u EXCEPT !.keys = @ \o response.data.keys]
<1>1. CASE \E error : Refuses(error)
  BY <1>1, SameTokens
<1>2. CASE t.form = "unverified" /\ ~IsSealed(t) /\ Signs(new)
  <2>1. IsToken(t) /\ next.id = keyPairs + 1
    BY DEF TokensAreTokens, NextKey
  <2> HIDE DEF next
  <2>2. IsToken(u) /\ Grown(t, u)
    BY <1>2, <2>1, ExtendedGrows
  <2>3. keyPairs' = keyPairs + 1 /\ tokens' = tokens \cup {new}
    BY <1>2 DEF Signs, Returns
  <2> HIDE DEF u
  <2>4. new \in [form: {u.form}, root_key_id: {u.root_key_id}, chain: {u.chain},
                 proof: {u.proof}, symbols: {u.symbols}, keys: {u.keys \o response.data.keys}]
    BY <2>2 DEF IsToken
  <2> HIDE DEF new
  <2>5. IsToken(new) /\ new.form = u.form /\ new.root_key_id = u.root_key_id
        /\ new.chain = u.chain /\ new.proof = u.proof
    BY <2>4 DEF IsToken
  <2>6. Grown(t, new)
    BY <2>2, <2>5 DEF Grown, Holds
  <2> QED BY <2>3, <2>5, <2>6 DEF TokenStep
<1>3. \/ \E error : Refuses(error)
      \/ t.form = "unverified" /\ ~IsSealed(t) /\ Signs(new)
  BY DEF AcceptThirdPartyUnverified
<1> QED BY <1>1, <1>2, <1>3

LEMMA CopyStep ==
    ASSUME NEW t \in tokens, NEW new, IsToken(new), Copied(t, new), Keeps(new)
    PROVE  TokenStep
BY DEF Keeps, Returns, TokenStep

ProofKinds == \A t \in tokens : t.proof.kind \in {"secret", "seal"}

LEMMA SealStep ==
    ASSUME TokensAreTokens, NEW t \in tokens, Seal(t)
    PROVE  TokenStep
<1> DEFINE proof == [kind |-> "seal", signature |-> Sign(t.proof.key, SealPayload(Last(t.chain)))]
           new == [t EXCEPT !.proof = proof]
<1>1. CASE \E error : Refuses(error)
  BY <1>1, SameTokens
<1>2. CASE ~IsSealed(t) /\ Keeps(new)
  <2>1. proof.kind = "seal"
    OBVIOUS
  <2> HIDE DEF proof
  <2>2. new \in [form: {t.form}, root_key_id: {t.root_key_id}, chain: {t.chain},
                 proof: {proof}, symbols: {t.symbols}, keys: {t.keys}]
    BY DEF TokensAreTokens, IsToken
  <2> HIDE DEF new
  <2>3. /\ IsToken(new) /\ new.form = t.form /\ new.root_key_id = t.root_key_id
        /\ new.chain = t.chain /\ new.proof = proof
    BY <2>2 DEF IsToken
  <2>4. Copied(t, new)
    BY <1>2, <2>1, <2>3 DEF Copied, proof
  <2> QED BY <1>2, <2>3, <2>4, CopyStep
<1>3. (\E error : Refuses(error)) \/ (~IsSealed(t) /\ Keeps(new))
  BY DEF Seal
<1> QED BY <1>1, <1>2, <1>3

LEMMA ReadStep ==
    ASSUME TokensAreTokens, ProofKinds, NEW t \in tokens,
           ReadBiscuit(t) \/ ReadUnverified(t) \/ Verify(t)
    PROVE  TokenStep
<1> DEFINE read(form) == Decoded(t, form)
           verified == [t EXCEPT !.form = "verified"]
<1>1. CASE \E error : Refuses(error)
  BY <1>1, SameTokens
<1>2. ASSUME NEW form
      PROVE  /\ IsToken(read(form)) /\ read(form).form = form
             /\ read(form).root_key_id = t.root_key_id
             /\ read(form).chain = t.chain /\ read(form).proof = t.proof
  <2> DEFINE symbols == Symbols(t.chain)
             keys == PublicKeys(t.chain)
             new == [t EXCEPT !.form = form, !.symbols = symbols, !.keys = keys]
  <2>1. read(form) = new
    BY DEF Decoded
  <2>2. IsToken(t)
    BY DEF TokensAreTokens
  <2> HIDE DEF symbols, keys
  <2>3. new \in [form: {form}, root_key_id: {t.root_key_id}, chain: {t.chain},
                 proof: {t.proof}, symbols: {symbols}, keys: {keys}]
    BY <2>2 DEF IsToken
  <2> HIDE DEF new, read
  <2> QED BY <2>1, <2>3 DEF IsToken
<1>3. CASE Verifies(t.chain, t.proof, RootKey[t.root_key_id]) /\ Keeps(read("verified"))
  <2>1. Copied(t, read("verified"))
    BY <1>2, <1>3 DEF Copied, ProofKinds
  <2> QED BY <1>2, <1>3, <2>1, CopyStep
<1>4. CASE Keeps(read("unverified"))
  <2>1. Copied(t, read("unverified"))
    BY <1>2 DEF Copied, ProofKinds
  <2> QED BY <1>2, <1>4, <2>1, CopyStep
<1>5. CASE Verifies(t.chain, t.proof, RootKey[t.root_key_id]) /\ Keeps(verified)
  <2>1. verified \in [form: {"verified"}, root_key_id: {t.root_key_id}, chain: {t.chain},
                      proof: {t.proof}, symbols: {t.symbols}, keys: {t.keys}]
    BY DEF TokensAreTokens, IsToken
  <2> HIDE DEF verified
  <2>2. /\ IsToken(verified) /\ verified.root_key_id = t.root_key_id
        /\ verified.chain = t.chain /\ verified.proof = t.proof
    BY <2>1 DEF IsToken
  <2>3. Copied(t, verified)
    BY <1>5, <2>2 DEF Copied, ProofKinds
  <2> QED BY <1>5, <2>2, <2>3, CopyStep
<1>6. \/ \E error : Refuses(error)
      \/ Verifies(t.chain, t.proof, RootKey[t.root_key_id]) /\ Keeps(read("verified"))
      \/ Keeps(read("unverified"))
      \/ Verifies(t.chain, t.proof, RootKey[t.root_key_id]) /\ Keeps(verified)
  BY DEF ReadBiscuit, ReadUnverified, Verify
<1> QED BY <1>1, <1>3, <1>4, <1>5, <1>6

LEMMA NextIsTokenStep ==
    ASSUME TokensAreTokens, ProofKinds, keyPairs \in Nat, Next
    PROVE  TokenStep
<1>1. CASE \E id \in DOMAIN RootKey, c \in Contents, alg \in Algorithms : Mint(id, c, alg)
  BY <1>1, MintStep
<1>2. CASE \E t \in tokens, c \in Contents, alg \in Algorithms : AppendBlock(t, c, alg)
  BY <1>2, AppendStep
<1>3. CASE \E t \in tokens : Seal(t)
  BY <1>3, SealStep
<1>4. CASE \E t \in tokens : Request(t)
  BY <1>4 DEF Request, TokenStep
<1>5. CASE \E t \in tokens : ReadBiscuit(t) \/ ReadUnverified(t) \/ Verify(t)
  BY <1>5, ReadStep
<1>6. CASE \E r \in requests, s \in Services, c \in Contents : CreateBlock(r, s, c)
  BY <1>6 DEF CreateBlock, TokenStep
<1>7. CASE \E t \in tokens, r \in responses, alg \in Algorithms, k \in KnownKeys :
              AcceptThirdParty(t, r, k, alg)
  BY <1>7, AcceptStep
<1>8. CASE \E t \in tokens, r \in responses, alg \in Algorithms :
              AcceptThirdPartyUnverified(t, r, alg)
  BY <1>8, AcceptUnverifiedStep
<1> QED BY <1>1, <1>2, <1>3, <1>4, <1>5, <1>6, <1>7, <1>8 DEF Next

-----------------------------------------------------------------------------
(* Chains of signatures.                                                       *)

\* What every block of a chain satisfies, wherever it was signed.
BlockOK(b) ==
    /\ b.next.id \in 1..keyPairs
    /\ b.version \in {0, 1}
    /\ b.signature.over.next = b.next

TokenOK(t) ==
    /\ IsToken(t)
    /\ t.proof.kind \in {"secret", "seal"}
    /\ IsChain(t.chain)
    /\ t.chain[1].external = NoExternal
    /\ \A i \in DOMAIN t.chain : BlockOK(t.chain[i])

ChainsOK == keyPairs \in Nat /\ \A t \in tokens : TokenOK(t)

LEMMA ChainsOKGivesStep ==
    ASSUME ChainsOK, Next
    PROVE  TokenStep
BY NextIsTokenStep DEF ChainsOK, TokenOK, TokensAreTokens, ProofKinds

LEMMA SignedBlockFacts ==
    ASSUME NEW b, NEW signer, NEW previous, SignedBlock(b, signer, previous)
    PROVE  /\ b.signature = Sign(signer, BlockPayload(b.version, b.data, b.next, b.external,
                                                      previous))
           /\ b.signature.over.next = b.next
<1> DEFINE signature == Sign(signer, BlockPayload(b.version, b.data, b.next, b.external,
                                                  previous))
<1>1. signature.over.next = b.next
  BY SignatureCoversNext
<1>2. b.signature = signature
  <2> HIDE DEF signature
  <2> QED BY DEF SignedBlock, signature
<1> QED BY <1>1, <1>2

LEMMA VersionsOfChain ==
    ASSUME ChainsOK, NEW t \in tokens
    PROVE  /\ Versions(t.chain) \in SUBSET {0, 1}
           /\ \A i \in DOMAIN t.chain : t.chain[i].version \in Versions(t.chain)
BY DEF ChainsOK, TokenOK, BlockOK, Versions

LEMMA GrownFacts ==
    ASSUME ChainsOK, NEW t \in tokens, NEW new, Grown(t, new)
    PROVE  \E b : /\ new.chain = Append(t.chain, b)
                  /\ b.next.id = keyPairs + 1
                  /\ b.version \in {0, 1}
                  /\ \A i \in DOMAIN t.chain : t.chain[i].version <= b.version
                  /\ b.external # NoExternal => b.version = 1
                  /\ b.signature.over.next = b.next
                  /\ b.signature = Sign(t.proof.key,
                         BlockPayload(b.version, b.data, b.next, b.external, LastSignature(t)))
                  /\ Holds(new, b.next)
                  /\ t.form = "verified" /\ b.external # NoExternal =>
                        ExternalVerifies(b.data, LastSignature(t), b.external)
<1>1. PICK b :
           /\ new.chain = Append(t.chain, b)
           /\ Holds(new, b.next)
           /\ b.next.id = keyPairs + 1
           /\ \E modern :
                 b.version = BlockSignatureVersion(t.proof.key, b.next, b.external,
                                                   modern, Versions(t.chain))
           /\ SignedBlock(b, t.proof.key, LastSignature(t))
           /\ t.form = "verified" /\ b.external # NoExternal =>
                 ExternalVerifies(b.data, LastSignature(t), b.external)
  BY DEF Grown
<1>2. /\ b.version \in {0, 1}
      /\ \A w \in Versions(t.chain) : w <= b.version
      /\ b.external # NoExternal => b.version = 1
  <2>1. PICK modern : b.version = BlockSignatureVersion(t.proof.key, b.next, b.external,
                                                        modern, Versions(t.chain))
    BY <1>1
  <2> QED BY <2>1, VersionsOfChain, VersionFacts
<1>3. \A i \in DOMAIN t.chain : t.chain[i].version <= b.version
  BY <1>2, VersionsOfChain
<1>4. /\ b.signature = Sign(t.proof.key, BlockPayload(b.version, b.data, b.next, b.external,
                                                      LastSignature(t)))
      /\ b.signature.over.next = b.next
  BY <1>1, SignedBlockFacts
<1> QED BY <1>1, <1>2, <1>3, <1>4

LEMMA ChainsStep ==
    ASSUME ChainsOK, TokenStep
    PROVE  ChainsOK'
<1>1. CASE UNCHANGED <<tokens, keyPairs>>
  BY <1>1 DEF ChainsOK, TokenOK, BlockOK
<1>2. ASSUME NEW new, tokens' = tokens \cup {new}, IsToken(new), keyPairs' = keyPairs + 1,
             Minted(new)
      PROVE  ChainsOK'
  <2>1. PICK b : /\ new.chain = <<b>>
                 /\ Holds(new, b.next)
                 /\ b.next.id = keyPairs + 1
                 /\ b.external = NoExternal
                 /\ b.version \in {0, 1}
                 /\ SignedBlock(b, RootKey[new.root_key_id], None)
    BY <1>2 DEF Minted
  <2>2. b.signature.over.next = b.next
    BY <2>1, SignedBlockFacts
  <2>3. IsChain(new.chain) /\ new.chain[1] = b /\ DOMAIN new.chain = {1}
    BY <2>1, SingletonFacts, ChainFacts
  <2>4. new.proof.kind = "secret"
    BY <2>1 DEF Holds
  <2>5. TokenOK(new)'
    BY <1>2, <2>1, <2>2, <2>3, <2>4 DEF TokenOK, BlockOK, ChainsOK
  <2>6. \A t \in tokens : TokenOK(t)'
    BY <1>2 DEF TokenOK, BlockOK, ChainsOK
  <2> QED BY <1>2, <2>5, <2>6 DEF ChainsOK
<1>3. ASSUME NEW new, tokens' = tokens \cup {new}, IsToken(new), keyPairs' = keyPairs + 1,
             NEW t \in tokens, Grown(t, new)
      PROVE  ChainsOK'
  <2>1. PICK b : /\ new.chain = Append(t.chain, b)
                 /\ b.next.id = keyPairs + 1
                 /\ b.version \in {0, 1}
                 /\ b.signature.over.next = b.next
                 /\ Holds(new, b.next)
    BY <1>3, GrownFacts
  <2>2. IsChain(t.chain) /\ keyPairs \in Nat
    BY DEF ChainsOK, TokenOK
  <2>3. /\ IsChain(new.chain)
        /\ Len(new.chain) = Len(t.chain) + 1
        /\ \A i \in DOMAIN t.chain : new.chain[i] = t.chain[i]
        /\ new.chain[Len(t.chain) + 1] = b
    BY <2>1, <2>2, AppendFacts
  <2>4. /\ Len(t.chain) \in Nat \ {0} /\ DOMAIN t.chain = 1..Len(t.chain)
        /\ DOMAIN new.chain = 1..(Len(t.chain) + 1)
    BY <2>2, <2>3, ChainFacts
  <2>5. \A i \in DOMAIN new.chain : BlockOK(new.chain[i])'
    BY <1>3, <2>1, <2>2, <2>3, <2>4 DEF ChainsOK, TokenOK, BlockOK
  <2>6. new.proof.kind = "secret"
    BY <2>1 DEF Holds
  <2>7. new.chain[1].external = NoExternal
    BY <2>3, <2>4 DEF ChainsOK, TokenOK
  <2>8. TokenOK(new)'
    BY <1>3, <2>3, <2>5, <2>6, <2>7 DEF TokenOK
  <2>9. \A u \in tokens : TokenOK(u)'
    BY <1>3 DEF TokenOK, BlockOK, ChainsOK
  <2> QED BY <1>3, <2>2, <2>8, <2>9 DEF ChainsOK
<1>4. ASSUME NEW new, tokens' = tokens \cup {new}, IsToken(new), keyPairs' = keyPairs,
             NEW t \in tokens, Copied(t, new)
      PROVE  ChainsOK'
  BY <1>4 DEF ChainsOK, TokenOK, BlockOK, Copied
<1> QED BY <1>1, <1>2, <1>3, <1>4 DEF TokenStep

LEMMA ChainsInvariant == Spec => []ChainsOK
<1>1. Init => ChainsOK
  BY DEF Init, ChainsOK
<1>2. ChainsOK /\ [Next]_vars => ChainsOK'
  <2>1. ChainsOK /\ Next => ChainsOK'
    BY ChainsOKGivesStep, ChainsStep
  <2>2. ChainsOK /\ UNCHANGED vars => ChainsOK'
    BY DEF ChainsOK, TokenOK, BlockOK, vars
  <2> QED BY <2>1, <2>2
<1> QED BY <1>1, <1>2, PTL DEF Spec

\* A token that has moved to version 1 signatures never goes back to version 0.
THEOREM VersionsNeverGoBack == Spec => []VersionsNeverDecrease
<1>1. Init => VersionsNeverDecrease
  BY DEF Init, VersionsNeverDecrease
<1>2. ChainsOK /\ VersionsNeverDecrease /\ [Next]_vars => VersionsNeverDecrease'
  <2> SUFFICES ASSUME ChainsOK, VersionsNeverDecrease, [Next]_vars
               PROVE  VersionsNeverDecrease'
    OBVIOUS
  <2> DEFINE Grows(c) == \A i, j \in DOMAIN c : i < j => c[i].version <= c[j].version
  <2>1. \A t \in tokens : Grows(t.chain)
    BY DEF VersionsNeverDecrease
  <2>2. CASE UNCHANGED tokens
    BY <2>2 DEF VersionsNeverDecrease
  <2>3. ASSUME NEW new, tokens' = tokens \cup {new}, Minted(new)
        PROVE  Grows(new.chain)
    <3>1. PICK b : new.chain = <<b>>
      BY <2>3 DEF Minted
    <3> QED BY <3>1
  <2>4. ASSUME NEW new, tokens' = tokens \cup {new}, NEW t \in tokens, Grown(t, new)
        PROVE  Grows(new.chain)
    <3>1. PICK b : /\ new.chain = Append(t.chain, b)
                   /\ \A i \in DOMAIN t.chain : t.chain[i].version <= b.version
                   /\ b.version \in {0, 1}
      BY <2>4, GrownFacts
    <3>2. IsChain(t.chain)
      BY DEF ChainsOK, TokenOK
    <3>3. /\ Len(new.chain) = Len(t.chain) + 1
          /\ \A i \in DOMAIN t.chain : new.chain[i] = t.chain[i]
          /\ new.chain[Len(t.chain) + 1] = b
          /\ IsChain(new.chain)
      BY <3>1, <3>2, AppendFacts
    <3>4. /\ Len(t.chain) \in Nat \ {0} /\ DOMAIN t.chain = 1..Len(t.chain)
          /\ DOMAIN new.chain = 1..(Len(t.chain) + 1)
      BY <3>2, <3>3, ChainFacts
    <3>5. Grows(t.chain)
      BY <2>1
    <3> QED BY <3>1, <3>3, <3>4, <3>5
  <2>5. ASSUME NEW new, tokens' = tokens \cup {new}, NEW t \in tokens, Copied(t, new)
        PROVE  Grows(new.chain)
    BY <2>1, <2>5 DEF Copied
  <2>6. TokenStep \/ UNCHANGED tokens
    BY ChainsOKGivesStep DEF vars
  <2>7. ASSUME NEW new, tokens' = tokens \cup {new}, Grows(new.chain)
        PROVE  VersionsNeverDecrease'
    BY <2>1, <2>7 DEF VersionsNeverDecrease
  <2> QED BY <2>2, <2>3, <2>4, <2>5, <2>6, <2>7 DEF TokenStep
<1> QED BY <1>1, <1>2, ChainsInvariant, PTL DEF Spec

-----------------------------------------------------------------------------
(* Revocation identifiers.                                                     *)

\* The next key of a block is held by one block only, and that one has one past.
FreshKeys ==
    \A t, u \in tokens : \A i \in DOMAIN t.chain, j \in DOMAIN u.chain :
        t.chain[i].next = u.chain[j].next => SubSeq(t.chain, 1, i) = SubSeq(u.chain, 1, j)

\* Block i of c was there before, with the same past.
Inherited(c, i) ==
    \E u \in tokens : /\ i \in DOMAIN u.chain
                      /\ u.chain[i] = c[i]
                      /\ SubSeq(u.chain, 1, i) = SubSeq(c, 1, i)

\* Every block of a token is inherited, but the last of the new one, N.
LEMMA BlocksAreInherited ==
    ASSUME ChainsOK, TokenStep
    PROVE  \E N : \A t \in tokens' : \A i \in DOMAIN t.chain :
              \/ Inherited(t.chain, i)
              \/ t = N /\ i = Len(N.chain) /\ t.chain[i].next.id = keyPairs + 1
<1>0. \A t \in tokens : \A i \in DOMAIN t.chain : Inherited(t.chain, i)
  BY DEF Inherited
<1>1. CASE UNCHANGED tokens
  BY <1>0, <1>1
<1>2. ASSUME NEW new, tokens' = tokens \cup {new}, Minted(new)
      PROVE  \A i \in DOMAIN new.chain : i = Len(new.chain) /\ new.chain[i].next.id = keyPairs + 1
  <2>1. PICK b : new.chain = <<b>> /\ b.next.id = keyPairs + 1
    BY <1>2 DEF Minted
  <2> QED BY <2>1
<1>3. ASSUME NEW new, tokens' = tokens \cup {new}, NEW t \in tokens, Grown(t, new)
      PROVE  \A i \in DOMAIN new.chain :
                \/ Inherited(new.chain, i)
                \/ i = Len(new.chain) /\ new.chain[i].next.id = keyPairs + 1
  <2>1. PICK b : new.chain = Append(t.chain, b) /\ b.next.id = keyPairs + 1
    BY <1>3, GrownFacts
  <2>2. IsChain(t.chain)
    BY DEF ChainsOK, TokenOK
  <2>3. /\ Len(new.chain) = Len(t.chain) + 1
        /\ \A i \in DOMAIN t.chain : new.chain[i] = t.chain[i]
        /\ new.chain[Len(t.chain) + 1] = b
        /\ IsChain(new.chain)
        /\ \A i \in 1..Len(t.chain) : SubSeq(new.chain, 1, i) = SubSeq(t.chain, 1, i)
    BY <2>1, <2>2, AppendFacts
  <2>4. /\ Len(t.chain) \in Nat \ {0} /\ DOMAIN t.chain = 1..Len(t.chain)
        /\ DOMAIN new.chain = 1..(Len(t.chain) + 1)
    BY <2>2, <2>3, ChainFacts
  <2>5. ASSUME NEW i \in 1..Len(t.chain)
        PROVE  Inherited(new.chain, i)
    BY <2>3, <2>4 DEF Inherited
  <2> QED BY <2>1, <2>3, <2>4, <2>5
<1>4. ASSUME NEW new, tokens' = tokens \cup {new}, NEW t \in tokens, Copied(t, new)
      PROVE  \A i \in DOMAIN new.chain : Inherited(new.chain, i)
  BY <1>4 DEF Copied, Inherited
<1> QED BY <1>0, <1>1, <1>2, <1>3, <1>4 DEF TokenStep

LEMMA FreshKeysStep ==
    ASSUME ChainsOK, FreshKeys, TokenStep
    PROVE  FreshKeys'
<1>1. PICK N : \A t \in tokens' : \A i \in DOMAIN t.chain :
              \/ Inherited(t.chain, i)
              \/ t = N /\ i = Len(N.chain) /\ t.chain[i].next.id = keyPairs + 1
  BY BlocksAreInherited
<1> SUFFICES ASSUME NEW t \in tokens', NEW u \in tokens',
                    NEW i \in DOMAIN t.chain, NEW j \in DOMAIN u.chain,
                    t.chain[i].next = u.chain[j].next
             PROVE  SubSeq(t.chain, 1, i) = SubSeq(u.chain, 1, j)
  BY DEF FreshKeys
<1>2. ASSUME NEW c, NEW k, Inherited(c, k)
      PROVE  c[k].next.id # keyPairs + 1
  BY <1>2 DEF Inherited, ChainsOK, TokenOK, BlockOK
<1>3. CASE Inherited(t.chain, i) /\ Inherited(u.chain, j)
  <2>1. PICK v \in tokens : /\ i \in DOMAIN v.chain
                            /\ v.chain[i] = t.chain[i]
                            /\ SubSeq(v.chain, 1, i) = SubSeq(t.chain, 1, i)
    BY <1>3 DEF Inherited
  <2>2. PICK w \in tokens : /\ j \in DOMAIN w.chain
                            /\ w.chain[j] = u.chain[j]
                            /\ SubSeq(w.chain, 1, j) = SubSeq(u.chain, 1, j)
    BY <1>3 DEF Inherited
  <2>3. v.chain[i].next = w.chain[j].next
    BY <2>1, <2>2
  <2>4. SubSeq(v.chain, 1, i) = SubSeq(w.chain, 1, j)
    BY <2>1, <2>2, <2>3 DEF FreshKeys
  <2> QED BY <2>1, <2>2, <2>4
<1>4. CASE ~Inherited(t.chain, i) \/ ~Inherited(u.chain, j)
  BY <1>1, <1>2, <1>4
<1> QED BY <1>3, <1>4

LEMMA FreshKeysInvariant == Spec => []FreshKeys
<1>1. Init => FreshKeys
  BY DEF Init, FreshKeys
<1>2. ChainsOK /\ FreshKeys /\ [Next]_vars => FreshKeys'
  <2>1. ChainsOK /\ FreshKeys /\ Next => FreshKeys'
    BY ChainsOKGivesStep, FreshKeysStep
  <2>2. FreshKeys /\ UNCHANGED vars => FreshKeys'
    BY DEF FreshKeys, vars
  <2> QED BY <2>1, <2>2
<1> QED BY <1>1, <1>2, ChainsInvariant, PTL DEF Spec

LEMMA SameSignatureSamePast ==
    ASSUME ChainsOK, FreshKeys, NEW t \in tokens, NEW u \in tokens,
           NEW i \in DOMAIN t.chain, NEW j \in DOMAIN u.chain,
           t.chain[i].signature = u.chain[j].signature
    PROVE  SubSeq(t.chain, 1, i) = SubSeq(u.chain, 1, j)
<1>1. /\ t.chain[i].signature.over.next = t.chain[i].next
      /\ u.chain[j].signature.over.next = u.chain[j].next
  BY DEF ChainsOK, TokenOK, BlockOK
<1>2. t.chain[i].next = u.chain[j].next
  BY <1>1
<1> QED BY <1>2 DEF FreshKeys

\* A revocation identifier stands for one block and everything before it.
THEOREM RevocationIdentifies == Spec => []RevocationIdsIdentify
<1>1. ChainsOK /\ FreshKeys => RevocationIdsIdentify
  BY SameSignatureSamePast DEF RevocationIdsIdentify
<1> QED BY <1>1, ChainsInvariant, FreshKeysInvariant, PTL

-----------------------------------------------------------------------------
(* Biscuits are signed.                                                        *)

\* The part of BiscuitsVerify that is about signatures.
BiscuitsAreSigned ==
    \A t \in Biscuits : Verifies(t.chain, t.proof, RootKey[t.root_key_id])

LEMMA MintedVerifies ==
    ASSUME NEW new, Minted(new)
    PROVE  Verifies(new.chain, new.proof, RootKey[new.root_key_id])
<1>1. PICK b : /\ new.chain = <<b>>
               /\ Holds(new, b.next)
               /\ b.external = NoExternal
               /\ SignedBlock(b, RootKey[new.root_key_id], None)
  BY DEF Minted
<1>2. DOMAIN new.chain = {1} /\ new.chain[1] = b /\ Last(new.chain) = b
  BY <1>1, SingletonFacts, ChainFacts
<1>3. b.signature = Sign(RootKey[new.root_key_id],
                         BlockPayload(b.version, b.data, b.next, b.external, None))
  BY <1>1, SignedBlockFacts
<1>4. BlockVerifies(new.chain, 1, RootKey[new.root_key_id])
  BY <1>1, <1>2, <1>3 DEF BlockVerifies, PreviousSignature, SigningKey, Signed
<1>5. ProofVerifies(new.chain, new.proof)
  BY <1>1, <1>2 DEF Holds, ProofVerifies
<1> QED BY <1>2, <1>4, <1>5 DEF Verifies

LEMMA GrownVerifies ==
    ASSUME ChainsOK, NEW t \in tokens, NEW new, Grown(t, new), t.form = "verified",
           Verifies(t.chain, t.proof, RootKey[t.root_key_id])
    PROVE  Verifies(new.chain, new.proof, RootKey[new.root_key_id])
<1> DEFINE root == RootKey[t.root_key_id]
           n == Len(t.chain)
<1>1. PICK b : /\ new.chain = Append(t.chain, b)
               /\ b.signature = Sign(t.proof.key,
                      BlockPayload(b.version, b.data, b.next, b.external, LastSignature(t)))
               /\ Holds(new, b.next)
               /\ b.external # NoExternal => ExternalVerifies(b.data, LastSignature(t), b.external)
  BY GrownFacts
<1>2. IsChain(t.chain)
  BY DEF ChainsOK, TokenOK
<1>3. /\ Len(new.chain) = n + 1
      /\ \A i \in DOMAIN t.chain : new.chain[i] = t.chain[i]
      /\ new.chain[n + 1] = b
      /\ IsChain(new.chain)
      /\ Last(new.chain) = b
  BY <1>1, <1>2, AppendFacts
<1>4. /\ n \in Nat \ {0} /\ DOMAIN t.chain = 1..n
      /\ DOMAIN new.chain = 1..(n + 1)
      /\ Last(t.chain) = t.chain[n]
  BY <1>2, <1>3, ChainFacts
<1>5. t.proof.key = t.chain[n].next
  <2>1. t.proof.kind = "secret"
    BY DEF Grown, IsSealed, ChainsOK, TokenOK
  <2> QED BY <1>4, <2>1 DEF Verifies, ProofVerifies
<1>6. ASSUME NEW i \in 1..n
      PROVE  BlockVerifies(new.chain, i, root)
  <2>1. BlockVerifies(t.chain, i, root)
    BY <1>4 DEF Verifies
  <2>2. new.chain[i] = t.chain[i] /\ (i # 1 => new.chain[i - 1] = t.chain[i - 1])
    BY <1>3, <1>4
  <2>3. /\ PreviousSignature(new.chain, i) = PreviousSignature(t.chain, i)
        /\ SigningKey(new.chain, i, root) = SigningKey(t.chain, i, root)
    BY <2>2 DEF PreviousSignature, SigningKey
  <2> QED BY <2>1, <2>2, <2>3 DEF BlockVerifies
<1>7. BlockVerifies(new.chain, n + 1, root)
  <2>1. n + 1 # 1 /\ (n + 1) - 1 = n /\ new.chain[n] = t.chain[n]
    BY <1>3, <1>4
  <2>2. PreviousSignature(new.chain, n + 1) = LastSignature(t)
    BY <1>4, <2>1 DEF PreviousSignature, LastSignature
  <2>3. SigningKey(new.chain, n + 1, root) = t.proof.key
    BY <1>5, <2>1 DEF SigningKey
  <2> QED BY <1>1, <1>3, <2>2, <2>3 DEF BlockVerifies, Signed
<1>8. ProofVerifies(new.chain, new.proof)
  BY <1>1, <1>3 DEF Holds, ProofVerifies
<1>9. new.root_key_id = t.root_key_id
  BY DEF Grown
<1> QED BY <1>4, <1>6, <1>7, <1>8, <1>9 DEF Verifies

LEMMA CopiedVerifies ==
    ASSUME ChainsOK, BiscuitsAreSigned, NEW t \in tokens, NEW new, Copied(t, new),
           new.form = "verified"
    PROVE  Verifies(new.chain, new.proof, RootKey[new.root_key_id])
<1> SUFFICES ASSUME t.form = "verified", new.root_key_id = t.root_key_id, ~IsSealed(t),
                    new.proof = [kind |-> "seal",
                                 signature |-> Sign(t.proof.key, SealPayload(Last(t.chain)))]
             PROVE  Verifies(new.chain, new.proof, RootKey[new.root_key_id])
  BY DEF Copied
<1>1. new.chain = t.chain
  BY DEF Copied
<1>2. Verifies(t.chain, t.proof, RootKey[t.root_key_id])
  BY DEF BiscuitsAreSigned, Biscuits
<1>3. t.proof.key = Last(t.chain).next
  BY <1>2 DEF Verifies, ProofVerifies, IsSealed, ChainsOK, TokenOK
<1>4. new.proof.kind = "seal" /\ new.proof.signature = Sign(t.proof.key, SealPayload(Last(t.chain)))
  OBVIOUS
<1>5. ProofVerifies(new.chain, new.proof)
  BY <1>1, <1>3, <1>4 DEF ProofVerifies, Signed
<1> QED BY <1>1, <1>2, <1>5 DEF Verifies

\* Every Biscuit that the library hands out, however it was made, carries a
\* chain of signatures that verifies under the root key it names, and a proof
\* for its last block.
THEOREM BiscuitsSigned == Spec => []BiscuitsAreSigned
<1>1. Init => BiscuitsAreSigned
  BY DEF Init, BiscuitsAreSigned, Biscuits
<1>2. ChainsOK /\ BiscuitsAreSigned /\ [Next]_vars => BiscuitsAreSigned'
  <2>1. ASSUME ChainsOK, BiscuitsAreSigned, TokenStep
        PROVE  BiscuitsAreSigned'
    <3>1. ASSUME NEW t \in tokens, Verifies(t.chain, t.proof, RootKey[t.root_key_id]) \/ t.form # "verified",
                 NEW new, Grown(t, new), new.form = "verified"
          PROVE  Verifies(new.chain, new.proof, RootKey[new.root_key_id])
      <4>1. t.form = "verified"
        BY <3>1 DEF Grown
      <4> QED BY <2>1, <3>1, <4>1, GrownVerifies
    <3>2. \A t \in tokens : \/ Verifies(t.chain, t.proof, RootKey[t.root_key_id])
                            \/ t.form # "verified"
      BY <2>1 DEF BiscuitsAreSigned, Biscuits
    <3>3. ASSUME NEW new, tokens' = tokens \cup {new},
                 new.form = "verified" =>
                     Verifies(new.chain, new.proof, RootKey[new.root_key_id])
          PROVE  BiscuitsAreSigned'
      BY <3>2, <3>3 DEF BiscuitsAreSigned, Biscuits
    <3>4. CASE UNCHANGED tokens
      BY <3>2, <3>4 DEF BiscuitsAreSigned, Biscuits
    <3>5. ASSUME NEW new, tokens' = tokens \cup {new}, Minted(new)
          PROVE  BiscuitsAreSigned'
      BY <3>3, <3>5, MintedVerifies
    <3>6. ASSUME NEW new, tokens' = tokens \cup {new}, NEW t \in tokens, Grown(t, new)
          PROVE  BiscuitsAreSigned'
      BY <3>1, <3>2, <3>3, <3>6
    <3>7. ASSUME NEW new, tokens' = tokens \cup {new}, NEW t \in tokens, Copied(t, new)
          PROVE  BiscuitsAreSigned'
      BY <2>1, <3>3, <3>7, CopiedVerifies
    <3> QED BY <2>1, <3>4, <3>5, <3>6, <3>7 DEF TokenStep
  <2>2. BiscuitsAreSigned /\ UNCHANGED vars => BiscuitsAreSigned'
    BY DEF BiscuitsAreSigned, Biscuits, vars
  <2> QED BY <2>1, <2>2, ChainsOKGivesStep
<1> QED BY <1>1, <1>2, ChainsInvariant, PTL DEF Spec

-----------------------------------------------------------------------------
(* Third parties.                                                              *)

\* A third-party block has a block before it, and its external signature covers
\* the signature of that one.
LEMMA ExternalCoversPast ==
    ASSUME ChainsOK, BiscuitsAreSigned, NEW t \in Biscuits, NEW i \in DOMAIN t.chain,
           t.chain[i].external # NoExternal
    PROVE  /\ i \in Nat /\ i - 1 \in DOMAIN t.chain
           /\ t.chain[i].external.signature.over.previous = t.chain[i - 1].signature
<1>1. TokenOK(t) /\ t \in tokens
  BY DEF ChainsOK, Biscuits
<1>2. DOMAIN t.chain = 1..Len(t.chain) /\ Len(t.chain) \in Nat
  BY <1>1, ChainFacts DEF TokenOK
<1>3. i # 1
  BY <1>1 DEF TokenOK
<1>4. i \in Nat /\ i - 1 \in DOMAIN t.chain
  BY <1>2, <1>3
<1>5. BlockVerifies(t.chain, i, RootKey[t.root_key_id])
  BY DEF BiscuitsAreSigned, Verifies
<1>6. t.chain[i].external.signature
        = Sign(t.chain[i].external.key, ExternalPayload(t.chain[i].data, t.chain[i - 1].signature))
  BY <1>3, <1>5 DEF BlockVerifies, ExternalVerifies, Signed, PreviousSignature
<1>7. ASSUME NEW key, NEW data, NEW previous
      PROVE  Sign(key, ExternalPayload(data, previous)).over.previous = previous
  BY DEF Sign, ExternalPayload
<1> QED BY <1>4, <1>6, <1>7

\* The block that a third party signed is found, in the tokens that verify,
\* after one history only.
THEOREM ResponsesStayBound == Spec => []ResponsesAreBound
<1>1. ASSUME ChainsOK, FreshKeys, BiscuitsAreSigned
      PROVE  ResponsesAreBound
  <2> USE DEF ResponsesAreBound
  <2> TAKE t, u \in Biscuits
  <2> TAKE i \in DOMAIN t.chain, j \in DOMAIN u.chain
  <2> HAVE /\ ~IsOwn(t.chain[i])
           /\ t.chain[i].external = u.chain[j].external
  <2>0. t.chain[i].external # NoExternal /\ u.chain[j].external # NoExternal
    BY DEF IsOwn
  <2>1. /\ i - 1 \in DOMAIN t.chain
        /\ t.chain[i].external.signature.over.previous = t.chain[i - 1].signature
    BY <1>1, <2>0, ExternalCoversPast
  <2>2. /\ j - 1 \in DOMAIN u.chain
        /\ u.chain[j].external.signature.over.previous = u.chain[j - 1].signature
    BY <1>1, <2>0, ExternalCoversPast
  <2>3. t.chain[i - 1].signature = u.chain[j - 1].signature
    BY <2>1, <2>2
  <2>4. t \in tokens /\ u \in tokens
    BY DEF Biscuits
  <2> QED BY <1>1, <2>1, <2>2, <2>3, <2>4, SameSignatureSamePast
<1> QED BY <1>1, ChainsInvariant, FreshKeysInvariant, BiscuitsSigned, PTL

-----------------------------------------------------------------------------
(* Writing names and reading them.                                             *)

LEMMA NewIsAdded == \A table, names : New(table, names) = AllAdded(table, names)
BY DEF New, Added, AllAdded

\* What is added to a table: each name that was not there, once.
LEMMA NewFacts ==
    ASSUME NEW S, NEW table
    PROVE  \A names \in Seq(S) : /\ New(table, names) \in Seq(S)
                                 /\ Range(New(table, names)) = Range(names) \ Range(table)
                                 /\ IsInjective(New(table, names))
BY NewIsAdded, AddedFacts

\* The table that a block leaves.
Whole(table, names) == table \o New(table, names)

LEMMA WholeFacts ==
    ASSUME NEW S, NEW table \in Seq(S), NEW names \in Seq(S)
    PROVE  /\ Whole(table, names) \in Seq(S)
           /\ Range(Whole(table, names)) = Range(table) \cup Range(names)
           /\ IsInjective(table) => IsInjective(Whole(table, names))
BY NewFacts, RangeOfConcat, ConcatProperties DEF Whole

\* Names that are written are read back from the table that is left.
LEMMA ReadBack ==
    ASSUME NEW S, NEW table \in Seq(S), NEW names \in Seq(S)
    PROVE  /\ Write(table, names) \in Seq(Nat)
           /\ Range(Write(table, names)) \subseteq DOMAIN Whole(table, names)
           /\ Read(Whole(table, names), Write(table, names)) = names
<1> DEFINE all == Whole(table, names)
           w == Write(table, names)
<1>1. /\ all \in Seq(S) /\ DOMAIN all = 1..Len(all) /\ Len(all) \in Nat
      /\ Len(names) \in Nat /\ DOMAIN names = 1..Len(names)
  BY WholeFacts, LenProperties
<1>2. w = [i \in DOMAIN names |-> CHOOSE p \in DOMAIN all : all[p] = names[i]]
  BY DEF Write, Whole
<1> HIDE DEF all, w
<1>3. ASSUME NEW i \in DOMAIN names
      PROVE  w[i] \in DOMAIN all /\ all[w[i]] = names[i]
  <2>0. names[i] \in Range(names)
    BY DEF Range
  <2>1. Range(all) = Range(table) \cup Range(names)
    BY WholeFacts DEF all
  <2>2. \E p \in DOMAIN all : all[p] = names[i]
    BY <2>0, <2>1 DEF Range
  <2> QED BY <1>2, <2>2
<1>4. w \in Seq(Nat) /\ DOMAIN w = DOMAIN names
  <2>1. w \in [1..Len(names) -> Nat]
    BY <1>1, <1>2, <1>3
  <2> QED BY <1>1, <2>1, SeqDef
<1>5. Range(w) \subseteq DOMAIN all
  BY <1>3, <1>4 DEF Range
<1>6. Read(all, w) = names
  <2>1. Read(all, w) = [i \in DOMAIN names |-> names[i]]
    BY <1>3, <1>4 DEF Read
  <2> QED BY <1>1, <2>1, LenProperties
<1> QED BY <1>4, <1>5, <1>6 DEF all, w

\* A table that grows at its end does not change what was written before.
LEMMA ReadLater ==
    ASSUME NEW S, NEW table \in Seq(S), NEW more \in Seq(S),
           NEW indices, Range(indices) \subseteq DOMAIN table
    PROVE  /\ Read(table \o more, indices) = Read(table, indices)
           /\ Range(indices) \subseteq DOMAIN (table \o more)
<1>1. /\ DOMAIN table = 1..Len(table) /\ Len(table) \in Nat /\ Len(more) \in Nat
      /\ DOMAIN (table \o more) = 1..(Len(table) + Len(more))
      /\ \A i \in 1..Len(table) : (table \o more)[i] = table[i]
  BY ConcatProperties, LenProperties
<1>2. \A i \in DOMAIN indices : indices[i] \in DOMAIN table
  BY DEF Range
<1> QED BY <1>1, <1>2 DEF Read

-----------------------------------------------------------------------------
(* The tables of a chain.                                                      *)

Words == UNION {Range(c.words) : c \in Contents}
Scopes == UNION {Range(c.scopes) : c \in Contents}

\* The names that a block introduces.
DataOK(d) == d.symbols \in Seq(Words) /\ d.keys \in Seq(Scopes)

LEMMA ContentFacts ==
    ASSUME NEW c \in Contents
    PROVE  /\ c.words \in Seq(Words) /\ c.scopes \in Seq(Scopes)
           /\ c = [words |-> c.words, scopes |-> c.scopes, modern |-> c.modern]
<1>1. c \in [words: Seq(Range(c.words)), scopes: Seq(Range(c.scopes)), modern: BOOLEAN]
  BY ContentsAssumption
<1>2. Range(c.words) \subseteq Words /\ Range(c.scopes) \subseteq Scopes
  BY DEF Words, Scopes
<1>3. c.words \in Seq(Range(c.words)) /\ c.scopes \in Seq(Range(c.scopes))
  BY <1>1
<1>4. c.words \in Seq(Words) /\ c.scopes \in Seq(Scopes)
  BY <1>2, <1>3, SeqMonotonic
<1> QED BY <1>1, <1>4

\* What is built for a content says that content, under the tables that the
\* block leaves.
LEMMA BuiltFacts ==
    ASSUME NEW c \in Contents, NEW symbols \in Seq(Words), NEW keys \in Seq(Scopes),
           NEW d, d = Build(c, symbols, keys)
    PROVE  /\ DataOK(d)
           /\ IsInjective(d.symbols) /\ Range(symbols) \cap Range(d.symbols) = {}
           /\ IsInjective(d.keys) /\ Range(keys) \cap Range(d.keys) = {}
           /\ Range(d.words) \subseteq DOMAIN (symbols \o d.symbols)
           /\ Range(d.scopes) \subseteq DOMAIN (keys \o d.keys)
           /\ Meaning(d, symbols \o d.symbols, keys \o d.keys) = c
<1>1. /\ d.symbols = New(symbols, c.words) /\ d.words = Write(symbols, c.words)
      /\ d.keys = New(keys, c.scopes) /\ d.scopes = Write(keys, c.scopes)
      /\ d.modern = c.modern
  BY DEF Build
<1>2. /\ c.words \in Seq(Words) /\ c.scopes \in Seq(Scopes)
      /\ c = [words |-> c.words, scopes |-> c.scopes, modern |-> c.modern]
  BY ContentFacts
<1>3. DataOK(d) /\ IsInjective(d.symbols) /\ IsInjective(d.keys)
  BY <1>1, <1>2, NewFacts DEF DataOK
<1>4. Range(d.symbols) = Range(c.words) \ Range(symbols)
  BY <1>1, <1>2, NewFacts
<1>5. Range(d.keys) = Range(c.scopes) \ Range(keys)
  BY <1>1, <1>2, NewFacts
<1>6. /\ Range(d.words) \subseteq DOMAIN (symbols \o d.symbols)
      /\ Read(symbols \o d.symbols, d.words) = c.words
  BY <1>1, <1>2, ReadBack DEF Whole
<1>7. /\ Range(d.scopes) \subseteq DOMAIN (keys \o d.keys)
      /\ Read(keys \o d.keys, d.scopes) = c.scopes
  BY <1>1, <1>2, ReadBack DEF Whole
<1>8. Meaning(d, symbols \o d.symbols, keys \o d.keys) = c
  BY <1>1, <1>2, <1>6, <1>7 DEF Meaning
<1> QED BY <1>3, <1>4, <1>5, <1>6, <1>7, <1>8

OwnSymbols(b) == IF IsOwn(b) THEN b.data.symbols ELSE << >>
OwnKeys(b) == IF IsOwn(b) THEN b.data.keys ELSE << >>

LEMMA TablesOfFirst ==
    ASSUME NEW b, DataOK(b.data)
    PROVE  Symbols(<<b>>) = OwnSymbols(b) /\ PublicKeys(<<b>>) = OwnKeys(b)
<1> DEFINE q == [i \in DOMAIN <<b>> |-> OwnSymbols(<<b>>[i])]
           k == [i \in DOMAIN <<b>> |-> OwnKeys(<<b>>[i])]
<1>1. Symbols(<<b>>) = FlattenSeq(q) /\ PublicKeys(<<b>>) = FlattenSeq(k)
  BY DEF Symbols, PublicKeys, OwnSymbols, OwnKeys
<1>2. OwnSymbols(b) \in Seq(Words) /\ OwnKeys(b) \in Seq(Scopes)
  BY EmptySeq DEF OwnSymbols, OwnKeys, DataOK
<1>3. q = <<OwnSymbols(b)>> /\ k = <<OwnKeys(b)>>
  OBVIOUS
<1> HIDE DEF q, k
<1> QED BY <1>1, <1>2, <1>3, FlattenOfOne

LEMMA TablesOfLonger ==
    ASSUME NEW c, IsChain(c), \A i \in DOMAIN c : DataOK(c[i].data), NEW b, DataOK(b.data)
    PROVE  /\ Symbols(c) \in Seq(Words) /\ PublicKeys(c) \in Seq(Scopes)
           /\ Symbols(Append(c, b)) = Symbols(c) \o OwnSymbols(b)
           /\ PublicKeys(Append(c, b)) = PublicKeys(c) \o OwnKeys(b)
<1> DEFINE n == Len(c)
           a == Append(c, b)
           p == [i \in DOMAIN c |-> OwnSymbols(c[i])]
           q == [i \in DOMAIN a |-> OwnSymbols(a[i])]
           k == [i \in DOMAIN c |-> OwnKeys(c[i])]
           l == [i \in DOMAIN a |-> OwnKeys(a[i])]
<1>1. /\ Symbols(c) = FlattenSeq(p) /\ PublicKeys(c) = FlattenSeq(k)
      /\ Symbols(a) = FlattenSeq(q) /\ PublicKeys(a) = FlattenSeq(l)
  BY DEF Symbols, PublicKeys, OwnSymbols, OwnKeys
<1>2. /\ n \in Nat /\ DOMAIN c = 1..n /\ DOMAIN a = 1..(n + 1)
      /\ \A i \in 1..n : a[i] = c[i]
      /\ a[n + 1] = b
  BY ChainFacts, AppendFacts
<1>3. ASSUME NEW d, DataOK(d.data)
      PROVE  OwnSymbols(d) \in Seq(Words) /\ OwnKeys(d) \in Seq(Scopes)
  BY <1>3, EmptySeq DEF OwnSymbols, OwnKeys, DataOK
<1> HIDE DEF n, a
<1>4. \A i \in 1..(n + 1) : DataOK(a[i].data)
  BY <1>2
<1>5. /\ p \in [1..n -> Seq(Words)] /\ q \in [1..(n + 1) -> Seq(Words)]
      /\ \A i \in 1..n : q[i] = p[i]
      /\ q[n + 1] = OwnSymbols(b)
  BY <1>2, <1>3, <1>4
<1>6. /\ k \in [1..n -> Seq(Scopes)] /\ l \in [1..(n + 1) -> Seq(Scopes)]
      /\ \A i \in 1..n : l[i] = k[i]
      /\ l[n + 1] = OwnKeys(b)
  BY <1>2, <1>3, <1>4
<1> HIDE DEF p, q, k, l
<1>7. FlattenSeq(p) \in Seq(Words) /\ FlattenSeq(q) = FlattenSeq(p) \o q[n + 1]
  BY <1>2, <1>5, FlattenOfLonger
<1>8. FlattenSeq(k) \in Seq(Scopes) /\ FlattenSeq(l) = FlattenSeq(k) \o l[n + 1]
  BY <1>2, <1>6, FlattenOfLonger
<1> QED BY <1>1, <1>5, <1>6, <1>7, <1>8 DEF a

-----------------------------------------------------------------------------
(* What each operation does, field by field.                                   *)

\* A block with a key pair that was just generated.
NewBlock(b) ==
    /\ \E alg \in Algorithms : b.next = NextKey(alg)
    /\ IsOwn(b) \/ b.version = 1

Longer(t, new, b) ==
    /\ ~IsSealed(t) /\ ~IsSealed(new)
    /\ new.form = t.form
    /\ new.root_key_id = t.root_key_id
    /\ new.chain = Append(t.chain, b)
    /\ NewBlock(b)

\* The same token, with a proof and tables of its own.
SameChain(t, new) ==
    /\ new.root_key_id = t.root_key_id
    /\ new.chain = t.chain

Enters(new) == answer' = "ok" /\ tokens' = tokens \cup {new}

\* The step made a key pair that the code could still make.
OneMoreKey == keyPairs < MaxKeyPairs /\ keyPairs' = keyPairs + 1

\* What enters when a token is made, when its holder writes a content c in it, and
\* when the block of a response r is added to it.
FirstBlock(new, b, id, c) ==
    /\ Enters(new) /\ NewBlock(b)
    /\ new.form = "verified" /\ new.root_key_id = id /\ new.chain = <<b>>
    /\ ~IsSealed(new)
    /\ b.data = Build(c, << >>, << >>) /\ b.external = NoExternal
    /\ new.symbols = b.data.symbols /\ new.keys = b.data.keys

HolderBlock(t, new, b, c) ==
    /\ Enters(new) /\ Longer(t, new, b)
    /\ b.data = Build(c, t.symbols, t.keys) /\ b.external = NoExternal
    /\ new.symbols = t.symbols \o b.data.symbols
    /\ new.keys = t.keys \o b.data.keys

ResponseBlock(t, new, b, r, keys) ==
    /\ Enters(new) /\ Longer(t, new, b)
    /\ b.data = r.data /\ b.external = r.external
    /\ new.symbols = t.symbols /\ new.keys = keys

LEMMA ExtendedFields ==
    ASSUME NEW t, IsToken(t), ~IsSealed(t), NEW data, NEW external, NEW modern,
           NEW alg \in Algorithms
    PROVE  LET u == Extended(t, data, external, modern, NextKey(alg))
           IN  /\ IsToken(u) /\ u.symbols = t.symbols /\ u.keys = t.keys
               /\ \E b : Longer(t, u, b) /\ b.data = data /\ b.external = external
<1> DEFINE u == Extended(t, data, external, modern, NextKey(alg))
           next == NextKey(alg)
           version == BlockSignatureVersion(t.proof.key, next, external, modern,
                                            Versions(t.chain))
           signature == Sign(t.proof.key, BlockPayload(version, data, next, external,
                                                       LastSignature(t)))
           b == [data |-> data, next |-> next, external |-> external,
                 version |-> version, signature |-> signature]
<1>1. u = [t EXCEPT !.chain = Append(@, b), !.proof = [kind |-> "secret", key |-> next]]
  BY DEF Extended
<1>2. external = NoExternal \/ version = 1
  BY DEF BlockSignatureVersion
<1> HIDE DEF next, version, signature
<1>3. b.data = data /\ b.next = next /\ b.external = external /\ b.version = version
  OBVIOUS
<1> HIDE DEF b, u
<1>4. u \in [form: {t.form}, root_key_id: {t.root_key_id}, chain: {Append(t.chain, b)},
             proof: {[kind |-> "secret", key |-> next]}, symbols: {t.symbols}, keys: {t.keys}]
  BY <1>1 DEF IsToken
<1>5. NewBlock(b)
  BY <1>2, <1>3 DEF NewBlock, IsOwn, next
<1>6. IsToken(u) /\ u.symbols = t.symbols /\ u.keys = t.keys
  BY <1>4 DEF IsToken
<1>7. Longer(t, u, b)
  BY <1>4, <1>5 DEF Longer, IsSealed
<1> QED BY <1>3, <1>6, <1>7 DEF u

LEMMA WithTables ==
    ASSUME NEW t, NEW u, NEW b, Longer(t, u, b), NEW symbols, NEW keys,
           NEW new \in [form: {u.form}, root_key_id: {u.root_key_id}, chain: {u.chain},
                        proof: {u.proof}, symbols: {symbols}, keys: {keys}]
    PROVE  Longer(t, new, b) /\ new.symbols = symbols /\ new.keys = keys
BY DEF Longer, IsSealed

LEMMA SignsFacts ==
    ASSUME NEW new, Signs(new)
    PROVE  Enters(new) /\ OneMoreKey
BY DEF Signs, Returns, Enters, OneMoreKey

LEMMA MintCases ==
    ASSUME NEW id \in DOMAIN RootKey, NEW c, NEW alg \in Algorithms, Mint(id, c, alg)
    PROVE  /\ Called("mint", c) /\ UNCHANGED <<requests, responses>> /\ OneMoreKey
           /\ \E new, b : FirstBlock(new, b, id, c)
<1> DEFINE root == RootKey[id]
           next == NextKey(alg)
           data == Build(c, << >>, << >>)
           version == BlockSignatureVersion(root, next, NoExternal, data.modern, {})
           signature == Sign(root, BlockPayload(version, data, next, NoExternal, None))
           b == [data |-> data, next |-> next, external |-> NoExternal, version |-> version,
                 signature |-> signature]
           new == [form |-> "verified", root_key_id |-> id, chain |-> <<b>>,
                   proof |-> [kind |-> "secret", key |-> next],
                   symbols |-> data.symbols, keys |-> data.keys]
<1>1. Called("mint", c) /\ Signs(new) /\ UNCHANGED <<requests, responses>>
  BY DEF Mint
<1> HIDE DEF root, next, data, version, signature
<1>2. b.data = data /\ b.next = next /\ b.external = NoExternal
  OBVIOUS
<1>3. NewBlock(b)
  BY <1>2 DEF NewBlock, IsOwn, next
<1> HIDE DEF b
<1>4. /\ new.form = "verified" /\ new.root_key_id = id /\ new.chain = <<b>>
      /\ new.symbols = data.symbols /\ new.keys = data.keys
      /\ ~IsSealed(new)
  BY DEF IsSealed
<1> HIDE DEF new
<1>5. FirstBlock(new, b, id, c)
  BY <1>1, <1>2, <1>3, <1>4, SignsFacts DEF FirstBlock, data
<1> QED BY <1>1, <1>5, SignsFacts

LEMMA AppendCases ==
    ASSUME NEW t, IsToken(t), NEW c, NEW alg \in Algorithms, AppendBlock(t, c, alg)
    PROVE  /\ Called("append", c) /\ UNCHANGED <<requests, responses>>
           /\ \/ ~Disjoint(t.symbols, Build(c, t.symbols, t.keys).symbols) /\ Refuses("overlap")
              \/ IsSealed(t) /\ Refuses("already_sealed")
              \/ /\ OneMoreKey
                 /\ \E new, b : HolderBlock(t, new, b, c)
<1> DEFINE data == Build(c, t.symbols, t.keys)
           u == Extended(t, data, NoExternal, data.modern, NextKey(alg))
           new == [u EXCEPT !.symbols = @ \o data.symbols, !.keys = @ \o data.keys]
<1>1. /\ Called("append", c) /\ UNCHANGED <<requests, responses>>
      /\ \/ ~Disjoint(t.symbols, data.symbols) /\ Refuses("overlap")
         \/ IsSealed(t) /\ Refuses("already_sealed")
         \/ ~IsSealed(t) /\ Signs(new)
  <2> HIDE DEF data, u
  <2> QED BY DEF AppendBlock, data, u
<1> HIDE DEF data
<1>2. ASSUME ~IsSealed(t), Signs(new)
      PROVE  /\ OneMoreKey
             /\ \E n, b : HolderBlock(t, n, b, c)
  <2>1. /\ IsToken(u) /\ u.symbols = t.symbols /\ u.keys = t.keys
        /\ \E b : Longer(t, u, b) /\ b.data = data /\ b.external = NoExternal
    BY <1>2, ExtendedFields
  <2> HIDE DEF u
  <2>2. PICK b : Longer(t, u, b) /\ b.data = data /\ b.external = NoExternal
    BY <2>1
  <2>3. new \in [form: {u.form}, root_key_id: {u.root_key_id}, chain: {u.chain},
                 proof: {u.proof}, symbols: {u.symbols \o data.symbols},
                 keys: {u.keys \o data.keys}]
    BY <2>1 DEF IsToken
  <2> HIDE DEF new
  <2>4. /\ Longer(t, new, b) /\ new.symbols = u.symbols \o data.symbols
        /\ new.keys = u.keys \o data.keys
    BY <2>2, <2>3, WithTables
  <2>5. Enters(new) /\ OneMoreKey
    BY <1>2, SignsFacts
  <2> QED BY <2>1, <2>2, <2>4, <2>5 DEF HolderBlock, data
<1> QED BY <1>1, <1>2 DEF data

LEMMA AcceptCases ==
    ASSUME NEW t, IsToken(t), NEW r, NEW expected, NEW alg \in Algorithms,
           AcceptThirdParty(t, r, expected, alg)
    PROVE  /\ CalledWith(r, expected) /\ UNCHANGED <<requests, responses>>
           /\ \/ expected # r.external.key /\ Refuses("unexpected_key")
              \/ /\ expected = r.external.key
                 /\ ~ExternalVerifies(r.data, LastSignature(t), r.external)
                 /\ Refuses("invalid_signature")
              \/ /\ expected = r.external.key
                 /\ ExternalVerifies(r.data, LastSignature(t), r.external)
                 /\ IsSealed(t) /\ Refuses("already_sealed")
              \/ /\ expected = r.external.key
                 /\ ExternalVerifies(r.data, LastSignature(t), r.external)
                 /\ OneMoreKey
                 /\ \E new, b : ResponseBlock(t, new, b, r, t.keys)
<1> DEFINE u == Extended(t, r.data, r.external, FALSE, NextKey(alg))
           good == ExternalVerifies(r.data, LastSignature(t), r.external)
<1>1. /\ CalledWith(r, expected) /\ UNCHANGED <<requests, responses>>
      /\ \/ expected # r.external.key /\ Refuses("unexpected_key")
         \/ expected = r.external.key /\ ~good /\ Refuses("invalid_signature")
         \/ expected = r.external.key /\ good /\ IsSealed(t) /\ Refuses("already_sealed")
         \/ expected = r.external.key /\ good /\ ~IsSealed(t) /\ Signs(u)
  <2> HIDE DEF u, good
  <2> QED BY DEF AcceptThirdParty, u, good
<1> HIDE DEF good
<1>2. ASSUME ~IsSealed(t), Signs(u)
      PROVE  /\ OneMoreKey
             /\ \E new, b : ResponseBlock(t, new, b, r, t.keys)
  <2>1. /\ u.symbols = t.symbols /\ u.keys = t.keys
        /\ \E b : Longer(t, u, b) /\ b.data = r.data /\ b.external = r.external
    <3>1. PICK modern : modern = FALSE
      OBVIOUS
    <3>2. u = Extended(t, r.data, r.external, modern, NextKey(alg))
      BY <3>1
    <3> HIDE DEF u
    <3> QED BY <1>2, <3>2, ExtendedFields
  <2> HIDE DEF u
  <2>2. Enters(u) /\ OneMoreKey
    BY <1>2, SignsFacts
  <2> QED BY <2>1, <2>2 DEF ResponseBlock
<1> QED BY <1>1, <1>2 DEF good

LEMMA AcceptUnverifiedCases ==
    ASSUME NEW t, IsToken(t), NEW r, NEW alg \in Algorithms,
           AcceptThirdPartyUnverified(t, r, alg)
    PROVE  /\ Called("append_third_party", ContentIn(r)) /\ UNCHANGED <<requests, responses>>
           /\ t.form = "unverified"
           /\ \/ \E error : Refuses(error)
              \/ /\ OneMoreKey /\ Disjoint(t.keys, r.data.keys)
                 /\ \E new, b : ResponseBlock(t, new, b, r, t.keys \o r.data.keys)
<1> DEFINE u == Extended(t, r.data, r.external, FALSE, NextKey(alg))
           new == [u EXCEPT !.keys = @ \o r.data.keys]
<1>1. /\ Called("append_third_party", ContentIn(r)) /\ UNCHANGED <<requests, responses>>
      /\ t.form = "unverified"
      /\ \/ \E error : Refuses(error)
         \/ ~IsSealed(t) /\ Disjoint(t.keys, r.data.keys) /\ Signs(new)
  <2> HIDE DEF u
  <2> QED BY DEF AcceptThirdPartyUnverified, u
<1>2. ASSUME ~IsSealed(t), Signs(new)
      PROVE  /\ OneMoreKey
             /\ \E n, b : ResponseBlock(t, n, b, r, t.keys \o r.data.keys)
  <2>1. /\ IsToken(u) /\ u.symbols = t.symbols /\ u.keys = t.keys
        /\ \E b : Longer(t, u, b) /\ b.data = r.data /\ b.external = r.external
    <3>1. PICK modern : modern = FALSE
      OBVIOUS
    <3>2. u = Extended(t, r.data, r.external, modern, NextKey(alg))
      BY <3>1
    <3> HIDE DEF u
    <3> QED BY <1>2, <3>2, ExtendedFields
  <2> HIDE DEF u
  <2>2. PICK b : Longer(t, u, b) /\ b.data = r.data /\ b.external = r.external
    BY <2>1
  <2>3. new \in [form: {u.form}, root_key_id: {u.root_key_id}, chain: {u.chain},
                 proof: {u.proof}, symbols: {u.symbols}, keys: {u.keys \o r.data.keys}]
    BY <2>1 DEF IsToken
  <2> HIDE DEF new
  <2>4. Longer(t, new, b) /\ new.symbols = u.symbols /\ new.keys = u.keys \o r.data.keys
    BY <2>2, <2>3, WithTables
  <2>5. Enters(new) /\ OneMoreKey
    BY <1>2, SignsFacts
  <2> QED BY <2>1, <2>2, <2>4, <2>5 DEF ResponseBlock
<1> QED BY <1>1, <1>2

LEMMA SealCases ==
    ASSUME NEW t, IsToken(t), Seal(t)
    PROVE  /\ Called("seal", NoContent) /\ UNCHANGED <<requests, responses, keyPairs>>
           /\ \/ IsSealed(t) /\ Refuses("already_sealed")
              \/ /\ ~IsSealed(t)
                 /\ \E new : /\ Enters(new) /\ SameChain(t, new) /\ IsSealed(new)
                             /\ new.form = t.form
                             /\ new.symbols = t.symbols /\ new.keys = t.keys
<1> DEFINE proof == [kind |-> "seal", signature |-> Sign(t.proof.key, SealPayload(Last(t.chain)))]
           new == [t EXCEPT !.proof = proof]
<1>1. /\ Called("seal", NoContent) /\ UNCHANGED <<requests, responses>>
      /\ \/ IsSealed(t) /\ Refuses("already_sealed")
         \/ ~IsSealed(t) /\ Keeps(new)
  BY DEF Seal
<1>2. proof.kind = "seal"
  OBVIOUS
<1> HIDE DEF proof
<1>3. new \in [form: {t.form}, root_key_id: {t.root_key_id}, chain: {t.chain},
               proof: {proof}, symbols: {t.symbols}, keys: {t.keys}]
  BY DEF IsToken
<1> HIDE DEF new
<1>4. /\ SameChain(t, new) /\ IsSealed(new) /\ new.form = t.form
      /\ new.symbols = t.symbols /\ new.keys = t.keys
  BY <1>2, <1>3 DEF SameChain, IsSealed
<1>5. Keeps(new) => Enters(new) /\ UNCHANGED keyPairs
  BY DEF Keeps, Returns, Enters
<1>6. ASSUME NEW error, Refuses(error)
      PROVE  UNCHANGED keyPairs
  BY <1>6 DEF Refuses
<1> QED BY <1>1, <1>4, <1>5, <1>6

LEMMA DecodedFields ==
    ASSUME NEW t, IsToken(t), NEW form
    PROVE  LET new == Decoded(t, form)
           IN  /\ SameChain(t, new) /\ new.form = form /\ new.proof = t.proof
               /\ new.symbols = Symbols(t.chain) /\ new.keys = PublicKeys(t.chain)
<1> DEFINE symbols == Symbols(t.chain)
           keys == PublicKeys(t.chain)
           new == [t EXCEPT !.form = form, !.symbols = symbols, !.keys = keys]
<1>1. Decoded(t, form) = new
  BY DEF Decoded
<1> HIDE DEF symbols, keys
<1>2. new \in [form: {form}, root_key_id: {t.root_key_id}, chain: {t.chain},
               proof: {t.proof}, symbols: {symbols}, keys: {keys}]
  BY DEF IsToken
<1> HIDE DEF new
<1> QED BY <1>1, <1>2 DEF SameChain, symbols, keys

\* A token read back, in either form, has the tables of its bytes.
LEMMA ReadCases ==
    ASSUME NEW t, IsToken(t), ReadBiscuit(t) \/ ReadUnverified(t)
    PROVE  /\ Called("from", NoContent) /\ UNCHANGED <<requests, responses, keyPairs>>
           /\ \/ \E error : Refuses(error)
              \/ /\ Decodes(t.chain)
                 /\ \E new : /\ Enters(new) /\ SameChain(t, new) /\ new.proof = t.proof
                             /\ new.form \in Forms
                             /\ new.symbols = Symbols(t.chain)
                             /\ new.keys = PublicKeys(t.chain)
<1> DEFINE read(form) == Decoded(t, form)
<1>1. /\ Called("from", NoContent) /\ UNCHANGED <<requests, responses>>
      /\ \/ \E error : Refuses(error)
         \/ Decodes(t.chain) /\ \E form \in Forms : Keeps(read(form))
  BY FormsAssumption DEF ReadBiscuit, ReadUnverified
<1>2. ASSUME NEW form
      PROVE  /\ SameChain(t, read(form)) /\ read(form).form = form /\ read(form).proof = t.proof
             /\ read(form).symbols = Symbols(t.chain) /\ read(form).keys = PublicKeys(t.chain)
  BY DecodedFields
<1> HIDE DEF read
<1>3. ASSUME NEW new, Keeps(new)
      PROVE  Enters(new) /\ UNCHANGED keyPairs
  BY <1>3 DEF Keeps, Returns, Enters
<1>4. ASSUME NEW error, Refuses(error)
      PROVE  UNCHANGED keyPairs
  BY <1>4 DEF Refuses
<1> QED BY <1>1, <1>2, <1>3, <1>4

LEMMA VerifyCases ==
    ASSUME NEW t, IsToken(t), Verify(t)
    PROVE  /\ Called("verify", NoContent) /\ UNCHANGED <<requests, responses, keyPairs>>
           /\ t.form = "unverified"
           /\ \/ \E error : Refuses(error)
              \/ \E new : /\ Enters(new) /\ SameChain(t, new) /\ new.form = "verified"
                          /\ new.symbols = t.symbols /\ new.keys = t.keys
<1> DEFINE new == [t EXCEPT !.form = "verified"]
<1>1. /\ Called("verify", NoContent) /\ UNCHANGED <<requests, responses>>
      /\ t.form = "unverified"
      /\ (\E error : Refuses(error)) \/ Keeps(new)
  BY DEF Verify
<1>2. new \in [form: {"verified"}, root_key_id: {t.root_key_id}, chain: {t.chain},
               proof: {t.proof}, symbols: {t.symbols}, keys: {t.keys}]
  BY DEF IsToken
<1> HIDE DEF new
<1>3. /\ SameChain(t, new) /\ new.form = "verified"
      /\ new.symbols = t.symbols /\ new.keys = t.keys
  BY <1>2 DEF SameChain
<1>4. Keeps(new) => Enters(new) /\ UNCHANGED keyPairs
  BY DEF Keeps, Returns, Enters
<1>5. ASSUME NEW error, Refuses(error)
      PROVE  UNCHANGED keyPairs
  BY <1>5 DEF Refuses
<1> QED BY <1>1, <1>3, <1>4, <1>5

\* A response carries a content of its own, and is signed for one request.
SignedFor(r, request) ==
    r.external.signature = Sign(r.external.key, ExternalPayload(r.data, request))

LEMMA CreateBlockCases ==
    ASSUME NEW request, NEW service, NEW c, CreateBlock(request, service, c)
    PROVE  /\ Called("create_block", c) /\ UNCHANGED <<tokens, requests, keyPairs>>
           /\ answer' = "ok"
           /\ \E r : /\ responses' = responses \cup {r}
                     /\ r.data = Build(c, << >>, << >>)
                     /\ r.external.key = service
                     /\ SignedFor(r, request)
<1> DEFINE data == Build(c, << >>, << >>)
           signature == Sign(service, ExternalPayload(data, request))
           r == [data |-> data, external |-> [key |-> service, signature |-> signature]]
<1>1. /\ Called("create_block", c) /\ UNCHANGED <<tokens, requests, keyPairs>>
      /\ answer' = "ok" /\ responses' = responses \cup {r}
  BY DEF CreateBlock
<1> HIDE DEF data, signature
<1>2. r.data = data /\ r.external.key = service /\ r.external.signature = signature
  OBVIOUS
<1> HIDE DEF r
<1>3. SignedFor(r, request)
  BY <1>2 DEF SignedFor, signature
<1> QED BY <1>1, <1>2, <1>3 DEF data

-----------------------------------------------------------------------------
(* The tables of tokens.                                                       *)

BlockTyped(b) ==
    /\ DataOK(b.data)
    /\ b.next \in Keys
    /\ IsOwn(b) \/ b.version = 1

\* The words of a token are those of its own blocks, each once. Its keys are
\* those of its own blocks, and maybe some of third parties.
Tabled(t) ==
    /\ t.form \in Forms
    /\ t.root_key_id \in DOMAIN RootKey
    /\ \A i \in DOMAIN t.chain : BlockTyped(t.chain[i])
    /\ t.symbols = Symbols(t.chain)
    /\ t.symbols \in Seq(Words) /\ IsInjective(t.symbols)
    /\ t.keys \in Seq(Scopes) /\ IsInjective(t.keys)
    /\ IsInjective(PublicKeys(t.chain))
    /\ Range(PublicKeys(t.chain)) \subseteq Range(t.keys)

\* A third party wrote a content, with tables of its own.
Written(r) ==
    /\ r.external.key \in Services
    /\ DataOK(r.data) /\ IsInjective(r.data.keys)
    /\ ContentIn(r) \in Contents

TablesOK ==
    /\ keyPairs \in 0..MaxKeyPairs
    /\ call.content \in Contents \cup {NoContent}
    /\ \A t \in tokens : Tabled(t)
    /\ \A r \in responses : Written(r)

LEMMA EmptyTables == /\ << >> \in Seq(Words) /\ << >> \in Seq(Scopes)
                     /\ \A S : \A s \in Seq(S) : << >> \o s = s /\ s \o << >> = s
BY EmptySeq, ConcatEmptySeq

\* What is built with empty tables says its content by itself.
LEMMA BuiltAlone ==
    ASSUME NEW c \in Contents, NEW d, d = Build(c, << >>, << >>)
    PROVE  /\ DataOK(d) /\ IsInjective(d.symbols) /\ IsInjective(d.keys)
           /\ Range(d.words) \subseteq DOMAIN d.symbols
           /\ Range(d.scopes) \subseteq DOMAIN d.keys
           /\ Meaning(d, d.symbols, d.keys) = c
<1>1. PICK none : none = << >>
  OBVIOUS
<1>2. none \in Seq(Words) /\ none \in Seq(Scopes) /\ d = Build(c, none, none)
  BY <1>1, EmptyTables
<1>3. DataOK(d) /\ IsInjective(d.symbols) /\ IsInjective(d.keys)
  BY <1>2, BuiltFacts
<1>4. Range(d.words) \subseteq DOMAIN (none \o d.symbols)
  BY <1>2, BuiltFacts
<1>5. Range(d.scopes) \subseteq DOMAIN (none \o d.keys)
  BY <1>2, BuiltFacts
<1>6. Meaning(d, none \o d.symbols, none \o d.keys) = c
  BY <1>2, BuiltFacts
<1>7. none \o d.symbols = d.symbols /\ none \o d.keys = d.keys
  BY <1>1, <1>3, EmptyTables DEF DataOK
<1> QED BY <1>3, <1>4, <1>5, <1>6, <1>7

LEMMA NewKeyTyped ==
    ASSUME keyPairs \in 0..MaxKeyPairs, OneMoreKey, NEW b, NewBlock(b)
    PROVE  /\ b.next \in Keys /\ (IsOwn(b) \/ b.version = 1)
           /\ keyPairs' \in 0..MaxKeyPairs
<1>1. PICK alg \in Algorithms : b.next = [id |-> keyPairs + 1, alg |-> alg]
  BY DEF NewBlock, NextKey
<1>2. keyPairs + 1 \in 1..MaxKeyPairs /\ keyPairs' \in 0..MaxKeyPairs
  BY MaxKeyPairsAssumption DEF OneMoreKey
<1> QED BY <1>1, <1>2 DEF Keys, NewBlock

LEMMA FirstTabled ==
    ASSUME NEW new, NEW b, NEW c \in Contents, BlockTyped(b), IsOwn(b),
           b.data = Build(c, << >>, << >>), new.chain = <<b>>, new.form \in Forms,
           new.root_key_id \in DOMAIN RootKey,
           new.symbols = b.data.symbols, new.keys = b.data.keys
    PROVE  Tabled(new)
<1>1. DataOK(b.data) /\ IsInjective(b.data.symbols) /\ IsInjective(b.data.keys)
  BY BuiltAlone
<1>2. Symbols(<<b>>) = b.data.symbols /\ PublicKeys(<<b>>) = b.data.keys
  BY <1>1, TablesOfFirst DEF OwnSymbols, OwnKeys
<1>3. \A i \in DOMAIN new.chain : new.chain[i] = b
  OBVIOUS
<1> QED BY <1>1, <1>2, <1>3 DEF Tabled, DataOK

LEMMA LongerChain ==
    ASSUME NEW t, IsChain(t.chain), Tabled(t), NEW new, NEW b, Longer(t, new, b), BlockTyped(b)
    PROVE  /\ new.form \in Forms /\ new.root_key_id \in DOMAIN RootKey
           /\ \A i \in DOMAIN new.chain : BlockTyped(new.chain[i])
           /\ Symbols(t.chain) \in Seq(Words) /\ PublicKeys(t.chain) \in Seq(Scopes)
           /\ Symbols(new.chain) = Symbols(t.chain) \o OwnSymbols(b)
           /\ PublicKeys(new.chain) = PublicKeys(t.chain) \o OwnKeys(b)
<1>1. new.chain = Append(t.chain, b)
  BY DEF Longer
<1>2. /\ Len(t.chain) \in Nat /\ DOMAIN t.chain = 1..Len(t.chain)
      /\ DOMAIN new.chain = 1..(Len(t.chain) + 1)
      /\ \A i \in DOMAIN t.chain : new.chain[i] = t.chain[i]
      /\ new.chain[Len(t.chain) + 1] = b
  BY <1>1, ChainFacts, AppendFacts
<1>3. \A i \in DOMAIN new.chain : BlockTyped(new.chain[i])
  <2>1. \A i \in DOMAIN t.chain : BlockTyped(t.chain[i])
    BY DEF Tabled
  <2>2. \A i \in DOMAIN new.chain : i \in DOMAIN t.chain \/ i = Len(t.chain) + 1
    BY <1>2
  <2> QED BY <1>2, <2>1, <2>2
<1>4. /\ Symbols(t.chain) \in Seq(Words) /\ PublicKeys(t.chain) \in Seq(Scopes)
      /\ Symbols(new.chain) = Symbols(t.chain) \o OwnSymbols(b)
      /\ PublicKeys(new.chain) = PublicKeys(t.chain) \o OwnKeys(b)
  <2>1. \A i \in DOMAIN t.chain : DataOK(t.chain[i].data)
    BY DEF Tabled, BlockTyped
  <2> QED BY <1>1, <2>1, TablesOfLonger DEF BlockTyped
<1> QED BY <1>3, <1>4 DEF Longer, Tabled

\* A block of the holder introduces the names that the tables did not have.
LEMMA AppendTabled ==
    ASSUME NEW t, IsChain(t.chain), Tabled(t), NEW new, NEW b, Longer(t, new, b),
           BlockTyped(b), IsOwn(b), NEW c \in Contents, b.data = Build(c, t.symbols, t.keys),
           new.symbols = t.symbols \o b.data.symbols, new.keys = t.keys \o b.data.keys
    PROVE  Tabled(new)
<1>1. /\ t.symbols \in Seq(Words) /\ IsInjective(t.symbols) /\ t.symbols = Symbols(t.chain)
      /\ t.keys \in Seq(Scopes) /\ IsInjective(t.keys)
      /\ IsInjective(PublicKeys(t.chain)) /\ Range(PublicKeys(t.chain)) \subseteq Range(t.keys)
  BY DEF Tabled
<1>2. /\ b.data.symbols \in Seq(Words) /\ b.data.keys \in Seq(Scopes)
      /\ IsInjective(b.data.symbols) /\ Range(t.symbols) \cap Range(b.data.symbols) = {}
      /\ IsInjective(b.data.keys) /\ Range(t.keys) \cap Range(b.data.keys) = {}
  BY <1>1, BuiltFacts DEF DataOK
<1>3. /\ PublicKeys(t.chain) \in Seq(Scopes)
      /\ Symbols(new.chain) = t.symbols \o b.data.symbols
      /\ PublicKeys(new.chain) = PublicKeys(t.chain) \o b.data.keys
  BY <1>1, LongerChain DEF OwnSymbols, OwnKeys
<1>4. new.symbols \in Seq(Words) /\ IsInjective(new.symbols)
  BY <1>1, <1>2, RangeOfConcat, ConcatProperties
<1>5. /\ new.keys \in Seq(Scopes) /\ IsInjective(new.keys)
      /\ Range(new.keys) = Range(t.keys) \cup Range(b.data.keys)
  BY <1>1, <1>2, RangeOfConcat, ConcatProperties
<1>6. /\ IsInjective(PublicKeys(new.chain))
      /\ Range(PublicKeys(new.chain)) = Range(PublicKeys(t.chain)) \cup Range(b.data.keys)
  <2>1. Range(PublicKeys(t.chain)) \cap Range(b.data.keys) = {}
    BY <1>1, <1>2
  <2> QED BY <1>1, <1>2, <1>3, <2>1, RangeOfConcat
<1> QED BY <1>1, <1>3, <1>4, <1>5, <1>6, LongerChain DEF Tabled

\* A block of a third party is not in the tables of the bytes. An unverified
\* token that accepts it adds its keys, when it has none of them.
LEMMA AcceptTabled ==
    ASSUME NEW t, IsChain(t.chain), Tabled(t), NEW new, NEW b, Longer(t, new, b),
           BlockTyped(b), ~IsOwn(b), IsInjective(b.data.keys), new.symbols = t.symbols,
           \/ new.keys = t.keys
           \/ new.keys = t.keys \o b.data.keys /\ Disjoint(t.keys, b.data.keys)
    PROVE  Tabled(new)
<1>1. /\ t.symbols \in Seq(Words) /\ IsInjective(t.symbols) /\ t.symbols = Symbols(t.chain)
      /\ t.keys \in Seq(Scopes) /\ IsInjective(t.keys)
      /\ IsInjective(PublicKeys(t.chain)) /\ Range(PublicKeys(t.chain)) \subseteq Range(t.keys)
  BY DEF Tabled
<1>2. b.data.keys \in Seq(Scopes)
  BY DEF BlockTyped, DataOK
<1>3. Symbols(new.chain) = t.symbols /\ PublicKeys(new.chain) = PublicKeys(t.chain)
  BY <1>1, LongerChain, EmptyTables DEF OwnSymbols, OwnKeys
<1>4. /\ new.keys \in Seq(Scopes) /\ IsInjective(new.keys)
      /\ Range(t.keys) \subseteq Range(new.keys)
  <2>1. CASE new.keys = t.keys
    BY <1>1, <2>1
  <2>2. CASE new.keys = t.keys \o b.data.keys /\ Range(t.keys) \cap Range(b.data.keys) = {}
    <3>1. new.keys \in Seq(Scopes)
      BY <1>1, <1>2, <2>2, ConcatProperties
    <3> QED BY <1>1, <1>2, <2>2, <3>1, RangeOfConcat
  <2> QED BY <2>1, <2>2 DEF Disjoint
<1> QED BY <1>1, <1>3, <1>4, LongerChain DEF Tabled

LEMMA SameTabled ==
    ASSUME NEW t, Tabled(t), NEW new, SameChain(t, new), new.form \in Forms,
           new.symbols = t.symbols, new.keys = t.keys
    PROVE  Tabled(new)
BY DEF Tabled, SameChain

LEMMA ReadTabled ==
    ASSUME NEW t, IsChain(t.chain), Tabled(t), NEW new, SameChain(t, new), new.form \in Forms,
           new.symbols = Symbols(t.chain), new.keys = PublicKeys(t.chain)
    PROVE  Tabled(new)
<1>1. \A i \in DOMAIN t.chain : BlockTyped(t.chain[i])
  BY DEF Tabled
<1>2. PublicKeys(t.chain) \in Seq(Scopes)
  <2>1. \A i \in DOMAIN t.chain : DataOK(t.chain[i].data)
    BY <1>1 DEF BlockTyped
  <2>2. DataOK(t.chain[1].data)
    BY <2>1, ChainFacts
  <2> QED BY <2>1, <2>2, TablesOfLonger
<1> QED BY <1>2 DEF Tabled, SameChain

LEMMA TablesStep ==
    ASSUME ChainsOK, TablesOK, Next
    PROVE  TablesOK'
<1>1. /\ keyPairs \in 0..MaxKeyPairs
      /\ \A t \in tokens : Tabled(t) /\ IsToken(t) /\ IsChain(t.chain)
      /\ \A r \in responses : Written(r)
  BY DEF TablesOK, ChainsOK, TokenOK
<1>2. ASSUME NEW new, Enters(new), Tabled(new)
      PROVE  \A t \in tokens' : Tabled(t)
  BY <1>1, <1>2 DEF Enters
<1>3. ASSUME NEW error, Refuses(error)
      PROVE  (\A t \in tokens' : Tabled(t)) /\ keyPairs' \in 0..MaxKeyPairs
  BY <1>1, <1>3 DEF Refuses
<1>4. ASSUME NEW op, NEW c \in Contents \cup {NoContent}, Called(op, c)
      PROVE  call'.content \in Contents \cup {NoContent}
  BY <1>4 DEF Called
<1>5. ASSUME NEW r \in responses, NEW b, b.data = r.data, b.external = r.external, NewBlock(b),
             OneMoreKey
      PROVE  BlockTyped(b) /\ ~IsOwn(b) /\ IsInjective(b.data.keys)
  BY <1>1, <1>5, NewKeyTyped, ServicesAssumption DEF BlockTyped, Written, IsOwn, NoExternal
<1> DEFINE Goal == /\ keyPairs' \in 0..MaxKeyPairs
                   /\ call'.content \in Contents \cup {NoContent}
                   /\ \A t \in tokens' : Tabled(t)
                   /\ \A r \in responses' : Written(r)
<1> SUFFICES Goal
  BY DEF TablesOK, Tabled, BlockTyped, Written, DataOK
<1>6. ASSUME NEW id \in DOMAIN RootKey, NEW c \in Contents, NEW alg \in Algorithms,
             Mint(id, c, alg)
      PROVE  Goal
  <2>1. Called("mint", c) /\ UNCHANGED <<requests, responses>> /\ OneMoreKey
    BY <1>6, MintCases
  <2>2. PICK new, b : FirstBlock(new, b, id, c)
    BY <1>6, MintCases
  <2>3. BlockTyped(b) /\ IsOwn(b)
    BY <1>1, <2>1, <2>2, NewKeyTyped, BuiltAlone DEF BlockTyped, IsOwn, FirstBlock
  <2>4. Tabled(new)
    BY <2>2, <2>3, FirstTabled, FormsAssumption DEF FirstBlock
  <2>5. keyPairs' \in 0..MaxKeyPairs
    BY <1>1, <2>1, <2>2, NewKeyTyped DEF FirstBlock
  <2> QED BY <1>1, <1>2, <1>4, <2>1, <2>2, <2>4, <2>5 DEF FirstBlock
<1>7. ASSUME NEW t \in tokens, NEW c \in Contents, NEW alg \in Algorithms,
             AppendBlock(t, c, alg)
      PROVE  Goal
  <2>1. /\ Called("append", c) /\ UNCHANGED responses
        /\ \/ \E error : Refuses(error)
           \/ /\ OneMoreKey
              /\ \E new, b : HolderBlock(t, new, b, c)
    BY <1>1, <1>7, AppendCases
  <2>2. CASE OneMoreKey /\ \E new, b : HolderBlock(t, new, b, c)
    <3>1. PICK new, b : HolderBlock(t, new, b, c)
      BY <2>2
    <3>2. BlockTyped(b) /\ IsOwn(b) /\ keyPairs' \in 0..MaxKeyPairs
      <4>1. t.symbols \in Seq(Words) /\ t.keys \in Seq(Scopes)
        BY <1>1 DEF Tabled
      <4>2. DataOK(b.data)
        BY <3>1, <4>1, BuiltFacts DEF HolderBlock
      <4> QED BY <1>1, <2>2, <3>1, <4>2, NewKeyTyped DEF BlockTyped, IsOwn, Longer, HolderBlock
    <3>3. Tabled(new)
      BY <1>1, <3>1, <3>2, AppendTabled DEF HolderBlock
    <3> QED BY <1>1, <1>2, <1>4, <2>1, <3>1, <3>2, <3>3 DEF HolderBlock
  <2> QED BY <1>1, <1>3, <1>4, <2>1, <2>2
<1>8. ASSUME NEW t \in tokens, NEW r \in responses, NEW expected, NEW alg \in Algorithms,
             \/ AcceptThirdParty(t, r, expected, alg)
             \/ AcceptThirdPartyUnverified(t, r, alg)
      PROVE  Goal
  <2>1. /\ call'.content = ContentIn(r) /\ UNCHANGED responses
        /\ \/ \E error : Refuses(error)
           \/ /\ OneMoreKey
              /\ \E new, b :
                    \/ ResponseBlock(t, new, b, r, t.keys)
                    \/ /\ ResponseBlock(t, new, b, r, t.keys \o r.data.keys)
                       /\ Disjoint(t.keys, r.data.keys)
    <3>1. CASE AcceptThirdParty(t, r, expected, alg)
      <4>1. CalledWith(r, expected) => call'.content = ContentIn(r)
        BY DEF CalledWith
      <4>2. \/ \E error : Refuses(error)
            \/ /\ OneMoreKey
               /\ \E new, b : ResponseBlock(t, new, b, r, t.keys)
        BY <1>1, <3>1, AcceptCases
      <4>3. CalledWith(r, expected) /\ UNCHANGED responses
        BY <1>1, <3>1, AcceptCases
      <4> QED BY <4>1, <4>2, <4>3
    <3>2. CASE AcceptThirdPartyUnverified(t, r, alg)
      <4>1. Called("append_third_party", ContentIn(r)) => call'.content = ContentIn(r)
        BY DEF Called
      <4> QED BY <1>1, <3>2, <4>1, AcceptUnverifiedCases
    <3> QED BY <1>8, <3>1, <3>2
  <2>2. call'.content \in Contents
    BY <1>1, <2>1 DEF Written
  <2>3. ASSUME OneMoreKey, NEW new, NEW b,
               \/ ResponseBlock(t, new, b, r, t.keys)
               \/ /\ ResponseBlock(t, new, b, r, t.keys \o r.data.keys)
                  /\ Disjoint(t.keys, r.data.keys)
        PROVE  Goal
    <3>1. /\ Enters(new) /\ Longer(t, new, b)
          /\ b.data = r.data /\ b.external = r.external /\ new.symbols = t.symbols
          /\ \/ new.keys = t.keys
             \/ new.keys = t.keys \o b.data.keys /\ Disjoint(t.keys, b.data.keys)
      BY <2>3 DEF ResponseBlock
    <3>2. NewBlock(b) /\ keyPairs' \in 0..MaxKeyPairs
      BY <1>1, <2>3, <3>1, NewKeyTyped DEF Longer
    <3>3. BlockTyped(b) /\ ~IsOwn(b) /\ IsInjective(b.data.keys)
      BY <1>5, <2>3, <3>1, <3>2
    <3>4. Tabled(new)
      BY <1>1, <3>1, <3>3, AcceptTabled
    <3> QED BY <1>1, <1>2, <2>1, <2>2, <3>1, <3>2, <3>4
  <2> QED BY <1>1, <1>3, <2>1, <2>2, <2>3
<1>9. ASSUME NEW t \in tokens, Seal(t) \/ ReadBiscuit(t) \/ ReadUnverified(t) \/ Verify(t)
      PROVE  Goal
  <2>1. /\ call'.content = NoContent /\ UNCHANGED <<responses, keyPairs>>
        /\ \/ \E error : Refuses(error)
           \/ \E new : /\ Enters(new) /\ SameChain(t, new)
                       /\ new.form \in Forms
                       /\ \/ new.symbols = t.symbols /\ new.keys = t.keys
                          \/ /\ new.symbols = Symbols(t.chain)
                             /\ new.keys = PublicKeys(t.chain)
    <3>0. \A op : Called(op, NoContent) => call'.content = NoContent
      BY DEF Called
    <3>1. t.form \in Forms
      BY <1>1 DEF Tabled
    <3>2. CASE Seal(t)
      BY <1>1, <3>0, <3>1, <3>2, SealCases
    <3>3. CASE ReadBiscuit(t) \/ ReadUnverified(t)
      BY <1>1, <3>0, <3>3, ReadCases
    <3>4. CASE Verify(t)
      BY <1>1, <3>0, <3>4, VerifyCases, FormsAssumption
    <3> QED BY <1>9, <3>2, <3>3, <3>4
  <2>2. ASSUME NEW new, Enters(new), SameChain(t, new), new.form \in Forms,
               \/ new.symbols = t.symbols /\ new.keys = t.keys
               \/ new.symbols = Symbols(t.chain) /\ new.keys = PublicKeys(t.chain)
        PROVE  Tabled(new)
    BY <1>1, <2>2, SameTabled, ReadTabled
  <2> QED BY <1>1, <1>2, <1>3, <2>1, <2>2
<1>10. ASSUME NEW t \in tokens, Request(t)
       PROVE  Goal
  <2>1. Called("request", NoContent) /\ UNCHANGED <<tokens, responses, keyPairs>>
    BY <1>10 DEF Request
  <2> QED BY <1>1, <1>4, <2>1
<1>11. ASSUME NEW request \in requests, NEW s \in Services, NEW c \in Contents,
              CreateBlock(request, s, c)
       PROVE  Goal
  <2>1. /\ Called("create_block", c) /\ UNCHANGED <<tokens, keyPairs>>
        /\ \E r : /\ responses' = responses \cup {r}
                  /\ r.data = Build(c, << >>, << >>)
                  /\ r.external.key = s
    BY <1>11, CreateBlockCases
  <2>2. PICK r : /\ responses' = responses \cup {r}
                 /\ r.data = Build(c, << >>, << >>)
                 /\ r.external.key = s
    BY <2>1
  <2>3. Written(r)
    BY <2>2, BuiltAlone DEF Written, ContentIn
  <2> QED BY <1>1, <1>4, <2>1, <2>2, <2>3
<1> HIDE DEF Goal
<1> QED BY <1>6, <1>7, <1>8, <1>9, <1>10, <1>11 DEF Next

LEMMA TablesInvariant == Spec => []TablesOK
<1>1. Init => TablesOK
  BY MaxKeyPairsAssumption DEF Init, TablesOK
<1>2. ChainsOK /\ TablesOK /\ [Next]_vars => TablesOK'
  <2>1. ChainsOK /\ TablesOK /\ Next => TablesOK'
    BY TablesStep
  <2>2. TablesOK /\ UNCHANGED vars => TablesOK'
    BY DEF TablesOK, Tabled, BlockTyped, Written, DataOK, vars
  <2> QED BY <2>1, <2>2
<1> QED BY <1>1, <1>2, ChainsInvariant, PTL DEF Spec

\* Every variable holds a value of its type, whatever is called and however
\* often.
THEOREM TokensTyped == Spec => []TypeOK
<1>1. ChainsOK /\ TablesOK => TypeOK
  <2> SUFFICES ASSUME ChainsOK, TablesOK PROVE TypeOK
    OBVIOUS
  <2>1. \A t \in tokens : Tabled(t) /\ TokenOK(t)
    BY DEF ChainsOK, TablesOK
  <2>2. \A t \in tokens : t.chain # << >> /\ t.proof.kind \in {"secret", "seal"}
    BY <2>1 DEF TokenOK, IsChain
  <2>3. \A t \in tokens : \A i \in DOMAIN t.chain :
           t.chain[i].next \in Keys /\ t.chain[i].version \in {0, 1}
    BY <2>1 DEF Tabled, TokenOK, BlockTyped, BlockOK
  <2>4. \A t \in tokens : t.form \in Forms /\ t.root_key_id \in DOMAIN RootKey
    BY <2>1 DEF Tabled
  <2> QED BY <2>2, <2>3, <2>4 DEF TypeOK, TablesOK, Written
<1> QED BY <1>1, ChainsInvariant, TablesInvariant, PTL

\* The library never hands out a Biscuit that it would not accept itself: every
\* one of them, however it was made, is read back from its bytes and verified
\* under the root key it names.
THEOREM BiscuitsAreAccepted == Spec => []BiscuitsVerify
<1>1. ChainsOK /\ TablesOK /\ BiscuitsAreSigned => BiscuitsVerify
  <2> SUFFICES ASSUME ChainsOK, TablesOK, BiscuitsAreSigned, NEW t \in Biscuits
               PROVE  Decodes(t.chain) /\ Verifies(t.chain, t.proof, RootKey[t.root_key_id])
    BY DEF BiscuitsVerify
  <2>1. Tabled(t) /\ TokenOK(t)
    BY DEF Biscuits, ChainsOK, TablesOK
  <2>2. Decodes(t.chain)
    BY <2>1 DEF Decodes, Tabled, BlockTyped, TokenOK, IsOwn
  <2> QED BY <2>2 DEF BiscuitsAreSigned
<1> QED BY <1>1, ChainsInvariant, TablesInvariant, BiscuitsSigned, PTL

-----------------------------------------------------------------------------
(* The entries of a token.                                                     *)

LEMMA FrontFacts ==
    ASSUME NEW n \in Nat, NEW e, NEW f, e = [i \in 1..(n + 1) |-> e[i]],
           f = [i \in 1..n |-> f[i]], \A i \in 1..n : e[i] = f[i]
    PROVE  e # << >> /\ Front(e) = f /\ Last(e) = e[n + 1]
<1> DEFINE S == {e[i] : i \in 1..(n + 1)}
<1>1. e \in [1..(n + 1) -> S]
  OBVIOUS
<1> HIDE DEF S
<1>2. e \in Seq(S) /\ Len(e) = n + 1
  BY <1>1, SeqDef
<1>3. e # << >> /\ Last(e) = e[n + 1]
  BY <1>2, EmptySeq DEF Last
<1>4. Front(e) = f
  <2>1. Front(e) = SubSeq(e, 1, n)
    BY <1>2 DEF Front
  <2>2. /\ SubSeq(e, 1, n) \in Seq(S) /\ Len(SubSeq(e, 1, n)) = n
        /\ \A i \in 1..n : SubSeq(e, 1, n)[i] = e[i]
    BY <1>2, SubSeqProperties
  <2>3. SubSeq(e, 1, n) = [i \in 1..n |-> SubSeq(e, 1, n)[i]]
    BY <2>2
  <2> QED BY <2>1, <2>2, <2>3
<1> QED BY <1>3, <1>4

\* What the new block of a token says, as it is read from its bytes.
EntryOf(b, chain) ==
    [id |-> b.signature, author |-> b.external.key,
     content |-> IF IsOwn(b) THEN Meaning(b.data, Symbols(chain), PublicKeys(chain))
                 ELSE Meaning(b.data, b.data.symbols, b.data.keys)]

LEMMA EntryFields ==
    ASSUME NEW b, NEW chain
    PROVE  /\ EntryOf(b, chain).id = b.signature
           /\ EntryOf(b, chain).author = b.external.key
           /\ EntryOf(b, chain).content =
                 IF IsOwn(b) THEN Meaning(b.data, Symbols(chain), PublicKeys(chain))
                 ELSE Meaning(b.data, b.data.symbols, b.data.keys)
<1> DEFINE content == IF IsOwn(b) THEN Meaning(b.data, Symbols(chain), PublicKeys(chain))
                      ELSE Meaning(b.data, b.data.symbols, b.data.keys)
<1>1. EntryOf(b, chain) = [id |-> b.signature, author |-> b.external.key, content |-> content]
  BY DEF EntryOf
<1> HIDE DEF content
<1>2. /\ EntryOf(b, chain).id = b.signature
      /\ EntryOf(b, chain).author = b.external.key
      /\ EntryOf(b, chain).content = content
  BY <1>1
<1> QED BY <1>2 DEF content

LEMMA EntryIs ==
    ASSUME NEW t, NEW i \in DOMAIN t.chain
    PROVE  Entries(t)[i] = EntryOf(t.chain[i], t.chain)
BY DEF Entries, EntryOf, ContentOf

LEMMA EntriesAre ==
    ASSUME NEW t, IsChain(t.chain)
    PROVE  Entries(t) = [i \in 1..Len(t.chain) |-> Entries(t)[i]]
BY ChainFacts DEF Entries

\* A block of the holder only uses names that are in the tables.
Indexed(d, symbols, keys) ==
    Range(d.words) \subseteq DOMAIN symbols /\ Range(d.scopes) \subseteq DOMAIN keys

OwnIndexed(chain) ==
    \A i \in DOMAIN chain :
        IsOwn(chain[i]) => Indexed(chain[i].data, Symbols(chain), PublicKeys(chain))

LEMMA EntriesOfFirst ==
    ASSUME NEW new, NEW b, new.chain = <<b>>
    PROVE  /\ Entries(new) # << >> /\ Front(Entries(new)) = << >>
           /\ Last(Entries(new)) = EntryOf(b, new.chain)
<1>1. IsChain(new.chain) /\ Len(new.chain) = 1 /\ DOMAIN new.chain = 1..1 /\ new.chain[1] = b
  BY SingletonFacts, ChainFacts
<1> DEFINE e == Entries(new)
<1>2. e = [i \in 1..1 |-> e[i]] /\ e[1] = EntryOf(b, new.chain)
  BY <1>1, EntriesAre, EntryIs
<1> HIDE DEF e
<1>3. e \in [1..1 -> {e[1]}]
  BY <1>2
<1>4. e = <<e[1]>> /\ e \in Seq({e[1]}) /\ Len(e) = 1
  <2>1. PICK x : x = e[1]
    OBVIOUS
  <2>2. e = <<x>>
    BY <1>3, <2>1
  <2> QED BY <2>1, <2>2
<1>5. e # << >> /\ Last(e) = e[1]
  BY <1>4, EmptySeq DEF Last
<1>6. Front(e) = << >>
  BY <1>4, SubSeqEmpty DEF Front
<1> QED BY <1>2, <1>5, <1>6 DEF e

\* A token with one more block says what it said, and one thing more.
LEMMA EntriesOfLonger ==
    ASSUME NEW t, IsChain(t.chain), Tabled(t), OwnIndexed(t.chain),
           NEW new, NEW b, Longer(t, new, b), BlockTyped(b)
    PROVE  /\ Entries(new) # << >> /\ Front(Entries(new)) = Entries(t)
           /\ Last(Entries(new)) = EntryOf(b, new.chain)
<1> DEFINE n == Len(t.chain)
           symbols == Symbols(t.chain)
           keys == PublicKeys(t.chain)
<1>1. new.chain = Append(t.chain, b)
  BY DEF Longer
<1>2. /\ n \in Nat /\ DOMAIN t.chain = 1..n
      /\ IsChain(new.chain) /\ Len(new.chain) = n + 1 /\ DOMAIN new.chain = 1..(n + 1)
      /\ \A i \in 1..n : new.chain[i] = t.chain[i]
      /\ new.chain[n + 1] = b
  BY <1>1, ChainFacts, AppendFacts
<1>3. /\ symbols \in Seq(Words) /\ keys \in Seq(Scopes)
      /\ OwnSymbols(b) \in Seq(Words) /\ OwnKeys(b) \in Seq(Scopes)
      /\ Symbols(new.chain) = symbols \o OwnSymbols(b)
      /\ PublicKeys(new.chain) = keys \o OwnKeys(b)
  BY LongerChain, EmptyTables DEF OwnSymbols, OwnKeys, BlockTyped, DataOK
<1> HIDE DEF n, symbols, keys
<1>4. ASSUME NEW d, Indexed(d, symbols, keys)
      PROVE  Meaning(d, Symbols(new.chain), PublicKeys(new.chain)) = Meaning(d, symbols, keys)
  <2>1. Read(symbols \o OwnSymbols(b), d.words) = Read(symbols, d.words)
    BY <1>3, <1>4, ReadLater DEF Indexed
  <2>2. Read(keys \o OwnKeys(b), d.scopes) = Read(keys, d.scopes)
    BY <1>3, <1>4, ReadLater DEF Indexed
  <2> QED BY <1>3, <2>1, <2>2 DEF Meaning
<1>5. ASSUME NEW i \in 1..n
      PROVE  Entries(new)[i] = Entries(t)[i]
  <2>1. /\ Entries(new)[i] = EntryOf(t.chain[i], new.chain)
        /\ Entries(t)[i] = EntryOf(t.chain[i], t.chain)
    BY <1>2, EntryIs
  <2>2. IsOwn(t.chain[i]) =>
            Meaning(t.chain[i].data, Symbols(new.chain), PublicKeys(new.chain))
                = Meaning(t.chain[i].data, symbols, keys)
    BY <1>2, <1>4 DEF OwnIndexed, symbols, keys
  <2> QED BY <2>1, <2>2 DEF EntryOf, symbols, keys
<1>6. /\ Entries(new) = [i \in 1..(n + 1) |-> Entries(new)[i]]
      /\ Entries(t) = [i \in 1..n |-> Entries(t)[i]]
  BY <1>2, EntriesAre DEF n
<1>7. /\ Entries(new) # << >> /\ Front(Entries(new)) = Entries(t)
      /\ Last(Entries(new)) = Entries(new)[n + 1]
  BY <1>2, <1>5, <1>6, FrontFacts
<1> QED BY <1>2, <1>7, EntryIs

LEMMA SameEntries ==
    ASSUME NEW t, NEW u, t.chain = u.chain
    PROVE  Entries(t) = Entries(u)
BY DEF Entries

\* Later blocks do not change what an index stands for.
LEMMA IndexedLater ==
    ASSUME NEW t, IsChain(t.chain), Tabled(t), OwnIndexed(t.chain),
           NEW new, NEW b, Longer(t, new, b), BlockTyped(b),
           IsOwn(b) => Indexed(b.data, Symbols(new.chain), PublicKeys(new.chain))
    PROVE  OwnIndexed(new.chain)
<1>1. new.chain = Append(t.chain, b)
  BY DEF Longer
<1>2. /\ Len(t.chain) \in Nat /\ DOMAIN t.chain = 1..Len(t.chain)
      /\ DOMAIN new.chain = 1..(Len(t.chain) + 1)
      /\ \A i \in DOMAIN t.chain : new.chain[i] = t.chain[i]
      /\ new.chain[Len(t.chain) + 1] = b
  BY <1>1, ChainFacts, AppendFacts
<1>3. /\ Symbols(t.chain) \in Seq(Words) /\ PublicKeys(t.chain) \in Seq(Scopes)
      /\ OwnSymbols(b) \in Seq(Words) /\ OwnKeys(b) \in Seq(Scopes)
      /\ Symbols(new.chain) = Symbols(t.chain) \o OwnSymbols(b)
      /\ PublicKeys(new.chain) = PublicKeys(t.chain) \o OwnKeys(b)
  BY LongerChain, EmptyTables DEF OwnSymbols, OwnKeys, BlockTyped, DataOK
<1>4. ASSUME NEW d, Indexed(d, Symbols(t.chain), PublicKeys(t.chain))
      PROVE  Indexed(d, Symbols(new.chain), PublicKeys(new.chain))
  BY <1>3, <1>4, ReadLater DEF Indexed
<1>5. \A i \in DOMAIN new.chain : i \in DOMAIN t.chain \/ i = Len(t.chain) + 1
  BY <1>2
<1> QED BY <1>2, <1>4, <1>5 DEF OwnIndexed

-----------------------------------------------------------------------------
(* Histories.                                                                  *)

\* A revocation identifier tells all that was said before it.
OneHistory ==
    \A t, u \in tokens : LastSignature(t) = LastSignature(u) <=> Entries(t) = Entries(u)

LEMMA HistoriesInvariant == Spec => []OneHistory
<1>1. ASSUME ChainsOK, FreshKeys, NEW t \in tokens, NEW u \in tokens
      PROVE  LastSignature(t) = LastSignature(u) <=> Entries(t) = Entries(u)
  <2> DEFINE m == Len(t.chain)
             n == Len(u.chain)
  <2>1. IsChain(t.chain) /\ IsChain(u.chain)
    BY <1>1 DEF ChainsOK, TokenOK
  <2>2. /\ m \in Nat \ {0} /\ DOMAIN t.chain = 1..m /\ LastSignature(t) = t.chain[m].signature
        /\ n \in Nat \ {0} /\ DOMAIN u.chain = 1..n /\ LastSignature(u) = u.chain[n].signature
    BY <2>1, ChainFacts DEF LastSignature
  <2>3. ASSUME LastSignature(t) = LastSignature(u)
        PROVE  Entries(t) = Entries(u)
    <3>0. /\ m \in DOMAIN t.chain /\ n \in DOMAIN u.chain
          /\ t.chain[m].signature = u.chain[n].signature
      BY <2>2, <2>3
    <3>1. SubSeq(t.chain, 1, m) = SubSeq(u.chain, 1, n)
      <4> HIDE DEF m, n
      <4> QED BY <1>1, <3>0, SameSignatureSamePast
    <3>2. SubSeq(t.chain, 1, m) = t.chain /\ SubSeq(u.chain, 1, n) = u.chain
      BY <2>1, SubSeqFull DEF IsChain
    <3> QED BY <3>1, <3>2, SameEntries
  <2>4. ASSUME Entries(t) = Entries(u)
        PROVE  LastSignature(t) = LastSignature(u)
    <3>1. DOMAIN Entries(t) = 1..m /\ DOMAIN Entries(u) = 1..n
      BY <2>2 DEF Entries
    <3>2. m = n
      BY <2>2, <2>4, <3>1
    <3>3. ASSUME NEW v, NEW i \in DOMAIN v.chain
          PROVE  Entries(v)[i].id = v.chain[i].signature
      BY EntryIs, EntryFields
    <3> QED BY <2>2, <2>4, <3>2, <3>3
  <2> QED BY <2>3, <2>4
<1>2. ChainsOK /\ FreshKeys => OneHistory
  BY <1>1 DEF OneHistory
<1> QED BY <1>2, ChainsInvariant, FreshKeysInvariant, PTL

Offer(r, list) == [after |-> list, author |-> r.external.key, content |-> ContentIn(r)]

LEMMA SignedForFacts ==
    ASSUME NEW r, NEW request, SignedFor(r, request)
    PROVE  r.external.signature.over.previous = request
<1>1. ASSUME NEW key, NEW data
      PROVE  Sign(key, ExternalPayload(data, request)).over.previous = request
  BY DEF Sign, ExternalPayload
<1> QED BY <1>1 DEF SignedFor

LEMMA OfferedIs ==
    ASSUME OneHistory, NEW t \in tokens, NEW r, SignedFor(r, LastSignature(t))
    PROVE  Offered(r) = Offer(r, Entries(t))
<1>1. HistoryOf(LastSignature(t)) = Entries(t)
  BY DEF HistoryOf, OneHistory
<1> QED BY <1>1, SignedForFacts DEF Offered, Offer

LEMMA OfferedLater ==
    ASSUME OneHistory', NEW t \in tokens', NEW r, SignedFor(r, LastSignature(t))
    PROVE  Offered(r)' = Offer(r, Entries(t))
<1>1. HistoryOf(LastSignature(t))' = Entries(t)
  BY DEF HistoryOf, OneHistory
<1> QED BY <1>1, SignedForFacts DEF Offered, Offer

-----------------------------------------------------------------------------
(* Biscuits alone implement a ledger.                                          *)

\* A token in memory has the tables of its bytes, and its own blocks only use
\* names of these.
ReadsBack(t) ==
    /\ t.form = "verified"
    /\ t.keys = PublicKeys(t.chain)
    /\ OwnIndexed(t.chain)

\* Requests are for tokens, and responses for requests.
LedgerOK ==
    /\ \A t \in tokens : ReadsBack(t)
    /\ \A request \in requests : \E t \in tokens : request = LastSignature(t)
    /\ \A r \in responses : \E t \in tokens : SignedFor(r, LastSignature(t))

\* What holds before a step, and after it.
Before == ChainsOK /\ TablesOK /\ BiscuitsAreSigned /\ OneHistory /\ LedgerOK
After == ChainsOK' /\ OneHistory'

LEMMA LedgerWithToken ==
    ASSUME LedgerOK, NEW new, Enters(new), ReadsBack(new), UNCHANGED <<requests, responses>>
    PROVE  LedgerOK'
<1>1. tokens' = tokens \cup {new}
  BY DEF Enters
<1>2. \A t \in tokens' : ReadsBack(t)
  BY <1>1 DEF LedgerOK
<1>3. /\ \A request \in requests' : \E t \in tokens' : request = LastSignature(t)
      /\ \A r \in responses' : \E t \in tokens' : SignedFor(r, LastSignature(t))
  BY <1>1 DEF LedgerOK
<1> QED BY <1>2, <1>3 DEF LedgerOK, ReadsBack, OwnIndexed

LEMMA LedgerUnchanged ==
    ASSUME LedgerOK, UNCHANGED <<tokens, requests, responses>>
    PROVE  LedgerOK'
BY DEF LedgerOK, ReadsBack, OwnIndexed

LEMMA OffersStay ==
    ASSUME OneHistory, OneHistory', LedgerOK, tokens \subseteq tokens', UNCHANGED responses
    PROVE  {Offered(r) : r \in responses}' = {Offered(r) : r \in responses}
<1>1. ASSUME NEW r \in responses
      PROVE  Offered(r)' = Offered(r)
  <2>1. PICK t \in tokens : SignedFor(r, LastSignature(t))
    BY DEF LedgerOK
  <2>2. t \in tokens'
    BY <2>1
  <2>3. Offered(r) = Offer(r, Entries(t))
    BY <2>1, OfferedIs
  <2>4. Offered(r)' = Offer(r, Entries(t))
    BY <2>1, <2>2, OfferedLater
  <2> QED BY <2>3, <2>4
<1> QED BY <1>1

\* A token that enters enters the ledger.
LEMMA ListedEnters ==
    ASSUME NEW new, Enters(new)
    PROVE  /\ {Listed(t) : t \in tokens}' = {Listed(t) : t \in tokens} \cup {Listed(new)}
           /\ Listed(new) \in {Listed(t) : t \in tokens}'
BY DEF Enters

LEMMA ListedFields ==
    ASSUME NEW t
    PROVE  /\ Listed(t).root = t.root_key_id
           /\ Listed(t).entries = Entries(t)
           /\ Listed(t).sealed = IsSealed(t)
BY DEF Listed

\* A block that was just signed has an identifier of its own.
LEMMA FreshIdentifier ==
    ASSUME ChainsOK, ChainsOK', NEW new, Enters(new), NEW i \in DOMAIN new.chain,
           NewBlock(new.chain[i])
    PROVE  \A t \in tokens : \A j \in DOMAIN t.chain :
              t.chain[j].signature # new.chain[i].signature
<1>1. new.chain[i].signature.over.next = new.chain[i].next
  BY DEF ChainsOK, TokenOK, BlockOK, Enters
<1>2. new.chain[i].next.id = keyPairs + 1 /\ keyPairs \in Nat
  BY DEF NewBlock, NextKey, ChainsOK
<1>3. ASSUME NEW t \in tokens, NEW j \in DOMAIN t.chain
      PROVE  t.chain[j].next.id \in 1..keyPairs /\ t.chain[j].signature.over.next = t.chain[j].next
  BY DEF ChainsOK, TokenOK, BlockOK
<1> QED BY <1>1, <1>2, <1>3

LEMMA NewEntry ==
    ASSUME NEW new, Enters(new), NEW list, NEW author, NEW entry, ~IsSealed(new),
           Entries(new) # << >>, Front(Entries(new)) = list, Last(Entries(new)) = entry,
           entry.author = author, entry.content = call'.content,
           \A t \in tokens : \A j \in DOMAIN t.chain : t.chain[j].signature # entry.id
    PROVE  \E n \in {Listed(t) : t \in tokens}' :
              n.root = new.root_key_id /\ Promise!Adds(n.root, list, author)
<1> DEFINE n == Listed(new)
<1>1. n.root = new.root_key_id /\ n.entries = Entries(new) /\ ~n.sealed
  BY ListedFields
<1>2. entry.id \notin Promise!Identifiers
  <2>1. ASSUME NEW t \in tokens
        PROVE  entry.id \notin {Listed(t).entries[i].id : i \in DOMAIN Listed(t).entries}
    <3>1. Listed(t).entries = Entries(t) /\ DOMAIN Entries(t) = DOMAIN t.chain
      BY ListedFields DEF Entries
    <3>2. \A i \in DOMAIN t.chain : Entries(t)[i].id = t.chain[i].signature
      BY EntryIs, EntryFields
    <3> QED BY <3>1, <3>2
  <2> QED BY <2>1 DEF Promise!Identifiers
<1>3. Promise!AddedBy(n, list, author)
  <2>1. \A s : Promise!Front(s) = Front(s) /\ Promise!Last(s) = Last(s)
    BY DEF Promise!Front, Promise!Last, Front, Last
  <2> HIDE DEF n
  <2> QED BY <1>1, <1>2, <2>1 DEF Promise!AddedBy
<1>4. answer' = "ok"
  BY DEF Enters
<1>5. /\ {Listed(t) : t \in tokens}' = {Listed(t) : t \in tokens} \cup {n}
      /\ n \in {Listed(t) : t \in tokens}'
  BY ListedEnters
<1> HIDE DEF n
<1>6. Promise!Adds(n.root, list, author)
  BY <1>3, <1>4, <1>5 DEF Promise!Adds
<1> QED BY <1>1, <1>5, <1>6

LEMMA RefusesListed ==
    ASSUME NEW error, Refuses(error)
    PROVE  Promise!Refuses(error) /\ UNCHANGED tokens
BY DEF Refuses, Promise!Refuses

LEMMA BeforeToken ==
    ASSUME Before, NEW t \in tokens
    PROVE  /\ IsToken(t) /\ IsChain(t.chain) /\ Tabled(t) /\ ReadsBack(t)
           /\ t.symbols \in Seq(Words) /\ t.symbols = Symbols(t.chain)
           /\ t.keys \in Seq(Scopes) /\ t.keys = PublicKeys(t.chain)
           /\ OwnIndexed(t.chain)
BY DEF Before, ChainsOK, TokenOK, TablesOK, Tabled, LedgerOK, ReadsBack

LEMMA MintLedger ==
    ASSUME Before, After, NEW id \in DOMAIN RootKey, NEW c \in Contents,
           NEW alg \in Algorithms, Mint(id, c, alg)
    PROVE  Promise!Mint /\ LedgerOK'
<1>1. Called("mint", c) /\ UNCHANGED <<requests, responses>>
  BY MintCases
<1>2. PICK new, b : FirstBlock(new, b, id, c)
  BY MintCases
<1> USE DEF FirstBlock
<1>3. /\ DataOK(b.data)
      /\ Indexed(b.data, b.data.symbols, b.data.keys)
      /\ Meaning(b.data, b.data.symbols, b.data.keys) = c
  BY <1>2, BuiltAlone DEF Indexed
<1>4. IsOwn(b) /\ b.external.key = None
  BY <1>2 DEF IsOwn, NoExternal
<1>5. Symbols(new.chain) = b.data.symbols /\ PublicKeys(new.chain) = b.data.keys
  BY <1>2, <1>3, <1>4, TablesOfFirst DEF OwnSymbols, OwnKeys
<1>6. DOMAIN new.chain = {1} /\ new.chain[1] = b
  BY <1>2, SingletonFacts, ChainFacts
<1>7. LedgerOK'
  <2>1. OwnIndexed(new.chain)
    BY <1>3, <1>5, <1>6 DEF OwnIndexed
  <2>2. ReadsBack(new)
    BY <1>2, <1>5, <2>1 DEF ReadsBack
  <2> QED BY <1>1, <1>2, <2>2, LedgerWithToken DEF Before
<1>8. \E n \in {Listed(t) : t \in tokens}' : Promise!Adds(n.root, << >>, None)
  <2> DEFINE entry == EntryOf(b, new.chain)
  <2>1. entry.id = b.signature /\ entry.author = None /\ entry.content = call'.content
    BY <1>1, <1>3, <1>4, <1>5, EntryFields DEF Called
  <2>2. /\ Entries(new) # << >> /\ Front(Entries(new)) = << >>
        /\ Last(Entries(new)) = entry
    BY <1>2, EntriesOfFirst
  <2>3. \A t \in tokens : \A j \in DOMAIN t.chain : t.chain[j].signature # entry.id
    BY <1>2, <1>6, <2>1, FreshIdentifier DEF Before, After
  <2> HIDE DEF entry
  <2> QED BY <1>2, <2>1, <2>2, <2>3, NewEntry
<1>9. UNCHANGED {Offered(r) : r \in responses}
  <2>1. tokens \subseteq tokens'
    BY <1>2 DEF Enters
  <2> QED BY <1>1, <2>1, OffersStay DEF Before, After
<1> QED BY <1>1, <1>7, <1>8, <1>9 DEF Promise!Mint, Called

\* A block that enters after the others of its token.
LEMMA LongerLedger ==
    ASSUME Before, After, NEW t \in tokens, NEW new, NEW b, Enters(new), Longer(t, new, b),
           BlockTyped(b), new.keys = PublicKeys(new.chain),
           IsOwn(b) => Indexed(b.data, Symbols(new.chain), PublicKeys(new.chain)),
           EntryOf(b, new.chain).content = call'.content, UNCHANGED <<requests, responses>>
    PROVE  /\ LedgerOK'
           /\ Promise!Adds(t.root_key_id, Entries(t), b.external.key)
           /\ UNCHANGED {Offered(r) : r \in responses}
<1> DEFINE entry == EntryOf(b, new.chain)
<1>0. /\ new.form = t.form /\ new.root_key_id = t.root_key_id /\ ~IsSealed(new)
      /\ new.chain = Append(t.chain, b) /\ NewBlock(b)
  BY DEF Longer
<1>1. IsChain(t.chain) /\ Tabled(t) /\ OwnIndexed(t.chain) /\ t.form = "verified"
  BY BeforeToken DEF ReadsBack
<1>2. OwnIndexed(new.chain)
  BY <1>1, IndexedLater
<1>3. LedgerOK'
  BY <1>0, <1>1, <1>2, LedgerWithToken DEF Before, ReadsBack
<1>4. /\ Entries(new) # << >> /\ Front(Entries(new)) = Entries(t)
      /\ Last(Entries(new)) = entry
  BY <1>1, EntriesOfLonger
<1>5. entry.id = b.signature /\ entry.author = b.external.key
  BY EntryFields
<1>6. \A u \in tokens : \A j \in DOMAIN u.chain : u.chain[j].signature # entry.id
  <2>1. new.chain[Len(t.chain) + 1] = b /\ Len(t.chain) + 1 \in DOMAIN new.chain
    BY <1>0, <1>1, ChainFacts, AppendFacts
  <2> QED BY <1>0, <1>5, <2>1, FreshIdentifier DEF Before, After
<1>7. entry.content = call'.content
  OBVIOUS
<1> HIDE DEF entry
<1>8. \E n \in {Listed(u) : u \in tokens}' :
          n.root = new.root_key_id /\ Promise!Adds(n.root, Entries(t), b.external.key)
  BY <1>0, <1>4, <1>5, <1>6, <1>7, NewEntry
<1>9. UNCHANGED {Offered(r) : r \in responses}
  <2>1. tokens \subseteq tokens'
    BY DEF Enters
  <2> QED BY <2>1, OffersStay DEF Before, After
<1> QED BY <1>0, <1>3, <1>8, <1>9

LEMMA SameLedger ==
    ASSUME Before, After, UNCHANGED <<tokens, requests, responses>>
    PROVE  /\ LedgerOK'
           /\ UNCHANGED {Offered(r) : r \in responses}
           /\ UNCHANGED {Listed(t) : t \in tokens}
<1>1. tokens \subseteq tokens'
  OBVIOUS
<1> QED BY <1>1, LedgerUnchanged, OffersStay DEF Before, After

LEMMA AppendLedger ==
    ASSUME Before, After, NEW t \in tokens, NEW c \in Contents, NEW alg \in Algorithms,
           AppendBlock(t, c, alg)
    PROVE  Promise!Extend /\ LedgerOK'
<1>1. /\ IsToken(t) /\ IsChain(t.chain) /\ Tabled(t)
      /\ t.symbols \in Seq(Words) /\ t.symbols = Symbols(t.chain)
      /\ t.keys \in Seq(Scopes) /\ t.keys = PublicKeys(t.chain)
  BY BeforeToken
<1>2. Called("append", c) /\ UNCHANGED <<requests, responses>>
  BY <1>1, AppendCases
<1>3. Disjoint(t.symbols, Build(c, t.symbols, t.keys).symbols)
  <2>1. PICK d : d = Build(c, t.symbols, t.keys)
    OBVIOUS
  <2> QED BY <1>1, <2>1, BuiltFacts DEF Disjoint
<1> DEFINE abstract == Listed(t)
<1>4. /\ abstract \in {Listed(u) : u \in tokens} /\ abstract.root = t.root_key_id
      /\ abstract.entries = Entries(t) /\ abstract.sealed = IsSealed(t)
  BY ListedFields
<1> HIDE DEF abstract
<1>5. CASE IsSealed(t) /\ Refuses("already_sealed")
  <2>1. Promise!Refuses("already_sealed") /\ UNCHANGED tokens
    BY <1>5, RefusesListed
  <2>2. LedgerOK' /\ UNCHANGED {Offered(r) : r \in responses}
    BY <1>2, <2>1, SameLedger
  <2> QED BY <1>2, <1>4, <1>5, <2>1, <2>2 DEF Promise!Extend, Called
<1>6. CASE OneMoreKey /\ \E new, b : HolderBlock(t, new, b, c)
  <2>1. PICK new, b : HolderBlock(t, new, b, c)
    BY <1>6
  <2> USE DEF HolderBlock
  <2>2. /\ DataOK(b.data)
        /\ Indexed(b.data, t.symbols \o b.data.symbols, t.keys \o b.data.keys)
    BY <1>1, <2>1, BuiltFacts DEF Indexed
  <2>3. Meaning(b.data, t.symbols \o b.data.symbols, t.keys \o b.data.keys) = c
    BY <1>1, <2>1, BuiltFacts
  <2>4. IsOwn(b) /\ b.external.key = None
    BY <2>1 DEF IsOwn, NoExternal
  <2>5. BlockTyped(b)
    BY <1>6, <2>1, <2>2, NewKeyTyped DEF BlockTyped, Before, TablesOK, Longer
  <2>6. /\ Symbols(new.chain) = t.symbols \o b.data.symbols
        /\ PublicKeys(new.chain) = t.keys \o b.data.keys
    BY <1>1, <2>1, <2>4, <2>5, LongerChain DEF OwnSymbols, OwnKeys
  <2>7. EntryOf(b, new.chain).content = call'.content
    BY <1>2, <2>3, <2>4, <2>6, EntryFields DEF Called
  <2>8. new.keys = PublicKeys(new.chain)
    BY <2>1, <2>6
  <2>9. Indexed(b.data, Symbols(new.chain), PublicKeys(new.chain))
    BY <2>2, <2>6
  <2>10. /\ LedgerOK'
         /\ Promise!Adds(t.root_key_id, Entries(t), None)
         /\ UNCHANGED {Offered(r) : r \in responses}
    BY <1>2, <2>1, <2>4, <2>5, <2>7, <2>8, <2>9, LongerLedger
  <2>11. ~IsSealed(t)
    BY <2>1 DEF Longer
  <2> QED BY <1>2, <1>4, <2>10, <2>11 DEF Promise!Extend, Called
<1> QED BY <1>1, <1>3, <1>5, <1>6, AppendCases

\* The abstract token of a token.
LEMMA ListedIs ==
    ASSUME NEW t \in tokens
    PROVE  \E a \in {Listed(u) : u \in tokens} :
              /\ a = Listed(t) /\ a.root = t.root_key_id
              /\ a.entries = Entries(t) /\ a.sealed = IsSealed(t)
BY ListedFields

\* Sealing an abstract token changes nothing else of it.
LEMMA SealedEntry ==
    ASSUME NEW r, NEW e, NEW a \in [root: {r}, entries: {e}, sealed: BOOLEAN]
    PROVE  [a EXCEPT !.sealed = TRUE] = [root |-> r, entries |-> e, sealed |-> TRUE]
<1>1. PICK y \in BOOLEAN : y = TRUE
  OBVIOUS
<1>2. [a EXCEPT !.sealed = y] = [root |-> a.root, entries |-> a.entries, sealed |-> y]
  OBVIOUS
<1> QED BY <1>1, <1>2

LEMMA SealLedger ==
    ASSUME Before, After, NEW t \in tokens, Seal(t)
    PROVE  Promise!Seal /\ LedgerOK'
<1>1. IsToken(t) /\ ReadsBack(t)
  BY BeforeToken
<1>2. Called("seal", NoContent) /\ UNCHANGED <<requests, responses, keyPairs>>
  BY <1>1, SealCases
<1>3. PICK a \in {Listed(u) : u \in tokens} : a = Listed(t) /\ a.sealed = IsSealed(t)
  BY ListedIs
<1>4. CASE IsSealed(t) /\ Refuses("already_sealed")
  <2>1. Promise!Refuses("already_sealed") /\ UNCHANGED tokens
    BY <1>4, RefusesListed
  <2>2. LedgerOK' /\ UNCHANGED {Offered(r) : r \in responses}
    BY <1>2, <2>1, SameLedger
  <2> QED BY <1>2, <1>3, <1>4, <2>1, <2>2 DEF Promise!Seal, Called
<1>5. ASSUME ~IsSealed(t), NEW new, Enters(new), SameChain(t, new), IsSealed(new),
             new.form = t.form, new.symbols = t.symbols, new.keys = t.keys
      PROVE  Promise!Seal /\ LedgerOK'
  <2>1. ReadsBack(new)
    BY <1>1, <1>5 DEF ReadsBack, SameChain
  <2>2. LedgerOK'
    BY <1>2, <1>5, <2>1, LedgerWithToken DEF Before
  <2>3. Listed(new) = [a EXCEPT !.sealed = TRUE]
    <3>1. Entries(new) = Entries(t)
      BY <1>5, SameEntries DEF SameChain
    <3>2. IsSealed(new) = TRUE
      BY <1>5 DEF IsSealed
    <3>3. PICK r, e : r = t.root_key_id /\ e = Entries(t)
      OBVIOUS
    <3>4. Listed(new) = [root |-> r, entries |-> e, sealed |-> TRUE]
      BY <1>5, <3>1, <3>2, <3>3 DEF Listed, SameChain
    <3>5. a = [root |-> r, entries |-> e, sealed |-> IsSealed(t)]
      BY <1>3, <3>3 DEF Listed
    <3>6. IsSealed(t) \in BOOLEAN
      BY DEF IsSealed
    <3>7. a \in [root: {r}, entries: {e}, sealed: BOOLEAN]
      BY <3>5, <3>6
    <3> QED BY <3>4, <3>7, SealedEntry
  <2>4. {Listed(u) : u \in tokens}' = {Listed(u) : u \in tokens} \cup {[a EXCEPT !.sealed = TRUE]}
    BY <1>5, <2>3, ListedEnters
  <2>5. UNCHANGED {Offered(r) : r \in responses}
    <3>1. tokens \subseteq tokens'
      BY <1>5 DEF Enters
    <3> QED BY <1>2, <3>1, OffersStay DEF Before, After
  <2>6. answer' = "ok"
    BY <1>5 DEF Enters
  <2> QED BY <1>2, <1>3, <1>5, <2>2, <2>4, <2>5, <2>6 DEF Promise!Seal, Called
<1> QED BY <1>1, <1>4, <1>5, SealCases

LEMMA RequestLedger ==
    ASSUME Before, After, NEW t \in tokens, Request(t)
    PROVE  Promise!Request /\ LedgerOK'
<1>1. /\ call'.op = "request" /\ UNCHANGED <<tokens, responses>>
      /\ answer' = IF IsSealed(t) THEN "append_on_sealed" ELSE "ok"
      /\ requests' \subseteq requests \cup {LastSignature(t)}
  BY DEF Request, Called
<1>2. PICK a \in {Listed(u) : u \in tokens} : a.sealed = IsSealed(t)
  BY ListedIs
<1>3. LedgerOK'
  BY <1>1 DEF Before, LedgerOK, ReadsBack, OwnIndexed
<1>4. /\ UNCHANGED {Listed(u) : u \in tokens}
      /\ UNCHANGED {Offered(r) : r \in responses}
  <2>1. tokens \subseteq tokens'
    BY <1>1
  <2> QED BY <1>1, <2>1, OffersStay DEF Before, After
<1> QED BY <1>1, <1>2, <1>3, <1>4 DEF Promise!Request

LEMMA OfferLedger ==
    ASSUME Before, After, NEW request \in requests, NEW service \in Services,
           NEW c \in Contents, CreateBlock(request, service, c)
    PROVE  Promise!Offer /\ LedgerOK'
<1>1. /\ Called("create_block", c) /\ UNCHANGED <<tokens, requests, keyPairs>>
      /\ answer' = "ok"
  BY CreateBlockCases
<1>2. PICK r : /\ responses' = responses \cup {r}
               /\ r.data = Build(c, << >>, << >>)
               /\ r.external.key = service
               /\ SignedFor(r, request)
  BY CreateBlockCases
<1>3. PICK t \in tokens : request = LastSignature(t)
  BY DEF Before, LedgerOK
<1>4. ContentIn(r) = call'.content
  BY <1>1, <1>2, BuiltAlone DEF ContentIn, Called
<1>5. LedgerOK'
  <2>1. /\ \A u \in tokens' : ReadsBack(u)
        /\ \A q \in requests' : \E u \in tokens' : q = LastSignature(u)
        /\ \A s \in responses' : \E u \in tokens' : SignedFor(s, LastSignature(u))
    BY <1>1, <1>2, <1>3 DEF Before, LedgerOK
  <2> QED BY <2>1 DEF LedgerOK, ReadsBack, OwnIndexed
<1>6. ASSUME NEW s \in responses
      PROVE  Offered(s)' = Offered(s)
  <2>1. PICK u \in tokens : SignedFor(s, LastSignature(u))
    BY DEF Before, LedgerOK
  <2>2. Offered(s) = Offer(s, Entries(u))
    BY <2>1, OfferedIs DEF Before
  <2>3. u \in tokens'
    BY <1>1
  <2>4. Offered(s)' = Offer(s, Entries(u))
    BY <2>1, <2>3, OfferedLater DEF After
  <2> QED BY <2>2, <2>4
<1>7. Offered(r)' = [after |-> Entries(t), author |-> service, content |-> call'.content]
  <2>1. t \in tokens' /\ SignedFor(r, LastSignature(t))
    BY <1>1, <1>2, <1>3
  <2>2. Offered(r)' = Offer(r, Entries(t))
    BY <2>1, OfferedLater DEF After
  <2> QED BY <1>2, <1>4, <2>2 DEF Offer
<1>8. {Offered(s) : s \in responses}'
        = {Offered(s) : s \in responses}
            \cup {[after |-> Entries(t), author |-> service, content |-> call'.content]}
  BY <1>2, <1>6, <1>7
<1>9. PICK a \in {Listed(u) : u \in tokens} : a.entries = Entries(t)
  BY ListedIs
<1>10. UNCHANGED {Listed(u) : u \in tokens}
  BY <1>1
<1> QED BY <1>1, <1>5, <1>8, <1>9, <1>10 DEF Promise!Offer, Called

\* The signature of a response verifies for a token exactly when the response
\* was made for what the token says.
LEMMA VerifiesForItsHistory ==
    ASSUME Before, NEW t \in tokens, NEW u \in tokens, NEW r, SignedFor(r, LastSignature(u))
    PROVE  ExternalVerifies(r.data, LastSignature(t), r.external) <=> Entries(u) = Entries(t)
<1>1. ExternalVerifies(r.data, LastSignature(t), r.external) <=> SignedFor(r, LastSignature(t))
  BY DEF ExternalVerifies, Signed, SignedFor
<1>2. SignedFor(r, LastSignature(t)) <=> LastSignature(u) = LastSignature(t)
  BY SignedForFacts
<1>3. LastSignature(u) = LastSignature(t) <=> Entries(u) = Entries(t)
  BY DEF Before, OneHistory
<1> QED BY <1>1, <1>2, <1>3

LEMMA AcceptLedger ==
    ASSUME Before, After, NEW t \in tokens, NEW r \in responses, NEW expected,
           NEW alg \in Algorithms, AcceptThirdParty(t, r, expected, alg)
    PROVE  Promise!Accept /\ LedgerOK'
<1>1. /\ IsToken(t) /\ IsChain(t.chain) /\ Tabled(t)
      /\ t.keys \in Seq(Scopes) /\ t.keys = PublicKeys(t.chain)
  BY BeforeToken
<1>2. CalledWith(r, expected) /\ UNCHANGED <<requests, responses>>
  BY <1>1, AcceptCases
<1>3. /\ call'.op = "append_third_party" /\ call'.content = ContentIn(r)
      /\ call'.expected = expected
  <2>1. PICK content : content = ContentIn(r)
    OBVIOUS
  <2> QED BY <1>2, <2>1 DEF CalledWith
<1>4. PICK u \in tokens : SignedFor(r, LastSignature(u))
  BY DEF Before, LedgerOK
<1> DEFINE good == ExternalVerifies(r.data, LastSignature(t), r.external)
<1>5. good <=> Entries(u) = Entries(t)
  BY <1>4, VerifiesForItsHistory
<1> HIDE DEF good
<1>6. PICK o \in {Offered(s) : s \in responses} :
          o.author = r.external.key /\ o.after = Entries(u) /\ o.content = call'.content
  <2>1. Offered(r) = Offer(r, Entries(u))
    BY <1>4, OfferedIs DEF Before
  <2>2. /\ Offered(r).author = r.external.key /\ Offered(r).after = Entries(u)
        /\ Offered(r).content = call'.content
    BY <1>3, <2>1 DEF Offer
  <2> QED BY <2>2
<1>7. PICK a \in {Listed(v) : v \in tokens} :
          a.root = t.root_key_id /\ a.entries = Entries(t) /\ a.sealed = IsSealed(t)
  BY ListedIs
<1>8. ASSUME NEW error, Refuses(error)
      PROVE  /\ Promise!Refuses(error) /\ LedgerOK'
             /\ UNCHANGED {Offered(s) : s \in responses}
  <2>1. Promise!Refuses(error) /\ UNCHANGED tokens
    BY <1>8, RefusesListed
  <2> QED BY <1>2, <2>1, SameLedger
<1>9. CASE expected # r.external.key /\ Refuses("unexpected_key")
  BY <1>3, <1>6, <1>7, <1>8, <1>9 DEF Promise!Accept
<1>10. CASE expected = r.external.key /\ ~good /\ Refuses("invalid_signature")
  BY <1>3, <1>5, <1>6, <1>7, <1>8, <1>10 DEF Promise!Accept
<1>11. CASE expected = r.external.key /\ good /\ IsSealed(t) /\ Refuses("already_sealed")
  BY <1>3, <1>5, <1>6, <1>7, <1>8, <1>11 DEF Promise!Accept
<1>12. ASSUME expected = r.external.key, good, OneMoreKey, NEW new, NEW b,
              ResponseBlock(t, new, b, r, t.keys)
       PROVE  Promise!Accept /\ LedgerOK'
  <2> USE DEF ResponseBlock
  <2>1. Written(r)
    BY DEF Before, TablesOK
  <2>2. ~IsOwn(b) /\ b.external.key = r.external.key
    BY <1>12, <2>1, ServicesAssumption DEF Written, IsOwn, NoExternal
  <2>3. BlockTyped(b)
    BY <1>12, <2>1, NewKeyTyped DEF BlockTyped, Before, TablesOK, Longer, Written
  <2>4. new.keys = PublicKeys(new.chain)
    BY <1>1, <1>12, <2>2, <2>3, LongerChain, EmptyTables DEF OwnKeys
  <2>5. EntryOf(b, new.chain).content = call'.content
    BY <1>3, <1>12, <2>2, EntryFields DEF ContentIn
  <2>6. /\ LedgerOK' /\ Promise!Adds(t.root_key_id, Entries(t), r.external.key)
        /\ UNCHANGED {Offered(s) : s \in responses}
    BY <1>2, <1>12, <2>2, <2>3, <2>4, <2>5, LongerLedger
  <2>7. ~IsSealed(t)
    BY <1>12 DEF Longer
  <2> QED BY <1>3, <1>5, <1>6, <1>7, <1>12, <2>6, <2>7 DEF Promise!Accept
<1> QED BY <1>1, <1>9, <1>10, <1>11, <1>12, AcceptCases DEF good

LEMMA ReadLedger ==
    ASSUME Before, After, Forms = {"verified"}, NEW t \in tokens,
           ReadBiscuit(t) \/ ReadUnverified(t)
    PROVE  Promise!Read /\ LedgerOK'
<1>1. IsToken(t) /\ Tabled(t) /\ ReadsBack(t) /\ TokenOK(t)
  BY BeforeToken DEF Before, ChainsOK
<1>2. ReadBiscuit(t)
  BY DEF ReadUnverified
<1>3. Decodes(t.chain) /\ Verifies(t.chain, t.proof, RootKey[t.root_key_id])
  BY <1>1 DEF Decodes, Tabled, BlockTyped, TokenOK, IsOwn, Before, BiscuitsAreSigned, Biscuits,
              ReadsBack
<1> DEFINE new == Decoded(t, "verified")
<1>4. Called("from", NoContent) /\ UNCHANGED <<requests, responses>> /\ Keeps(new)
  BY <1>2, <1>3 DEF ReadBiscuit
<1>5. /\ SameChain(t, new) /\ new.form = "verified" /\ new.proof = t.proof
      /\ new.symbols = Symbols(t.chain) /\ new.keys = PublicKeys(t.chain)
  BY <1>1, DecodedFields
<1> HIDE DEF new
<1>6. Enters(new)
  BY <1>4 DEF Keeps, Returns, Enters
<1>7. LedgerOK'
  <2>1. ReadsBack(new)
    BY <1>1, <1>5 DEF ReadsBack, SameChain
  <2> QED BY <1>4, <1>6, <2>1, LedgerWithToken DEF Before
<1>8. UNCHANGED {Listed(u) : u \in tokens}
  <2>1. Entries(new) = Entries(t) /\ IsSealed(new) = IsSealed(t)
    BY <1>5, SameEntries DEF SameChain, IsSealed
  <2>2. Listed(new) = Listed(t)
    BY <1>5, <2>1 DEF Listed, SameChain
  <2> QED BY <1>6, <2>2, ListedEnters
<1>9. UNCHANGED {Offered(r) : r \in responses}
  <2>1. tokens \subseteq tokens'
    BY <1>6 DEF Enters
  <2> QED BY <1>4, <2>1, OffersStay DEF Before, After
<1> QED BY <1>4, <1>6, <1>7, <1>8, <1>9 DEF Promise!Read, Called, Enters

\* Tokens that are made, extended, sealed and read back as Biscuit implement a
\* ledger, whatever is done with other tokens in between: no operation fails
\* that should not, each token goes on to say what its authors were asked to
\* write, and the block of a third party enters only the history it was
\* requested for. UnverifiedBiscuit is left out: it does accept other blocks.
THEOREM TokensImplementLedger == 
    ASSUME Forms = {"verified"}
    PROVE  Spec => ImplementsLedger
<1>1. Init => LedgerOK /\ Promise!Init
  BY DEF Init, LedgerOK, Promise!Init
<1>2. Before /\ After /\ Next => Promise!Next /\ LedgerOK'
  <2> SUFFICES ASSUME Before, After, Next
               PROVE  Promise!Next /\ LedgerOK'
    OBVIOUS
  <2>1. \A t \in tokens : t.form = "verified"
    BY DEF Before, LedgerOK, ReadsBack
  <2>2. CASE \E id \in DOMAIN RootKey, c \in Contents, alg \in Algorithms : Mint(id, c, alg)
    BY <2>2, MintLedger DEF Promise!Next
  <2>3. CASE \E t \in tokens, c \in Contents, alg \in Algorithms : AppendBlock(t, c, alg)
    BY <2>3, AppendLedger DEF Promise!Next
  <2>4. CASE \E t \in tokens : Seal(t)
    BY <2>4, SealLedger DEF Promise!Next
  <2>5. CASE \E t \in tokens : Request(t)
    BY <2>5, RequestLedger DEF Promise!Next
  <2>6. CASE \E t \in tokens : ReadBiscuit(t) \/ ReadUnverified(t)
    BY <2>6, ReadLedger DEF Promise!Next
  <2>7. CASE \E t \in tokens : Verify(t)
    BY <2>1, <2>7 DEF Verify
  <2>8. CASE \E r \in requests, s \in Services, c \in Contents : CreateBlock(r, s, c)
    BY <2>8, OfferLedger DEF Promise!Next
  <2>9. CASE \E t \in tokens, r \in responses, alg \in Algorithms, k \in KnownKeys :
                AcceptThirdParty(t, r, k, alg)
    BY <2>9, AcceptLedger DEF Promise!Next
  <2>10. CASE \E t \in tokens, r \in responses, alg \in Algorithms :
                 AcceptThirdPartyUnverified(t, r, alg)
    BY <2>1, <2>10 DEF AcceptThirdPartyUnverified
  <2> QED BY <2>2, <2>3, <2>4, <2>5, <2>6, <2>7, <2>8, <2>9, <2>10 DEF Next
<1>3. Before /\ After /\ UNCHANGED vars => UNCHANGED Promise!vars /\ LedgerOK'
  <2> SUFFICES ASSUME Before, After, UNCHANGED vars
               PROVE  UNCHANGED Promise!vars /\ LedgerOK'
    OBVIOUS
  <2>1. UNCHANGED <<tokens, requests, responses, call, answer>>
    BY DEF vars
  <2>2. LedgerOK' /\ UNCHANGED <<{Listed(t) : t \in tokens}, {Offered(r) : r \in responses}>>
    BY <2>1, SameLedger
  <2> QED BY <2>1, <2>2 DEF Promise!vars
<1>4. Before <=> ChainsOK /\ TablesOK /\ BiscuitsAreSigned /\ OneHistory /\ LedgerOK
  BY DEF Before
<1>5. After <=> ChainsOK' /\ OneHistory'
  BY DEF After
<1> QED BY <1>1, <1>2, <1>3, <1>4, <1>5, ChainsInvariant, TablesInvariant, BiscuitsSigned,
           HistoriesInvariant, PTL DEF Spec, ImplementsLedger, Promise!Spec

==============================================================================
