----------------------------- MODULE Signatures ------------------------------
(* What is signed in a token, with which key, and how it is verified          *)
(* (biscuit-auth/src/crypto/mod.rs, format/mod.rs).                           *)
(*                                                                            *)
(* Signing is symbolic: a signature names its key and the payload it covers.  *)
(* A payload is a record of the parts that are concatenated in the code. Key  *)
(* pairs are not told from their public keys: a proof of kind "secret" holds  *)
(* the private key.                                                           *)
EXTENDS SymbolTables, FiniteSetsExt

CONSTANT None       \* an absent signature or key

\* KeyPair::sign and PublicKey::verify_signature
Sign(key, payload) == [by |-> key, over |-> payload]
Signed(signature, key, payload) == signature = Sign(key, payload)

\* The external signature of a block that has none.
NoExternal == [key |-> None, signature |-> None]

\* generate_block_signature_payload_v0, and that of the authority block
PayloadV0(data, next, external) ==
    [form |-> "v0", data |-> data, next |-> next, external |-> external.signature]

\* generate_block_signature_payload_v1, and that of the authority block, which
\* has no previous signature
PayloadV1(data, next, external, previous) ==
    [form |-> "v1", data |-> data, next |-> next, external |-> external.signature,
     previous |-> previous]

\* Mutant of ExternalPayload: the previous signature is not covered.
UnboundPayload(data, previous) ==
    [form |-> "external", data |-> data, previous |-> None]

\* generate_external_signature_payload_v1
ExternalPayload(data, previous) ==
    [form |-> "external", data |-> data, previous |-> previous]

\* generate_seal_signature_payload_v0
SealPayload(block) ==
    [form |-> "seal", data |-> block.data, next |-> block.next,
     signature |-> block.signature]

\* The payload that sign_block and verify_block_signature select by version.
BlockPayload(version, data, next, external, previous) ==
    IF version = 0 THEN PayloadV0(data, next, external)
                   ELSE PayloadV1(data, next, external, previous)

\* Mutant of BlockSignatureVersion: the versions before are not looked at.
VersionOfBlockAlone(signer, next, external, modern, versions) ==
    IF \/ external # NoExternal
       \/ modern
       \/ signer.alg # "ed25519"
       \/ next.alg # "ed25519"
    THEN 1
    ELSE 0

\* block_signature_version: version 1 for what version 0 cannot sign, and then
\* for every block after it.
BlockSignatureVersion(signer, next, external, modern, versions) ==
    IF \/ external # NoExternal
       \/ modern
       \/ signer.alg # "ed25519"
       \/ next.alg # "ed25519"
    THEN 1
    ELSE Max(versions \cup {0})

-----------------------------------------------------------------------------
(* A chain is the authority block followed by the other blocks.               *)

PreviousSignature(chain, i) == IF i = 1 THEN None ELSE chain[i - 1].signature
SigningKey(chain, i, root) == IF i = 1 THEN root ELSE chain[i - 1].next
Versions(chain) == {chain[i].version : i \in DOMAIN chain}

\* verify_external_signature
ExternalVerifies(data, previous, external) ==
    Signed(external.signature, external.key, ExternalPayload(data, previous))

\* verify_authority_block_signature and verify_block_signature
BlockVerifies(chain, i, root) ==
    LET b        == chain[i]
        previous == PreviousSignature(chain, i)
    IN  /\ Signed(b.signature, SigningKey(chain, i, root),
                  BlockPayload(b.version, b.data, b.next, b.external, previous))
        /\ b.external # NoExternal => ExternalVerifies(b.data, previous, b.external)

\* The proof is the private key of the last block, or its signature of the seal.
ProofVerifies(chain, proof) ==
    IF proof.kind = "secret"
    THEN proof.key = Last(chain).next
    ELSE Signed(proof.signature, Last(chain).next, SealPayload(Last(chain)))

\* SerializedBiscuit::verify_inner
Verifies(chain, proof, root) ==
    /\ \A i \in DOMAIN chain : BlockVerifies(chain, i, root)
    /\ ProofVerifies(chain, proof)

-----------------------------------------------------------------------------
(* The tables of a token, as extract_blocks rebuilds them from its bytes:      *)
(* those of third-party blocks are their own.                                  *)

IsOwn(block) == block.external = NoExternal

\* Mutant of Symbols: the words of third-party blocks are added to the token's.
SymbolsOfAll(chain) == FlattenSeq([i \in DOMAIN chain |-> chain[i].data.symbols])

Symbols(chain) ==
    FlattenSeq([i \in DOMAIN chain |->
        IF IsOwn(chain[i]) THEN chain[i].data.symbols ELSE << >>])

PublicKeys(chain) ==
    FlattenSeq([i \in DOMAIN chain |->
        IF IsOwn(chain[i]) THEN chain[i].data.keys ELSE << >>])

\* What deserialize and extract_blocks accept: no name is introduced twice, and
\* a third-party block is signed with version 1.
Decodes(chain) ==
    /\ IsInjective(Symbols(chain))
    /\ IsInjective(PublicKeys(chain))
    /\ IsOwn(chain[1])
    /\ \A i \in DOMAIN chain : IsOwn(chain[i]) \/ chain[i].version = 1

\* What block i says, when the token's tables are symbols and keys. The tables
\* of a third-party block are its own.
ContentOf(chain, i, symbols, keys) ==
    LET d == chain[i].data
    IN  IF IsOwn(chain[i]) THEN Meaning(d, symbols, keys)
                          ELSE Meaning(d, d.symbols, d.keys)
==============================================================================
