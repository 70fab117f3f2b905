----------------------------- MODULE TokenChain ------------------------------
(* The life of tokens: Biscuit and UnverifiedBiscuit, the requests and blocks *)
(* exchanged with third parties, and the bytes tokens are carried as          *)
(* (biscuit-auth/src/token/mod.rs, token/unverified.rs, token/third_party.rs, *)
(* format/mod.rs).                                                            *)
(*                                                                            *)
(* Every operation takes a token and returns a new one: the set of tokens     *)
(* only grows, and any token of it may be used again, in any order. A request *)
(* to a third party is answered while its token may already have moved on.    *)
EXTENDS Signatures

CONSTANTS
    RootKey,        \* the root key of each root_key_id: RootKeyProvider::choose
    Services,       \* the key pairs of third parties
    Contents,       \* what may be written in a block
    Algorithms,     \* the algorithms of generated key pairs
    Forms,          \* "verified" for Biscuit, "unverified" for UnverifiedBiscuit
    MaxKeyPairs,    \* bound on the key pairs that are generated
    MaxTokens,      \* bound on the tokens that are held
    MaxExchanges    \* bound on the requests, and on the blocks third parties sign

\* The words and the scopes of a content are finite lists.
ASSUME ContentsAssumption ==
    \A c \in Contents : c \in [words: Seq(Range(c.words)), scopes: Seq(Range(c.scopes)),
                              modern: BOOLEAN]
ASSUME ServicesAssumption == None \notin Services
ASSUME FormsAssumption == "verified" \in Forms
ASSUME MaxKeyPairsAssumption == MaxKeyPairs \in Nat

VARIABLES
    tokens,         \* the tokens held by someone
    requests,       \* ThirdPartyRequest: a previous signature
    responses,      \* ThirdPartyBlock: data, and its external signature
    keyPairs,       \* the number of key pairs generated so far
    call,           \* the last operation, and what it was given
    answer          \* what it answered

vars == <<tokens, requests, responses, keyPairs, call, answer>>

\* Mutants of NextKey: the pair of the first block again; and a count off by one.
FirstKey(alg) == [id |-> 1, alg |-> alg]
LastKey(alg) == [id |-> keyPairs, alg |-> alg]

\* A new key pair: KeyPair::new_with_rng, or one the caller provides. A pair
\* that did not end up in a token is not counted.
NextKey(alg) == [id |-> keyPairs + 1, alg |-> alg]

\* The public keys an application may expect a third party to have.
KnownKeys == Services \cup {RootKey[id] : id \in DOMAIN RootKey}

NoContent == [words |-> << >>, scopes |-> << >>, modern |-> FALSE]

\* The content of a third party's block.
ContentIn(response) == Meaning(response.data, response.data.symbols, response.data.keys)

Called(op, content) == call' = [op |-> op, content |-> content]

\* append_third_party is given a response and the key it must be signed with.
CalledWith(response, expected) ==
    call' = [op |-> "append_third_party", content |-> ContentIn(response),
             expected |-> expected]

Returns(t) == /\ Cardinality(tokens \cup {t}) <= MaxTokens
              /\ answer' = "ok"
              /\ tokens' = tokens \cup {t}
Refuses(error) == /\ answer' = error
                  /\ UNCHANGED <<tokens, keyPairs>>

\* An operation that returns a token signed with the keys there are.
Keeps(t) == /\ Returns(t)
            /\ UNCHANGED keyPairs

\* An operation that returns a token which holds a new key pair.
Signs(t) == /\ keyPairs < MaxKeyPairs
            /\ keyPairs' = keyPairs + 1
            /\ Returns(t)

IsSealed(t) == t.proof.kind = "seal"
LastSignature(t) == Last(t.chain).signature

\* A token with one more block, signed with the key of its proof.
Extended(t, data, external, modern, next) ==
    LET signer  == t.proof.key
        version == BlockSignatureVersion(signer, next, external, modern,
                                         Versions(t.chain))
        payload == BlockPayload(version, data, next, external, LastSignature(t))
        block   == [data |-> data, next |-> next, external |-> external,
                    version |-> version, signature |-> Sign(signer, payload)]
    IN  [t EXCEPT !.chain = Append(@, block),
                  !.proof = [kind |-> "secret", key |-> next]]

Init ==
    /\ tokens = {}
    /\ requests = {}
    /\ responses = {}
    /\ keyPairs = 0
    /\ call = [op |-> "none", content |-> NoContent]
    /\ answer = "none"

-----------------------------------------------------------------------------
\* BiscuitBuilder::build_with_key_pair, Biscuit::new_with_key_pair and
\* SerializedBiscuit::new
Mint(id, content, alg) ==
    LET root    == RootKey[id]
        next    == NextKey(alg)
        data    == Build(content, << >>, << >>)
        version == BlockSignatureVersion(root, next, NoExternal, data.modern, {})
        payload == BlockPayload(version, data, next, NoExternal, None)
    IN  /\ Called("mint", content)
        /\ Signs([form |-> "verified", root_key_id |-> id,
                  chain |-> <<[data |-> data, next |-> next, external |-> NoExternal,
                               version |-> version,
                               signature |-> Sign(root, payload)]>>,
                  proof |-> [kind |-> "secret", key |-> next],
                  symbols |-> data.symbols, keys |-> data.keys])
        /\ UNCHANGED <<requests, responses>>

\* append_with_keypair and SerializedBiscuit::append: the same code for both
\* forms of tokens.
AppendBlock(t, content, alg) ==
    LET data == Build(content, t.symbols, t.keys)
        next == NextKey(alg)
        new  == Extended(t, data, NoExternal, data.modern, next)
    IN  /\ Called("append", content)
        /\ CASE ~Disjoint(t.symbols, data.symbols) -> Refuses("overlap")
             [] Disjoint(t.symbols, data.symbols) /\ IsSealed(t)
                   -> Refuses("already_sealed")
             [] OTHER -> Signs([new EXCEPT !.symbols = @ \o data.symbols,
                                           !.keys = @ \o data.keys])
        /\ UNCHANGED <<requests, responses>>

\* Biscuit::seal, UnverifiedBiscuit::seal and SerializedBiscuit::seal
Seal(t) ==
    /\ Called("seal", NoContent)
    /\ IF IsSealed(t)
       THEN Refuses("already_sealed")
       ELSE Keeps([t EXCEPT !.proof =
                        [kind |-> "seal",
                         signature |-> Sign(t.proof.key, SealPayload(Last(t.chain)))]])
    /\ UNCHANGED <<requests, responses>>

\* third_party_request
Request(t) ==
    /\ Called("request", NoContent)
    /\ IF IsSealed(t)
       THEN /\ answer' = "append_on_sealed"
            /\ UNCHANGED requests
       ELSE /\ Cardinality(requests \cup {LastSignature(t)}) <= MaxExchanges
            /\ answer' = "ok"
            /\ requests' = requests \cup {LastSignature(t)}
    /\ UNCHANGED <<tokens, responses, keyPairs>>

\* ThirdPartyRequest::create_block: a third party writes a block with tables of
\* its own and signs it for the previous signature of the request.
CreateBlock(request, service, content) ==
    LET data      == Build(content, << >>, << >>)
        signature == Sign(service, ExternalPayload(data, request))
    IN  /\ Cardinality(responses) < MaxExchanges
        /\ Called("create_block", content)
        /\ answer' = "ok"
        /\ responses' = responses \cup
              {[data |-> data, external |-> [key |-> service, signature |-> signature]]}
        /\ UNCHANGED <<tokens, requests, keyPairs>>

-----------------------------------------------------------------------------
\* Mutant of AcceptThirdParty: the external signature is not verified.
AcceptAnyThirdParty(t, response, expected, alg) ==
    LET next == NextKey(alg)
    IN  /\ t.form = "verified"
        /\ CalledWith(response, expected)
        /\ CASE expected # response.external.key -> Refuses("unexpected_key")
             [] expected = response.external.key /\ IsSealed(t) -> Refuses("already_sealed")
             [] OTHER -> Signs(Extended(t, response.data, response.external, FALSE, next))
        /\ UNCHANGED <<requests, responses>>

\* Biscuit::append_third_party_with_keypair and append_serialized. The names of
\* the block are not added to the tables of the token.
AcceptThirdParty(t, response, expected, alg) ==
    LET next    == NextKey(alg)
        refusal ==
            CASE expected # response.external.key -> "unexpected_key"
              [] /\ expected = response.external.key
                 /\ ~ExternalVerifies(response.data, LastSignature(t), response.external)
                    -> "invalid_signature"
              [] OTHER -> IF IsSealed(t) THEN "already_sealed" ELSE "none"
    IN  /\ t.form = "verified"
        /\ CalledWith(response, expected)
        /\ IF refusal # "none"
           THEN Refuses(refusal)
           ELSE Signs(Extended(t, response.data, response.external, FALSE, next))
        /\ UNCHANGED <<requests, responses>>

\* UnverifiedBiscuit::append_third_party_with_keypair: the external signature is
\* not verified, and the keys of the block are added to the tables.
AcceptThirdPartyUnverified(t, response, alg) ==
    LET next == NextKey(alg)
    IN  /\ t.form = "unverified"
        /\ Called("append_third_party", ContentIn(response))
        /\ CASE IsSealed(t) -> Refuses("already_sealed")
             [] ~IsSealed(t) /\ ~Disjoint(t.keys, response.data.keys)
                   -> Refuses("key_overlap")
             [] OTHER -> Signs([Extended(t, response.data, response.external, FALSE, next)
                                   EXCEPT !.keys = @ \o response.data.keys])
        /\ UNCHANGED <<requests, responses>>

-----------------------------------------------------------------------------
\* The token that from_serialized_container and from_with_symbols build.
Decoded(t, form) == [t EXCEPT !.form = form, !.symbols = Symbols(t.chain),
                              !.keys = PublicKeys(t.chain)]

\* to_vec, then Biscuit::from with the root key of the token's root_key_id.
ReadBiscuit(t) ==
    /\ Called("from", NoContent)
    /\ CASE ~Decodes(t.chain) -> Refuses("malformed")
         [] /\ Decodes(t.chain)
            /\ ~Verifies(t.chain, t.proof, RootKey[t.root_key_id])
               -> Refuses("invalid_signature")
         [] OTHER -> Keeps(Decoded(t, "verified"))
    /\ UNCHANGED <<requests, responses>>

\* to_vec, then UnverifiedBiscuit::from
ReadUnverified(t) ==
    /\ "unverified" \in Forms
    /\ Called("from", NoContent)
    /\ IF Decodes(t.chain)
       THEN Keeps(Decoded(t, "unverified"))
       ELSE Refuses("malformed")
    /\ UNCHANGED <<requests, responses>>

\* UnverifiedBiscuit::verify: the tables are kept as they are.
Verify(t) ==
    /\ t.form = "unverified"
    /\ Called("verify", NoContent)
    /\ IF Verifies(t.chain, t.proof, RootKey[t.root_key_id])
       THEN Keeps([t EXCEPT !.form = "verified"])
       ELSE Refuses("invalid_signature")
    /\ UNCHANGED <<requests, responses>>

Next ==
    \/ \E id \in DOMAIN RootKey, c \in Contents, alg \in Algorithms : Mint(id, c, alg)
    \/ \E t \in tokens :
          \/ \E c \in Contents, alg \in Algorithms : AppendBlock(t, c, alg)
          \/ Seal(t)
          \/ Request(t)
          \/ ReadBiscuit(t)
          \/ ReadUnverified(t)
          \/ Verify(t)
    \/ \E r \in requests, s \in Services, c \in Contents : CreateBlock(r, s, c)
    \/ \E t \in tokens, r \in responses, alg \in Algorithms :
          \/ \E k \in KnownKeys : AcceptThirdParty(t, r, k, alg)
          \/ AcceptThirdPartyUnverified(t, r, alg)

Spec == Init /\ [][Next]_vars
==============================================================================
