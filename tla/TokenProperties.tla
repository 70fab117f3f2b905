--------------------------- MODULE TokenProperties ---------------------------
(* What holders, third parties and authorizers rely on in a token.            *)
EXTENDS TokenChain

Keys == [id: 1..MaxKeyPairs, alg: Algorithms]

\* The entries of a token, as anyone reads them from its bytes. The revocation
\* identifier of an entry is the signature of its block.
Entries(t) ==
    LET symbols == Symbols(t.chain)
        keys    == PublicKeys(t.chain)
    IN  [i \in DOMAIN t.chain |->
            [id      |-> t.chain[i].signature,
             author  |-> t.chain[i].external.key,
             content |-> ContentOf(t.chain, i, symbols, keys)]]

Listed(t) == [root |-> t.root_key_id, entries |-> Entries(t), sealed |-> IsSealed(t)]

\* The history a response was made for.
HistoryOf(signature) ==
    Entries(CHOOSE t \in tokens : LastSignature(t) = signature)

Offered(r) == [after   |-> HistoryOf(r.external.signature.over.previous),
               author  |-> r.external.key,
               content |-> ContentIn(r)]

\* Tokens that are built, extended, sealed and read back implement a ledger:
\* whatever is done with other tokens, the bytes of each say what its authors
\* were asked to write, no operation fails that should not, and the block of a
\* third party enters only the history it was requested for.
Promise == INSTANCE Ledger WITH
    Holder <- None,
    tokens <- {Listed(t) : t \in tokens},
    offers <- {Offered(r) : r \in responses}
ImplementsLedger == Promise!Spec

-----------------------------------------------------------------------------
Biscuits == {t \in tokens : t.form = "verified"}

\* Every variable holds a value of its type, in the parts that are not nested
\* signatures.
TypeOK ==
    /\ \A t \in tokens :
          /\ t.form \in Forms
          /\ t.root_key_id \in DOMAIN RootKey
          /\ t.chain # << >>
          /\ \A i \in DOMAIN t.chain : /\ t.chain[i].next \in Keys
                                       /\ t.chain[i].version \in {0, 1}
          /\ t.proof.kind \in {"secret", "seal"}
    /\ \A r \in responses : r.external.key \in Services
    /\ keyPairs \in 0..MaxKeyPairs
    /\ call.content \in Contents \cup {NoContent}

\* The library never hands out a Biscuit that it would not accept itself: every
\* one of them, however it was made, is read back and verified under the root
\* key it names.
BiscuitsVerify ==
    \A t \in Biscuits : /\ Decodes(t.chain)
                        /\ Verifies(t.chain, t.proof, RootKey[t.root_key_id])

\* A revocation identifier stands for one block and everything before it:
\* revoking it never revokes an unrelated token.
RevocationIdsIdentify ==
    \A t, u \in tokens : \A i \in DOMAIN t.chain, j \in DOMAIN u.chain :
        t.chain[i].signature = u.chain[j].signature =>
            SubSeq(t.chain, 1, i) = SubSeq(u.chain, 1, j)

\* The block a third party signed is found, in the tokens that verify, after
\* one history only: it cannot be moved to another token, or to a later state
\* of the same one, although the holder is free to try.
ResponsesAreBound ==
    \A t, u \in Biscuits : \A i \in DOMAIN t.chain, j \in DOMAIN u.chain :
        /\ ~IsOwn(t.chain[i])
        /\ t.chain[i].external = u.chain[j].external
        => SubSeq(t.chain, 1, i - 1) = SubSeq(u.chain, 1, j - 1)

\* A token that has moved to version 1 signatures, which cover the previous
\* signature, never goes back to version 0.
VersionsNeverDecrease ==
    \A t \in tokens : \A i, j \in DOMAIN t.chain :
        i < j => t.chain[i].version <= t.chain[j].version

-----------------------------------------------------------------------------
(* What the comments of the code say.                                          *)

\* token/builder/authorizer.rs says of a third-party block: "if it is a 3rd
\* party block, it should not affect the main symbol table". A token in memory
\* would then say what its bytes say.
BlocksKeepTheirMeaning ==
    \A t \in tokens : \A i \in DOMAIN t.chain :
        ContentOf(t.chain, i, t.symbols, t.keys)
            = ContentOf(t.chain, i, Symbols(t.chain), PublicKeys(t.chain))

\* Biscuit::block and UnverifiedBiscuit::block, which print_block_source and
\* block_version call. Blocks are numbered from 0.
BlockAt(t, index) ==
    CASE index < Len(t.chain) -> "block"
      [] index = Len(t.chain) -> "panic"
      [] OTHER                -> "invalid block index"

\* token/mod.rs and token/unverified.rs answer "invalid block index" for an index
\* past the last block.
InvalidIndexIsAnError ==
    \A t \in tokens : \A index \in 0..(MaxKeyPairs + 1) :
        index \notin 0..(Len(t.chain) - 1) => BlockAt(t, index) = "invalid block index"


\* What print_block_source prints. UnverifiedBiscuit::block puts the keys of the
\* token in place of those of the block.
Printed(t, i) ==
    LET d   == t.chain[i].data
        own == ~IsOwn(t.chain[i])
    IN  Meaning(d, IF own THEN d.symbols ELSE t.symbols,
                   IF own /\ t.form = "verified" THEN d.keys ELSE t.keys)

==============================================================================
