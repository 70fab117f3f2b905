------------------------------ MODULE MCTokens -------------------------------
(* A small system of tokens for TLC: a root key, a third party, and contents  *)
(* that name words and keys in different orders.                              *)
EXTENDS TokenProperties

Key(id, alg) == [id |-> id, alg |-> alg]
Service == Key(101, "ed25519")
Other == Key(102, "secp256r1")

MCServices == {Service}
MCRootKey == <<Key(100, "ed25519")>>

Says(words, scopes, modern) == [words |-> words, scopes |-> scopes, modern |-> modern]
MCContents == {Says(<<"user">>, <<Service>>, FALSE),
               Says(<<"group", "user">>, <<Other, Service>>, TRUE)}

\* With a content that names no key, a third-party block may be the first to.
FewerContents == {Says(<<"group", "user">>, << >>, FALSE),
                  Says(<<"user">>, <<Service>>, FALSE)}
==============================================================================
