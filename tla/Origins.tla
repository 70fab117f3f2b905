------------------------------- MODULE Origins -------------------------------
(* Where a fact comes from, and whose facts a rule may read: the types Origin *)
(* and TrustedOrigins of biscuit-auth/src/datalog/origin.rs.                  *)
(*                                                                            *)
(* A block is named by its position in the token, 0 being the authority      *)
(* block; the authorizer, which the code names usize::MAX, is AuthorizerId.   *)
EXTENDS Naturals

CONSTANTS
    AuthorizerId,   \* the origin of what the authorizer itself states
    Keys,           \* the public keys that scopes and blocks mention
    NoKey           \* the key field of a scope that names no key

ASSUME AuthorizerAssumption == AuthorizerId \notin Nat
ASSUME KeyAssumption == NoKey \notin Keys

OriginIds == Nat \cup {AuthorizerId}

\* A `trusting ...` annotation of a rule, a check or a block.
Scope == [kind: {"authority", "previous"}, key: {NoKey}]
            \cup [kind: {"key"}, key: Keys]

\* TrustedOrigins::default: the authorizer and the authority block.
DefaultOrigins == {AuthorizerId, 0}

\* What one scope adds to the origins trusted from block `current`; keyBlocks
\* gives the blocks signed by each key. The authorizer has no previous block.
ScopeOrigins(scope, current, keyBlocks) ==
    CASE scope.kind = "authority" -> {0}
      [] scope.kind = "previous"  ->
            IF current = AuthorizerId THEN {} ELSE 0..current
      [] scope.kind = "key"       -> keyBlocks[scope.key]

\* TrustedOrigins::from_scopes: annotations replace the default, they do not
\* extend it; the block itself and the authorizer are trusted either way.
FromScopes(scopes, default, current, keyBlocks) ==
    {AuthorizerId, current} \cup
        IF scopes = {}
        THEN default
        ELSE UNION {ScopeOrigins(s, current, keyBlocks) : s \in scopes}

\* Mutant of Trusts: one trusted origin is enough.
TrustsAny(trusted, origin) == origin \cap trusted # {}

\* TrustedOrigins::contains: a fact is visible when all its origins are trusted.
Trusts(trusted, origin) == origin \subseteq trusted
==============================================================================
