----------------------------- MODULE Attenuation -----------------------------
(* The reason biscuits exist: the holder of a token may append a block to it,  *)
(* without asking anyone, and that can only restrict what the token allows.    *)
(* A service decides on a token, the holder attenuates it, and the service     *)
(* decides again with the same authorizer content and limits.                  *)
EXTENDS AuthorizerProperties

CONSTANT Appended   \* the blocks a holder may append

VARIABLE parent     \* the decision on the token before its last block

attenuationVars == <<vars, parent>>

AttenuationInit == Init /\ parent = NoResult

\* Biscuit::append or append_third_party, then a new authorizer for the result.
\* The length of tokens is bounded by the set Tokens.
Attenuate ==
    /\ pc = "idle"
    /\ result.status \in Decided
    /\ parent' = result
    /\ \E b \in Appended : token' = Append(token, b)
    /\ token # << >>
    /\ token' \in Tokens
    /\ UNCHANGED <<content, limits>>
    /\ rules' = LoadedRules(token', content)
    /\ facts' = LoadedFacts(token', content)
    /\ iterations' = 0
    /\ executionTime' = None
    /\ index' = 0
    /\ elapsed' = 0
    /\ budget' = 0
    /\ position' = FirstPosition
    /\ failed' = {}
    /\ policy' = 0
    /\ result' = NoResult
    /\ UNCHANGED <<pc, call>>

AttenuationNext ==
    \/ Next /\ UNCHANGED parent
    \/ Attenuate

AttenuationSpec == AttenuationInit /\ [][AttenuationNext]_attenuationVars

-----------------------------------------------------------------------------
\* The scopes written in a block or in the authorizer's content.
QueriesOf(items) == UNION {{items[i].queries[j] : j \in DOMAIN items[i].queries} :
                              i \in DOMAIN items}
BlockScopes(b) ==
    UNION ({b.scopes} \cup {r.scopes : r \in b.rules \cup QueriesOf(b.checks)})
ContentScopes(c) == BlockScopes(c) \cup UNION {q.scopes : q \in QueriesOf(c.policies)}

\* The keys that the authorizer, or a block before the last, trusts by name.
NamedKeys ==
    {s.key : s \in ContentScopes(content) \cup
                   UNION {BlockScopes(token[i]) : i \in 1..(Len(token) - 1)}}

LastId == Len(token) - 1

\* Appending a block leaves every decision as it was, but for the checks of the
\* block itself: the same policy matches and the same earlier checks fail. So a
\* token that was refused is never made acceptable, whatever facts, rules and
\* scopes the block has, unless its signer is trusted by name.
AttenuationOnlyRestricts ==
    /\ parent.status \in Decided
    /\ result.status \in Decided
    /\ token[Len(token)].key \notin NamedKeys \ {NoKey}
    => /\ result.policy = parent.policy
       /\ {f \in result.failed : f[1] # LastId} = parent.failed
       /\ result.status = "allow" => parent.status = "allow"
==============================================================================
