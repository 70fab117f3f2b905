---------------------------- MODULE MCAttenuation ----------------------------
(* Tokens that grow from a root by up to two blocks, with the blocks and       *)
(* authorizers of the runs of a single authorizer.                             *)
EXTENDS Attenuation, MCAuthorizer

\* A holder negates an operation, trusting only what comes before.
Negate == [Bare(NoKey) EXCEPT
            !.facts = {"ok"},
            !.checks = <<OnlyIf("all", <<Rules(Previous, {When(<<"member">>, "true", "ok"),
                                                          When(<<"admin">>, "false", "ok")})>>)>>]

MCAppended == {SelfGrant, Restrict, ThirdParty, Negate}

GrowingTokens == {<<Root>>} \cup {<<Root, b>> : b \in MCAppended}
                    \cup {<<Root, b, c>> : b, c \in MCAppended}
TwoLimits == {Loose, Tight}
OneQuery == {AskOk}
OneGroup == {{0}}
==============================================================================
