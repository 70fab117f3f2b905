----------------------------- MODULE MCAuthorizer ----------------------------
(* Small tokens and authorizers for TLC. The tokens attenuate, self-grant,     *)
(* carry a third-party block, and hold rules whose expressions fail; the       *)
(* authorizers trust the default origins, a key, or every kind of check.       *)
EXTENDS AuthorizerProperties

MCFacts == {"user", "member", "op", "admin", "ok"}

Bare(key) == [scopes |-> {}, facts |-> {}, rules |-> {}, checks |-> << >>,
              key |-> key]
When(body, guard, head) == [body |-> body, guard |-> guard, head |-> head]
Rules(scopes, instances) == [scopes |-> scopes, instances |-> instances]
If(body) == Rules({}, {When(body, "true", "ok")})
OnlyIf(kind, queries) == [kind |-> kind, queries |-> queries]

Previous == {[kind |-> "previous", key |-> NoKey]}
Authority == {[kind |-> "authority", key |-> NoKey]}
ByKey(k) == {[kind |-> "key", key |-> k]}

\* user(..); member <- user, and a check that the operation is known.
Root == [Bare(NoKey) EXCEPT
            !.facts = {"user"},
            !.rules = {Rules({}, {When(<<"user">>, "true", "member")})},
            !.checks = <<OnlyIf("one", <<If(<<"op">>)>>)>>]

\* A holder grants itself a right in two ways, and derives "member" once more.
SelfGrant == [Bare(NoKey) EXCEPT
            !.facts = {"admin"},
            !.rules = {Rules({}, {When(<<"admin">>, "true", "ok"),
                                  When(<<"user">>, "true", "admin")}),
                       Rules(Previous, {When(<<"user", "admin">>, "true", "member")})}]

\* A holder restricts the token: checks on the facts of all previous blocks.
Restrict == [Bare(NoKey) EXCEPT
            !.scopes = Previous,
            !.checks = <<OnlyIf("reject", <<If(<<"admin">>)>>),
                         OnlyIf("one", << >>)>>]

\* A third party states that the user is an administrator, and what follows.
ThirdParty == [Bare("k1") EXCEPT
            !.facts = {"admin"},
            !.rules = {Rules(Authority, {When(<<"member", "admin">>, "true", "ok")})}]

\* A rule that compares what its facts bind: under one binding it is false,
\* under another, which needs a derived fact, the expression fails.
Faulty == [Bare(NoKey) EXCEPT
            !.rules = {Rules({}, {When(<<"user">>, "false", "admin"),
                                  When(<<"member">>, "error", "admin")})}]

MCTokens == {<< >>, <<Root>>, <<Root, SelfGrant>>, <<Root, ThirdParty, Restrict>>,
             <<Root, Restrict, ThirdParty>>, <<Root, Faulty>>}

\* ok <- member, op, then allow if ok.
Plain == [scopes |-> {}, facts |-> {"op"},
          rules |-> {Rules({}, {When(<<"member", "op">>, "true", "ok")})},
          checks |-> << >>,
          policies |-> <<OnlyIf("allow", <<If(<<"ok">>)>>),
                         OnlyIf("deny", <<If(<< >>)>>)>>]

\* deny if admin, then allow if ok trusting k1; the check fails to evaluate on
\* one of its two bindings.
Trusting == [scopes |-> ByKey("k1"), facts |-> {"op"}, rules |-> {},
          checks |-> <<OnlyIf("one", <<Rules({}, {When(<<"op">>, "true", "ok"),
                                                  When(<<"admin">>, "error", "ok")})>>),
                       OnlyIf("all", <<Rules({}, {When(<<"op">>, "true", "ok"),
                                                  When(<<"admin">>, "false", "ok")})>>)>>,
          policies |-> <<OnlyIf("deny", <<Rules(Authority, {When(<<"admin">>, "true", "ok")})>>),
                         OnlyIf("allow", <<If(<<"user">>), If(<<"admin">>)>>)>>]

MCContents == {Plain, Trusting}

Tight == [max_facts |-> 100, max_iterations |-> 1, max_time |-> 2]
Narrow == [max_facts |-> 4, max_iterations |-> 3, max_time |-> 1]
Loose == [max_facts |-> 100, max_iterations |-> 0, max_time |-> 2]
MCLimits == {Tight, Narrow, Loose}

AskOk == Rules({}, {When(<<"ok">>, "true", "ok"), When(<<"admin">>, "true", "admin"),
                    When(<<"member">>, "true", "ok")})
AskKey == Rules(ByKey("k1"), {When(<<"admin">>, "error", "admin")})
MCQueries == {AskOk, AskKey}

MCGroups == SUBSET {AuthorizerId, 0, 1, 2}
==============================================================================
