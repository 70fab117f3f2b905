----------------------------- MODULE MCSnapshots -----------------------------
(* Small tokens and contents for TLC: an owner that trusts the key of a block  *)
(* after its own, a third party that uses predefined names only and one that   *)
(* does not, and a policy that calls a function of the program.                *)
EXTENDS Snapshots

MCFacts == {"user", "member", "op", "admin"}
MCDefaultNames == {"user", "member", "admin"}

Bare(key) == [scopes |-> {}, facts |-> {}, rules |-> {}, checks |-> << >>,
              key |-> key]
When(body, guard, head) == [body |-> body, guard |-> guard, head |-> head]
Rules(scopes, instances) == [scopes |-> scopes, instances |-> instances]
If(body) == Rules({}, {When(body, "true", "op")})
OnlyIf(kind, queries) == [kind |-> kind, queries |-> queries]

Previous == {[kind |-> "previous", key |-> NoKey]}
ByKey(k) == {[kind |-> "key", key |-> k]}

\* member <- user
Root == [Bare(NoKey) EXCEPT
            !.facts = {"user"},
            !.rules = {Rules({}, {When(<<"user">>, "true", "member")})}]

\* op <- admin trusting k1, a key that may sign the block after this one.
Forward == [Bare(NoKey) EXCEPT
            !.rules = {Rules(ByKey("k1"), {When(<<"admin">>, "true", "op")})},
            !.checks = <<OnlyIf("one", <<Rules(Previous, {When(<<"user">>, "true", "op")})>>)>>]

ThirdParty == [Bare("k1") EXCEPT
            !.facts = {"admin"},
            !.rules = {Rules({}, {When(<<"member", "admin">>, "true", "user")})},
            !.checks = <<OnlyIf("reject", <<Rules({}, {When(<<"user">>, "false", "op")})>>)>>]
Unreadable == [Bare("k1") EXCEPT !.facts = {"op"}]

MCTokens == {<<Root, Forward, ThirdParty>>, <<Root, ThirdParty, Forward>>,
             <<Root, Unreadable>>, << >>}

\* op <- member, then deny if admin trusting k1, allow if op.
Plain == [scopes |-> {}, facts |-> {"user"},
          rules |-> {Rules({}, {When(<<"member">>, "true", "op")})},
          checks |-> << >>,
          policies |-> <<OnlyIf("allow", <<If(<<"op", "member">>)>>)>>]

Called == When(<<"member">>, "true", "admin")
Calling == [scopes |-> ByKey("k1"), facts |-> {},
          rules |-> {Rules({}, {Called})},
          checks |-> << >>,
          policies |-> <<OnlyIf("deny", <<If(<<"admin">>)>>)>>]
MCExternal == {Called}

MCContents == {Plain, Calling}

Tight == [max_facts |-> 100, max_iterations |-> 1, max_time |-> 2]
Loose == [max_facts |-> 100, max_iterations |-> 9, max_time |-> 2]
MCLimits == {Tight, Loose}

AskOp == Rules({}, {When(<<"op">>, "true", "op")})
MCQueries == {AskOp}

MCGroups == {{AuthorizerId, 0}}
==============================================================================
