------------------------ MODULE AuthorizerProperties -------------------------
(* What an Authorizer promises about its decisions and answers, against        *)
(* definitions that do not run it.                                             *)
EXTENDS Authorizer

CONSTANT Groups     \* the coalitions of origins whose views are observed

ASSUME GroupsAssumption == Groups \subseteq SUBSET OriginIds

\* Each coalition of blocks sees what it would derive by itself, at every step
\* of every call, whatever the other blocks of the token say: the authorizer
\* implements the specification of coalitions that are evaluated separately.
View == [g \in Groups |-> {e \in facts : e.origin \subseteq g}]
Separate == INSTANCE Coalitions WITH view <- View
CoalitionsAreIsolated == Separate!Spec

-----------------------------------------------------------------------------
(* The least model of a set of rules, by iteration from the loaded facts.      *)

\* The origins a token and an authorizer can give to a fact.
Ids(tk) == BlockIds(tk) \cup {AuthorizerId}

\* A pass adds a fact under a new origin, or nothing: this many passes suffice.
EnoughPasses(tk) == Cardinality(Facts) * 2 ^ (Len(tk) + 1)

\* What the loaded facts have become after each number of passes.
Passes(rs, loaded) ==
    LET after[n \in Nat] ==
            IF n = 0 THEN loaded
            ELSE LET before == after[n - 1] IN before \cup Derived(rs, before)
    IN  after

LeastModel(tk, rs, loaded) ==
    LET after  == Passes(rs, loaded)
        enough == CHOOSE n \in 0..EnoughPasses(tk) :
                      Derived(rs, after[n]) \subseteq after[n]
    IN  after[enough]

\* The world that the blocks of a group derive on their own.
ModelOf(tk, c, group) ==
    LeastModel(tk,
               {r \in LoadedRules(tk, c) : r.origin \in group},
               {e \in LoadedFacts(tk, c) : e.origin \subseteq group})

TrustedModel(tk, c, trust) == ModelOf(tk, c, trust \cap Ids(tk))

-----------------------------------------------------------------------------
(* Decisions.                                                                  *)

ModelOutcomes(tk, c, stage, item, q) ==
    LET owner == StageOwner(stage)
        trust == RuleTrust(tk, q, OwnerTrust(tk, c, owner), owner)
    IN  QueryOutcomes(ItemKind(stage, item), q, trust, TrustedModel(tk, c, trust))

\* An item may be satisfied, or may be left unsatisfied; neither when all that
\* it can do is fail.
CanHold(tk, c, stage, item) ==
    \E q \in DOMAIN item.queries :
        "true" \in ModelOutcomes(tk, c, stage, item, item.queries[q])
CanMiss(tk, c, stage, item) ==
    \A q \in DOMAIN item.queries :
        "false" \in ModelOutcomes(tk, c, stage, item, item.queries[q])

CheckStages(tk) == (0..LastStage(tk)) \ {PolicyStage}

\* What each check and policy finds in the part of the token its own scopes
\* trust, evaluated alone: every check of every block that is not reported as
\* failed can hold, every reported one can miss, the reported policy can match
\* and those before it can miss.
Justified(tk, c, r) ==
    /\ \A stage \in CheckStages(tk) : \A i \in DOMAIN StageItems(tk, c, stage) :
          IF <<StageOwner(stage), i>> \in r.failed
          THEN CanMiss(tk, c, stage, StageItems(tk, c, stage)[i])
          ELSE CanHold(tk, c, stage, StageItems(tk, c, stage)[i])
    /\ \A i \in DOMAIN c.policies :
          (r.policy = 0 \/ i < r.policy)
              => CanMiss(tk, c, PolicyStage, c.policies[i])
    /\ r.policy # 0 => CanHold(tk, c, PolicyStage, c.policies[r.policy])
    /\ r.status = "allow" <=>
          /\ r.failed = {}
          /\ r.policy # 0
          /\ c.policies[r.policy].kind = "allow"

Decided == {"allow", "no_policy", "unauthorized"}

\* Every decision is justified by the token and the content alone, whatever was
\* called before it and whatever stopped it.
DecisionJustified == result.status \in Decided => Justified(token, content, result)

-----------------------------------------------------------------------------
(* Answers.                                                                    *)

\* What a query concludes from the model of the blocks it trusts.
ModelAnswer(trust) ==
    {e.fact : e \in Conclusions([origin |-> QueryOwner, trust |-> trust,
                                 instances |-> call.query.instances],
                                TrustedModel(token, content, trust))}

\* query answers from the authorizer and the authority block unless it names
\* other origins, query_all from the whole token; neither sees anything that
\* depends on a block it does not trust, nor misses anything it trusts.
AnswerJustified ==
    result.status = "facts" =>
        result.values =
            ModelAnswer(
                IF call.query.scopes # {}
                THEN FromScopes(call.query.scopes, {}, AuthorizerId, KeyBlocks(token))
                ELSE IF call.op = "query_all"
                     THEN Ids(token)
                     ELSE {AuthorizerId, 0})

-----------------------------------------------------------------------------
(* What the documentation says of limits.                                      *)

\* authorizer.rs says of limits(): "Those limits cover all the executions under
\* the `authorize`, `query` and `query_all` methods". A completed evaluation
\* would then never have used more iterations than the limit.
LimitsCoverAllExecutions ==
    executionTime # None /\ limits.max_iterations > 0 =>
        iterations <= limits.max_iterations

\* authorizer.rs says of the _with_limits methods: "this method overrides the
\* authorizer's runtime limits, just for this calls". A call that is stopped
\* by its iteration limit would then have used up the limit it was given.
OverrideIsUsed ==
    /\ result.status = "too_many_iterations"
    /\ call.override # None
    => index = call.override.max_iterations
==============================================================================
