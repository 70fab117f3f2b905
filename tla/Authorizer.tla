----------------------------- MODULE Authorizer ------------------------------
(* An Authorizer: the world built from a token and from the authorizer's own  *)
(* facts, rules, checks and policies, and the calls a program makes on it     *)
(* (biscuit-auth/src/token/authorizer.rs, token/builder/authorizer.rs and     *)
(* World::run_with_limits of datalog/mod.rs).                                 *)
(*                                                                            *)
(* The library is sequential: a call runs to its end before the next one.     *)
(* What makes it hard is that calls share state: rules are applied by the     *)
(* first call that needs it, under limits, and a call that hits a limit or    *)
(* fails leaves the facts found so far to the calls after it.                 *)
EXTENDS Datalog, FiniteSets

CONSTANTS
    Tokens,         \* the tokens: sequences of blocks, << >> when there is none
    Contents,       \* what is loaded in the authorizer itself
    LimitChoices,   \* the RunLimits a program may set or pass
    Queries,        \* the queries a program may ask
    TimeCap,        \* clock readings saturate here
    OverflowChecks, \* whether the build panics on integer underflow
    None            \* an absent execution time, or absent limits

ASSUME TimeCapAssumption == TimeCap \in Nat
ASSUME OverflowAssumption == OverflowChecks \in BOOLEAN
ASSUME NoneAssumption == None \notin Nat

Check == [kind: {"one", "all", "reject"}, queries: Seq(Rule)]
Policy == [kind: {"allow", "deny"}, queries: Seq(Rule)]

\* key is the key of the external signature, NoKey for a first-party block.
Block == [scopes: SUBSET Scope, facts: SUBSET Facts, rules: SUBSET Rule,
          checks: Seq(Check), key: Keys \cup {NoKey}]

Content == [scopes: SUBSET Scope, facts: SUBSET Facts, rules: SUBSET Rule,
            checks: Seq(Check), policies: Seq(Policy)]

RunLimits == [max_facts: Nat, max_iterations: Nat, max_time: 0..TimeCap]

ASSUME ProgramAssumption ==
    /\ Tokens \subseteq Seq(Block)
    /\ Contents \subseteq Content
    /\ LimitChoices \subseteq RunLimits
    /\ Queries \subseteq Rule
    /\ Queries # {}

-----------------------------------------------------------------------------
(* Building: build_inner and load_and_translate_block. Symbols and key ids    *)
(* are already resolved: scopes and blocks name the keys themselves.          *)

\* public_key_to_block_id, filled before any block is loaded. Block 0 cannot
\* carry an external signature.
KeyBlocks(tk) ==
    [k \in Keys |-> {i \in 1..(Len(tk) - 1) : tk[i + 1].key = k}]

BlockIds(tk) == 0..(Len(tk) - 1)

BlockTrust(tk, i) ==
    FromScopes(tk[i + 1].scopes, DefaultOrigins, i, KeyBlocks(tk))

ContentTrust(tk, c) ==
    FromScopes(c.scopes, DefaultOrigins, AuthorizerId, KeyBlocks(tk))

\* The origins a rule or query of the owner trusts, given the owner's own trust.
RuleTrust(tk, rule, default, owner) ==
    FromScopes(rule.scopes, default, owner, KeyBlocks(tk))

LoadRule(tk, rule, default, owner) ==
    [origin |-> owner, trust |-> RuleTrust(tk, rule, default, owner),
     instances |-> rule.instances]

LoadedFacts(tk, c) ==
    [origin: {{AuthorizerId}}, fact: c.facts]
        \cup UNION {[origin: {{i}}, fact: tk[i + 1].facts] : i \in BlockIds(tk)}

LoadedRules(tk, c) ==
    {LoadRule(tk, r, ContentTrust(tk, c), AuthorizerId) : r \in c.rules}
        \cup UNION {{LoadRule(tk, r, BlockTrust(tk, i), i) : r \in tk[i + 1].rules} :
                       i \in BlockIds(tk)}

\* token_origins: everything in the token. The bound is block_count, which is
\* one more than the last block.
TokenOrigins(tk) ==
    IF tk = << >> THEN DefaultOrigins
    ELSE FromScopes({[kind |-> "previous", key |-> NoKey]}, DefaultOrigins,
                    Len(tk), KeyBlocks(tk))

-----------------------------------------------------------------------------
VARIABLES
    token, content, limits,  \* fixed when the authorizer is built
    rules,                   \* world.rules
    facts,                   \* world.facts
    iterations,              \* world.iterations
    executionTime,           \* execution_time: None until a run has completed
    pc,                      \* where the call in progress is
    call,                    \* the call in progress, or the last one
    index,                   \* the local of run_with_limits
    elapsed,                 \* time since the clock of the current phase started
    budget,                  \* limits.max_time of authorize_inner
    position,                \* the query that authorize_inner evaluates next
    failed,                  \* its `errors`: owner and index of failed checks
    policy,                  \* its `policy_result`: 0, or the policy that matched
    result                   \* what the last call returned

built == <<token, content, limits, rules>>
world == <<facts, iterations>>
inner == <<budget, position, failed, policy>>
vars == <<built, world, executionTime, pc, call, index, elapsed, inner, result>>

Ops == {"run", "authorize", "query", "query_exactly_one", "query_all"}

\* override is None for authorize, query and query_all themselves and the limits
\* of the caller for their _with_limits forms. The other two have no such form.
Call == [op: Ops, query: Queries, override: LimitChoices \cup {None}]

Statuses == {"none", "ran", "allow", "no_policy", "unauthorized", "facts",
             "unexpected_result", "too_many_iterations", "too_many_facts",
             "timeout", "expression", "panic"}

\* policy and failed qualify a decision, values holds the facts of an answer.
Result == [status: Statuses, policy: Nat, failed: SUBSET (OriginIds \X Nat),
           values: SUBSET Facts]
NoResult == [status |-> "none", policy |-> 0, failed |-> {}, values |-> {}]
Status(s) == [NoResult EXCEPT !.status = s]

\* A place in authorize_inner: a stage, its item, a query of the item.
Position == [stage: Nat, item: Nat, query: Nat]
At(stage, item, query) == [stage |-> stage, item |-> item, query |-> query]
FirstPosition == At(0, 1, 1)

\* Readings of a clock that stands at t. Time may or may not have passed.
Later(t) == {u \in {t, t + 1} : u <= TimeCap}

\* Mutant of PlusTime: the time of the last call replaces the time spent.
LastTime(s, t) == t

\* The sum of two durations, up to the cap.
PlusTime(s, t) == IF s + t <= TimeCap THEN s + t ELSE TimeCap

\* An authorizer that was just built from the token and the content.
Init ==
    /\ token \in Tokens
    /\ content \in Contents
    /\ limits \in LimitChoices
    /\ rules = LoadedRules(token, content)
    /\ facts = LoadedFacts(token, content)
    /\ iterations = 0
    /\ executionTime = None
    /\ pc = "idle"
    /\ call = [op |-> "run", query |-> CHOOSE q \in Queries : TRUE,
               override |-> None]
    /\ index = 0
    /\ elapsed = 0
    /\ budget = 0
    /\ position = FirstPosition
    /\ failed = {}
    /\ policy = 0
    /\ result = NoResult

-----------------------------------------------------------------------------
(* Authorizer::run and World::run_with_limits.                                *)

Return(r) == /\ pc' = "idle"
             /\ result' = r

\* The program calls the authorizer. Authorizer::run applies the rules unless a
\* completed run is recorded.
StartCall ==
    /\ pc = "idle"
    /\ call' \in Call
    /\ call'.op \in {"run", "query_exactly_one"} => call'.override = None
    /\ pc' = IF executionTime = None THEN "running" ELSE "ran"
    /\ index' = 0
    /\ elapsed' = 0
    /\ result' = NoResult
    /\ UNCHANGED <<built, world, executionTime, inner>>

NewFacts == Derived(rules, facts) \ facts

\* An expression fails: the pass is dropped, and so is the count of the passes
\* before it, whose facts stay.
RunFails ==
    /\ pc = "running"
    /\ AnyFails(rules, facts)
    /\ Return(Status("expression"))
    /\ UNCHANGED <<built, world, executionTime, call, index, elapsed, inner>>

\* Mutant of RunCompletes: the completed run is not recorded.
RunCompletesUnrecorded ==
    /\ pc = "running"
    /\ ~AnyFails(rules, facts)
    /\ NewFacts = {}
    /\ iterations' = iterations + index
    /\ elapsed' \in Later(elapsed)
    /\ pc' = "ran"
    /\ UNCHANGED <<built, facts, executionTime, call, index, inner, result>>

\* A pass finds nothing new: the run is complete, whatever the clock says.
RunCompletes ==
    /\ pc = "running"
    /\ ~AnyFails(rules, facts)
    /\ NewFacts = {}
    /\ iterations' = iterations + index
    /\ elapsed' \in Later(elapsed)
    /\ executionTime' = elapsed'
    /\ pc' = "ran"
    /\ UNCHANGED <<built, facts, call, index, inner, result>>

\* The limit that stops the run after a pass, in the order of the code.
LimitHit(i, n, t) ==
    CASE i = limits.max_iterations -> "too_many_iterations"
      [] i # limits.max_iterations /\ n >= limits.max_facts -> "too_many_facts"
      [] i # limits.max_iterations /\ n < limits.max_facts
             /\ t >= limits.max_time -> "timeout"
      [] OTHER -> "none"

\* Mutant of RunIterates: the time is recorded before the limit is reported.
RunIteratesRecorded ==
    /\ pc = "running"
    /\ ~AnyFails(rules, facts)
    /\ NewFacts # {}
    /\ facts' = facts \cup Derived(rules, facts)
    /\ index' = index + 1
    /\ elapsed' \in Later(elapsed)
    /\ LET hit == LimitHit(index', Cardinality(facts'), elapsed')
       IN  IF hit = "none"
           THEN UNCHANGED <<iterations, executionTime, pc, result>>
           ELSE /\ iterations' = iterations + index'
                /\ executionTime' = elapsed'
                /\ Return(Status(hit))
    /\ UNCHANGED <<built, call, inner>>

\* A pass finds new facts: they are merged, then the limits are compared.
RunIterates ==
    /\ pc = "running"
    /\ ~AnyFails(rules, facts)
    /\ NewFacts # {}
    /\ facts' = facts \cup Derived(rules, facts)
    /\ index' = index + 1
    /\ elapsed' \in Later(elapsed)
    /\ LET hit == LimitHit(index', Cardinality(facts'), elapsed')
       IN  IF hit = "none"
           THEN UNCHANGED <<iterations, pc, result>>
           ELSE /\ iterations' = iterations + index'
                /\ Return(Status(hit))
    /\ UNCHANGED <<built, executionTime, call, inner>>

\* authorize, query and query_all subtract what was spent from the limits. Their
\* _with_limits forms use the limits they are given, which run() did not.
InheritsLimits == call.op # "run" /\ call.override = None
Underflows == OverflowChecks /\ iterations > limits.max_iterations

\* Authorizer::run was called for itself.
RunReturns ==
    /\ pc = "ran"
    /\ call.op = "run"
    /\ Return(Status("ran"))
    /\ UNCHANGED <<built, world, executionTime, call, index, elapsed, inner>>

\* `limits.max_iterations -= self.world.iterations` below zero. The difference
\* is not read again: a build without overflow checks goes on as if it fitted.
SubtractionPanics ==
    /\ pc = "ran"
    /\ InheritsLimits
    /\ Underflows
    /\ Return(Status("panic"))
    /\ UNCHANGED <<built, world, executionTime, call, index, elapsed, inner>>

NoTimeLeft ==
    /\ pc = "ran"
    /\ InheritsLimits
    /\ ~Underflows
    /\ executionTime >= limits.max_time
    /\ Return(Status("timeout"))
    /\ UNCHANGED <<built, world, executionTime, call, index, elapsed, inner>>

\* authorize_inner or the evaluation of a query starts, with a clock of its own.
StartPhase ==
    /\ pc = "ran"
    /\ call.op # "run"
    /\ InheritsLimits => ~Underflows /\ executionTime < limits.max_time
    /\ pc' = IF call.op = "authorize" THEN "deciding" ELSE "querying"
    /\ budget' = IF InheritsLimits THEN limits.max_time - executionTime
                                   ELSE call.override.max_time
    /\ elapsed' = 0
    /\ position' = FirstPosition
    /\ failed' = {}
    /\ policy' = 0
    /\ UNCHANGED <<built, world, executionTime, call, index, result>>

-----------------------------------------------------------------------------
(* authorize_inner: the authorizer's checks, those of the authority block, the *)
(* policies up to the first that matches, the checks of the other blocks.      *)

PolicyStage == 2
LastStage(tk) == IF Len(tk) > 1 THEN Len(tk) + 1 ELSE PolicyStage

\* The block that owns the checks of a stage, as an origin.
StageOwner(stage) ==
    CASE stage \in {0, PolicyStage} -> AuthorizerId
      [] stage = 1                  -> 0
      [] OTHER                      -> stage - 2

StageItems(tk, c, stage) ==
    CASE stage = 0                -> c.checks
      [] stage = PolicyStage      -> c.policies
      [] stage = 1 /\ tk = << >>  -> << >>
      [] stage = 1 /\ tk # << >>  -> tk[1].checks
      [] OTHER                    -> tk[stage - 1].checks

OwnerTrust(tk, c, owner) ==
    IF owner = AuthorizerId THEN ContentTrust(tk, c) ELSE BlockTrust(tk, owner)

\* The outcomes of one query of a check or policy of the owner on these facts.
ItemKind(stage, item) == IF stage = PolicyStage THEN "one" ELSE item.kind
Outcomes(tk, c, stage, item, q, entries) ==
    QueryOutcomes(ItemKind(stage, item), q,
                  RuleTrust(tk, q, OwnerTrust(tk, c, StageOwner(stage)),
                            StageOwner(stage)),
                  entries)

Items == StageItems(token, content, position.stage)
Item == Items[position.item]
HasItem == position.item <= Len(Items)
\* Mutant of HasQuery: the last query is not evaluated.
HasQueryEarly == HasItem /\ position.query < Len(Item.queries)
HasQuery == HasItem /\ position.query <= Len(Item.queries)

NextQuery == At(position.stage, position.item, position.query + 1)
\* Mutant of NextItem: the same item again.
SameItem == At(position.stage, position.item, 1)
NextItem == At(position.stage, position.item + 1, 1)
NextStage == At(position.stage + 1, 1, 1)

\* authorize_with_limits and the queries add the time of the call to what was
\* spent, whatever the call returns.
Finish(r) == /\ Return(r)
             /\ executionTime' = PlusTime(executionTime, elapsed')

\* One query is evaluated: an expression that fails ends the call at once, then
\* the clock is read, then the answer counts.
EvaluateQuery ==
    /\ pc = "deciding"
    /\ position.stage <= LastStage(token)
    /\ HasQuery
    /\ elapsed' \in Later(elapsed)
    /\ \E answer \in Outcomes(token, content, position.stage, Item,
                              Item.queries[position.query], facts) :
         \/ /\ answer = "error"
            /\ Finish(Status("expression"))
            /\ UNCHANGED <<position, policy>>
         \/ /\ answer # "error"
            /\ elapsed' >= budget
            /\ Finish(Status("timeout"))
            /\ UNCHANGED <<position, policy>>
         \/ /\ answer = "false"
            /\ elapsed' < budget
            /\ position' = NextQuery
            /\ UNCHANGED <<pc, result, executionTime, policy>>
         \/ /\ answer = "true"
            /\ elapsed' < budget
            /\ position' = IF position.stage = PolicyStage THEN NextStage
                                                           ELSE NextItem
            /\ policy' = IF position.stage = PolicyStage THEN position.item
                                                         ELSE policy
            /\ UNCHANGED <<pc, result, executionTime>>
    /\ UNCHANGED <<built, world, call, index, budget, failed>>

\* No query of the item was satisfied: a check has failed, a policy is skipped.
ItemExhausted ==
    /\ pc = "deciding"
    /\ position.stage <= LastStage(token)
    /\ HasItem
    /\ ~HasQuery
    /\ failed' = IF position.stage = PolicyStage THEN failed
                 ELSE failed \cup {<<StageOwner(position.stage), position.item>>}
    /\ position' = NextItem
    /\ UNCHANGED <<built, world, executionTime, pc, call, index, elapsed, budget,
                   policy, result>>

StageExhausted ==
    /\ pc = "deciding"
    /\ position.stage <= LastStage(token)
    /\ ~HasItem
    /\ position' = NextStage
    /\ UNCHANGED <<built, world, executionTime, pc, call, index, elapsed, budget,
                   failed, policy, result>>

\* The match that ends authorize_inner.
DecisionStatus ==
    CASE policy = 0 -> "no_policy"
      [] policy # 0 /\ content.policies[policy].kind = "allow" /\ failed = {}
            -> "allow"
      [] OTHER -> "unauthorized"

Decide ==
    /\ pc = "deciding"
    /\ position.stage > LastStage(token)
    /\ elapsed' \in Later(elapsed)
    /\ Finish([Status(DecisionStatus) EXCEPT !.policy = policy, !.failed = failed])
    /\ UNCHANGED <<built, world, call, index, inner>>

-----------------------------------------------------------------------------
(* query_inner and query_all_inner. Both ignore the limits they are given.     *)

QueryOwner == IF call.op = "query_all" THEN 0 ELSE AuthorizerId

\* Mutant of QueryTrust: queries default to what the authorizer's rules trust.
QueryTrustContent ==
    IF call.op = "query_all" /\ call.query.scopes = {}
    THEN TokenOrigins(token)
    ELSE RuleTrust(token, call.query, ContentTrust(token, content), AuthorizerId)

QueryTrust ==
    IF call.op = "query_all" /\ call.query.scopes = {}
    THEN TokenOrigins(token)
    ELSE RuleTrust(token, call.query, DefaultOrigins, AuthorizerId)

QueryRule == [origin |-> QueryOwner, trust |-> QueryTrust,
              instances |-> call.query.instances]

\* query, and so query_exactly_one, has one row for each origin a fact was
\* concluded with; query_all collects the facts in a set first.
Answer ==
    LET entries == Conclusions(QueryRule, facts)
        one     == \E e \in entries : entries = {e}
    IN  IF call.op = "query_exactly_one" /\ ~one
        THEN Status("unexpected_result")
        ELSE [Status("facts") EXCEPT !.values = {e.fact : e \in entries}]

RunQuery ==
    /\ pc = "querying"
    /\ elapsed' \in Later(elapsed)
    /\ Finish(IF Fails(QueryRule, facts) THEN Status("expression") ELSE Answer)
    /\ UNCHANGED <<built, world, call, index, inner>>

-----------------------------------------------------------------------------
\* The steps of a call that has started.
LibraryStep ==
    \/ RunFails \/ RunCompletes \/ RunIterates
    \/ RunReturns \/ SubtractionPanics \/ NoTimeLeft \/ StartPhase
    \/ EvaluateQuery \/ ItemExhausted \/ StageExhausted \/ Decide
    \/ RunQuery

Next == StartCall \/ LibraryStep

\* A call that has started keeps executing; the program need not call.
Spec == Init /\ [][Next]_vars /\ WF_vars(LibraryStep)

-----------------------------------------------------------------------------
\* Every variable holds a value of its type; only a completed run has a time.
TypeOK ==
    /\ token \in Tokens
    /\ content \in Contents
    /\ limits \in LimitChoices
    /\ rules \subseteq WorldRule
    /\ facts \subseteq Entry
    /\ iterations \in Nat
    /\ executionTime \in 0..TimeCap \cup {None}
    /\ pc \in {"idle", "running", "ran", "deciding", "querying"}
    /\ pc \in {"ran", "deciding", "querying"} => executionTime # None
    /\ call \in Call
    /\ index \in Nat
    /\ elapsed \in 0..TimeCap
    /\ budget \in 0..TimeCap
    /\ position \in Position
    /\ failed \subseteq OriginIds \X Nat
    /\ policy \in Nat
    /\ result \in Result

\* Decisions and answers are computed on complete facts: whenever a run is
\* recorded as completed, no rule has anything to add and none fails, however
\* many earlier runs were stopped by a limit half-way.
CompleteWhenRecorded ==
    executionTime # None => NewFacts = {} /\ ~AnyFails(rules, facts)

\* Facts are never lost, a completed run is never forgotten, and the time it
\* took is never refunded.
WorldGrows ==
    [][/\ facts \subseteq facts'
       /\ iterations <= iterations'
       /\ executionTime # None =>
             executionTime' # None /\ executionTime <= executionTime']_vars

\* Every call returns.
CallsReturn == (pc # "idle") ~> (pc = "idle")
==============================================================================
