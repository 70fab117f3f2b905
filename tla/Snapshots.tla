------------------------------ MODULE Snapshots ------------------------------
(* An Authorizer saved between two calls and read back, possibly several       *)
(* times (biscuit-auth/src/token/authorizer/snapshot.rs and the snapshot       *)
(* blocks of format/convert.rs).                                               *)
(*                                                                             *)
(* A snapshot keeps the blocks, the authorizer's own content, the facts found  *)
(* so far under their origins, the limits and the two counters. Rules, trusted *)
(* origins and tables are computed again when it is read, one block after the  *)
(* other; the functions the program registered are not part of it.             *)
EXTENDS AuthorizerProperties, Functions

CONSTANTS
    DefaultNames,   \* the facts spelled with predefined symbols only
    External        \* the instances whose expressions call a registered function

ASSUME DefaultAssumption == DefaultNames \subseteq Facts
ASSUME ExternalAssumption == External \subseteq Ground

VARIABLES
    stored,     \* the snapshot, None when there is none
    restored,   \* what the last from_snapshot returned
    original    \* the blocks and the content of the authorizer first built

snapshotVars == <<stored, restored, original>>

-----------------------------------------------------------------------------
(* Origins on the wire.                                                        *)

\* authorizer_origin_to_proto_origin
ProtoOrigin(origin) ==
    {IF o = AuthorizerId THEN [content |-> "authorizer"]
                         ELSE [content |-> "origin", id |-> o] : o \in origin}

\* Mutant of TokenOrigin: the authorizer is left out of the origins.
TokenOriginOnly(origins) == {o.id : o \in {p \in origins : p.content = "origin"}}

\* proto_origin_to_authorizer_origin
TokenOrigin(origins) ==
    {IF o.content = "authorizer" THEN AuthorizerId ELSE o.id : o \in origins}

-----------------------------------------------------------------------------
(* Reading a snapshot.                                                         *)

\* A query or a rule as it is evaluated by a world without external functions:
\* the call of a function that is not there fails.
WithoutExterns(rule) ==
    [rule EXCEPT !.instances =
        {IF g \in External THEN [g EXCEPT !.guard = "error"] ELSE g : g \in @}]
Unregistered(items) ==
    [i \in DOMAIN items |->
        [items[i] EXCEPT !.queries = [q \in DOMAIN @ |-> WithoutExterns(@[q])]]]

RestoredBlocks(tk) ==
    [b \in DOMAIN tk |->
        [tk[b] EXCEPT !.rules = {WithoutExterns(r) : r \in @},
                      !.checks = Unregistered(@)]]
RestoredContent(c) ==
    [c EXCEPT !.rules = {WithoutExterns(r) : r \in @},
              !.checks = Unregistered(@),
              !.policies = Unregistered(@)]

\* Mutant of KeysSoFar: a block is listed one position too early.
KeysAhead(tk, i) ==
    [k \in Keys |-> {j \in 0..i : j + 2 \in DOMAIN tk /\ tk[j + 2].key = k}]

\* public_key_to_block_id when block i is loaded: the keys of the blocks after
\* it are not there yet, where build_inner knows those of the whole token.
KeysSoFar(tk, i) == [k \in Keys |-> {j \in KeyBlocks(tk)[k] : j <= i}]

RestoredBlockRule(tk, i, rule) ==
    [origin |-> i,
     trust  |-> FromScopes(rule.scopes,
                           FromScopes(tk[i + 1].scopes, DefaultOrigins, i,
                                      KeysSoFar(tk, i)),
                           i, KeysSoFar(tk, i)),
     instances |-> rule.instances]

RestoredRules(tk, c) ==
    {LoadRule(tk, r, ContentTrust(tk, c), AuthorizerId) : r \in c.rules}
        \cup UNION {{RestoredBlockRule(tk, i, r) : r \in tk[i + 1].rules} :
                       i \in BlockIds(tk)}

\* The block of a third party is read with tables of its own, and these are
\* empty: the snapshot wrote it with those of the authorizer.
ReadableRule(rule) ==
    /\ \A s \in rule.scopes : s.kind # "key"
    /\ \A g \in rule.instances : Range(g.body) \cup {g.head} \subseteq DefaultNames
ReadableQuery(query) ==
    /\ \A s \in query.scopes : s.kind # "key"
    /\ \A g \in query.instances : Range(g.body) \subseteq DefaultNames
ReadableBlock(block) ==
    block.key # NoKey =>
        /\ \A s \in block.scopes : s.kind # "key"
        /\ block.facts \subseteq DefaultNames
        /\ \A r \in block.rules : ReadableRule(r)
        /\ \A i \in DOMAIN block.checks :
              \A q \in DOMAIN block.checks[i].queries :
                  ReadableQuery(block.checks[i].queries[q])

\* Mutant of StoredFacts: only what is loaded again is kept.
LoadedFactsOnly(tk, c) == LoadedFacts(tk, c)

\* The facts of the world that is read: those of the blocks and of the content
\* are inserted again, then the generated ones.
StoredFacts(tk, c) ==
    LoadedFacts(tk, c) \cup {[origin |-> TokenOrigin(g.origins), fact |-> g.fact] :
                                g \in stored.generated}

\* Mutant of RecordedTime: a time of zero is a time.
TimeAsRead(nanos) == nanos

\* The time is a plain number: that of a run that took none reads as no run.
RecordedTime(nanos) == IF nanos > 0 THEN nanos ELSE None

-----------------------------------------------------------------------------
\* Authorizer::snapshot. It neither waits for a run nor starts one.
TakeSnapshot ==
    /\ pc = "idle"
    /\ stored' = [blocks        |-> token,
                  content       |-> content,
                  limits        |-> limits,
                  generated     |-> {[origins |-> ProtoOrigin(e.origin),
                                      fact |-> e.fact] : e \in facts},
                  iterations    |-> iterations,
                  executionTime |-> IF executionTime = None THEN 0 ELSE executionTime]
    /\ UNCHANGED <<vars, restored, original>>

\* Authorizer::from_snapshot: the program goes on with the authorizer it gets.
Restore ==
    /\ pc = "idle"
    /\ stored # None
    /\ \A b \in DOMAIN stored.blocks : ReadableBlock(stored.blocks[b])
    /\ token' = RestoredBlocks(stored.blocks)
    /\ content' = RestoredContent(stored.content)
    /\ limits' = stored.limits
    /\ rules' = RestoredRules(token', content')
    /\ facts' = StoredFacts(token', content')
    /\ iterations' = stored.iterations
    /\ executionTime' = RecordedTime(stored.executionTime)
    /\ result' = NoResult
    /\ restored' = "authorizer"
    /\ UNCHANGED <<pc, call, index, elapsed, inner, stored, original>>

\* A name of a third-party block is not found.
RestoreFails ==
    /\ pc = "idle"
    /\ stored # None
    /\ \E b \in DOMAIN stored.blocks : ~ReadableBlock(stored.blocks[b])
    /\ restored' = "unknown_symbol"
    /\ UNCHANGED <<vars, stored, original>>

SnapshotInit ==
    /\ Init
    /\ stored = None
    /\ restored = "nothing"
    /\ original = [token |-> token, content |-> content]

SnapshotNext ==
    \/ TakeSnapshot \/ Restore \/ RestoreFails
    \/ Next /\ UNCHANGED snapshotVars

SnapshotSpec == SnapshotInit /\ [][SnapshotNext]_<<vars, snapshotVars>>

-----------------------------------------------------------------------------
(* Properties.                                                                 *)

\* No number of interrupted runs, snapshots and restorations makes a fact
\* appear that the authorizer first built would not derive, under any origin:
\* restored origins, trust and counters can only withhold.
SnapshotsAddNothing ==
    facts \subseteq LeastModel(original.token,
                               LoadedRules(original.token, original.content),
                               LoadedFacts(original.token, original.content))

\* Some rule of a block trusts the key of a block after it.
TrustsLaterKey ==
    \E i \in BlockIds(original.token) :
      \E s \in original.token[i + 1].scopes
                 \cup UNION {r.scopes : r \in original.token[i + 1].rules} :
          /\ s.kind = "key"
          /\ \E j \in KeyBlocks(original.token)[s.key] : j > i

CallsExterns ==
    <<RestoredBlocks(original.token), RestoredContent(original.content)>>
        # <<original.token, original.content>>

\* The decisions and answers of a restored authorizer are those its token and
\* its content justify, as if it had never been saved, whatever calls were made
\* and stopped before the snapshot; the exceptions are the rules that trust the
\* key of a later block, which the restored authorizer does not follow, and
\* the functions that it no longer has.
RestoredIsJustified ==
    TrustsLaterKey \/ CallsExterns \/ (DecisionJustified /\ AnswerJustified)

\* An authorizer that takes a run as completed has all the facts its rules
\* yield, also when both come from a snapshot taken between two limited runs.
RestoredIsComplete ==
    executionTime # None =>
        /\ NewFacts = {}
        /\ ~CallsExterns => ~AnyFails(rules, facts)

\* Restoring a snapshot of the facts that the authorizer holds changes neither
\* its rules nor its facts or limits, but for the two exceptions above.
RestoreIsTransparent ==
    [][/\ Restore
       /\ {[origin |-> TokenOrigin(g.origins), fact |-> g.fact] :
               g \in stored.generated} = facts
       /\ ~TrustsLaterKey
       /\ ~CallsExterns
       => UNCHANGED <<token, content, limits, rules, facts>>]_<<vars, snapshotVars>>
==============================================================================
