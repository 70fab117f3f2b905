------------------------------ MODULE BlockPath -------------------------------
(* The way of a block, from its builder to the authorizer that loads it, and  *)
(* of an authorizer that is saved and restored: what is kept of the           *)
(* statements, whatever the builder was told and by which of its methods.     *)
EXTENDS Blocks

CONSTANTS
    TokenTables,        \* tables of a token: pairs of symbols and keys
    TokenFacts,         \* the facts of the other blocks, with their origins
    LoadedKeys          \* the keys that the authorizer has met before

ASSUME TokenAssumption ==
    /\ TokenTables \subseteq Seq(STRING) \X Seq(STRING)
    /\ TokenFacts \in Seq(Nat \X PredicatesOver(STRING))
    /\ LoadedKeys \in Seq(STRING)

VARIABLES
    target,     \* what is built: "block", "third_party" or "authorizer"
    builder,
    stage,      \* how far the block is
    tables,     \* the tables of the token
    block,      \* the block as built, with indices in those tables
    proto,      \* the block on the wire, or what a saved authorizer holds
    loaded      \* the block, and the tables, in the authorizer

way == <<target, builder, stage, tables, block, proto, loaded>>

None == << >>

Start ==
    /\ target \in {"block", "third_party", "authorizer"}
    /\ tables \in IF target = "block" THEN TokenTables ELSE {<<<< >>, << >>>>}
    /\ builder = Empty /\ stage = "building"
    /\ block = None /\ proto = None /\ loaded = None

\* A method of the builder. One that fails has consumed it.
Edit ==
    /\ stage = "building"
    /\ \/ stage' = "building" /\ WellTyped(builder')
       \/ stage' = "refused" /\ builder' = Empty
    /\ UNCHANGED <<target, tables, block, proto, loaded>>
------------------------------------------------------------------------------
\* From the builder to the authorizer

\* BlockBuilder::build, for a token or by ThirdPartyRequest::create_block, which
\* declares at least the version that knows third-party blocks.
BuildBlock ==
    /\ stage = "building" /\ target # "authorizer"
    /\ IF Panics(builder)
       THEN stage' = "panicked" /\ UNCHANGED block
       ELSE LET made == build(builder, tables[1], tables[2])
                least == IF target = "third_party" THEN DATALOG_3_2 ELSE MIN_SCHEMA_VERSION
            IN  /\ stage' = "built"
                /\ block' = [made EXCEPT !.version = IF @ < least THEN least ELSE @]
    /\ UNCHANGED <<target, builder, tables, proto, loaded>>

Serialize ==
    /\ stage = "built"
    /\ proto' = token_block_to_proto_block(block)
    /\ stage' = "sent"
    /\ UNCHANGED <<target, builder, tables, block, loaded>>

Deserialize ==
    /\ stage = "sent"
    /\ IF Accepts(proto, target = "third_party")
       THEN stage' = "received" /\ block' = proto_block_to_token_block(proto)
       ELSE stage' = "unreadable" /\ UNCHANGED block
    /\ UNCHANGED <<target, builder, tables, proto, loaded>>

\* The facts of other blocks are loaded before.
LoadedSymbols == Once(AllWords([i \in DOMAIN TokenFacts |-> <<"fact", TokenFacts[i][2]>>]))

Load ==
    /\ stage = "received"
    /\ LET result == load_and_translate_block(
                         block, tables[1] \o block.symbols, tables[2] \o block.public_keys,
                         LoadedSymbols, LoadedKeys)
       IN  IF result.error = "" THEN stage' = "loaded" /\ loaded' = result
           ELSE stage' = "invalid" /\ UNCHANGED loaded
    /\ UNCHANGED <<target, builder, tables, block, proto>>

BuildAuthorizer ==
    /\ stage = "building" /\ target = "authorizer"
    /\ IF PanicsAtBuild(builder)
       THEN stage' = "panicked" /\ UNCHANGED loaded
       ELSE stage' = "loaded" /\ loaded' = build_inner(builder, LoadedSymbols, LoadedKeys)
    /\ UNCHANGED <<target, builder, tables, block, proto>>
------------------------------------------------------------------------------
\* Saving and restoring the authorizer

\* Authorizer::save and AuthorizerPolicies::serialize, which converts everything.
Save ==
    /\ stage = "loaded" /\ target = "authorizer"
    /\ IF Panics(builder)
       THEN stage' = "panicked" /\ UNCHANGED proto
       ELSE stage' = "saved" /\ proto' = saved(builder)
    /\ UNCHANGED <<target, builder, tables, block, loaded>>

\* AuthorizerBuilder::snapshot
Snapshot ==
    /\ stage = "building" /\ target = "authorizer"
    /\ IF Panics(builder)
       THEN stage' = "panicked" /\ UNCHANGED proto
       ELSE stage' = "snapshot" /\ proto' = snapshot(builder)
    /\ UNCHANGED <<target, builder, tables, block, loaded>>

\* AuthorizerBuilder::from_snapshot, or Authorizer::from: an authorizer has no
\* token, and its facts and rules are in its builder and not in its world.
Restore ==
    /\ stage \in {"saved", "snapshot"}
    /\ IF \/ stage = "saved" /\ ~RestorableSaved(proto)
          \/ stage = "snapshot" /\ ~RestorableSnapshot(proto)
       THEN stage' = "unreadable" /\ UNCHANGED <<builder, loaded>>
       ELSE LET made == restored(proto)
                world == [made EXCEPT !.items = OfKind(made, "check") \o OfKind(made, "policy")]
            IN  /\ builder' = made
                /\ stage' = IF stage = "saved" THEN "reloaded" ELSE "restored"
                /\ loaded' = IF stage = "saved" THEN build_inner(world, << >>, << >>) ELSE loaded
    /\ UNCHANGED <<target, tables, block, proto>>

\* The rules, the checks and the policies are run. Asking a check or a policy
\* converts it.
Use ==
    /\ stage \in {"loaded", "reloaded"}
    /\ stage' = IF Panics(builder) THEN "panicked" ELSE "answered"
    /\ UNCHANGED <<target, builder, tables, block, proto, loaded>>
------------------------------------------------------------------------------
Travel ==
    \/ BuildBlock \/ Serialize \/ Deserialize \/ Load \/ BuildAuthorizer
    \/ Save \/ Snapshot \/ Restore

PathSpec == Start /\ [][Edit \/ Travel \/ Use]_way
==============================================================================
