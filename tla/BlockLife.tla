------------------------------- MODULE BlockLife -------------------------------
(* The life of a block, from text to answers: a builder takes Datalog code,   *)
(* the block is built for a token, sent, received and loaded in an            *)
(* authorizer, whose rules, checks and policies are then run once on the      *)
(* facts. The builder may also be that of the authorizer itself, which can be *)
(* saved and restored.                                                        *)
(*                                                                            *)
(* An input is a record of a source, the values given for its parameters and  *)
(* those for its scopes. When the source is a single check, tree may be the   *)
(* expression that it is known to say.                                        *)
EXTENDS BlockRun, Expressions, Sources

CONSTANTS
    Inputs,             \* what a new builder may be given
    LaterInputs,        \* what a builder may be given after that
    Singles,            \* pairs of a kind and the text of one statement
    Extensions,         \* pairs of a method of BuilderExt and its argument
    BlockScopes,        \* the scopes that may be added to the block
    MaxItems            \* bound on the statements of a builder

VARIABLE given      \* the first input

vars == <<target, given, builder, stage, tables, block, proto, loaded, walked, answers>>

Init == StartRun /\ given = None
------------------------------------------------------------------------------
\* The builder. A method that fails has consumed it.

Grammar == IF target = "authorizer" THEN "authorizer" ELSE "block"
\* A bound: what says one expression is not tried for a third-party block too.
Allowed ==
    IF builder = Empty THEN {input \in Inputs : input.tree = None \/ target # "third_party"}
    ELSE LaterInputs

\* Mutant of Continue: a builder that has failed can be used again.
ContinueKeeping(result) ==
    /\ stage' = IF result.error = "" THEN "building" ELSE "refused"
    /\ builder' = IF result.error = "" THEN result.builder ELSE builder
    /\ UNCHANGED <<target, tables, block, proto, loaded, walked, answers>>

Continue(result) ==
    /\ stage' = IF result.error = "" THEN "building" ELSE "refused"
    /\ builder' = IF result.error = "" THEN result.builder ELSE Empty
    /\ UNCHANGED <<target, tables, block, proto, loaded, walked, answers>>

\* Bounds: what says one expression is not extended; statements that were not
\* read from a source, scopes and functions come to a builder without items.
Building ==
    /\ stage = "building" /\ Len(builder.items) < MaxItems
    /\ given # None => given.tree = None
Fresh == Building /\ builder.items = << >>

Code ==
    /\ Building
    /\ \E input \in Allowed :
          /\ Continue(code_with_params(builder, Grammar, input.source, input.params, input.keys))
          /\ given' = IF builder = Empty THEN input ELSE given

\* The macros read their source when the program is compiled.
Macro ==
    /\ Building
    /\ \E input \in LaterInputs :
          Continue(macro(builder, Grammar, input.source, input.params, input.keys))
    /\ UNCHANGED given

Add ==
    /\ Fresh
    /\ \E single \in Singles :
          /\ single[1] = "policy" => target = "authorizer"
          /\ Continue(add(builder, single[1], single[2]))
    /\ UNCHANGED given

Extend ==
    /\ Fresh
    /\ \E extension \in Extensions :
          /\ extension[1] = "time" => target = "authorizer"
          /\ Continue(Taken(extend(builder, extension[1], extension[2])))
    /\ UNCHANGED given

Scope ==
    /\ Fresh /\ builder.scopes = << >>
    /\ \E sc \in BlockScopes : Continue(Taken(scope_with(builder, sc)))
    /\ UNCHANGED given

\* Bound: one function at most is given at once.
Functions1 == {Empty.externs} \cup {pair[1] :> pair[2] : pair \in Registered}

\* merge, and merge_block when the other one is the builder of a block, which
\* has no functions. Bound: the other one has scopes or functions, and only for
\* a builder without items.
Merge ==
    /\ Building
    /\ \E input \in LaterInputs :
       \E other \in {code_with_params(Empty, Grammar, input.source, input.params, input.keys)},
          functions \in Functions1, lost \in {<< >>} \cup {<<sc>> : sc \in BlockScopes} :
             /\ target # "authorizer" => functions = Empty.externs
             /\ lost = << >> \/ functions = Empty.externs
             /\ Fresh \/ (lost = << >> /\ functions = Empty.externs)
             /\ other.error = ""
             /\ Continue(Taken(merge(builder,
                    [other.builder EXCEPT !.externs = functions, !.scopes = lost])))
    /\ UNCHANGED given

\* register_extern_func and register_extern_funcs, or set_extern_funcs, which
\* replaces all. The functions do not matter before the last step.
RegisterExternFunc ==
    /\ Fresh /\ target = "authorizer" /\ builder.scopes = << >>
    /\ \E pair \in Registered :
          /\ DOMAIN builder.externs \subseteq {pair[1]}
          /\ Continue(Taken([builder EXCEPT !.externs = (pair[1] :> pair[2]) @@ @]))
    /\ UNCHANGED given
SetExternFuncs ==
    /\ Fresh /\ target = "authorizer" /\ builder.scopes = << >>
    /\ \E functions \in Functions1 : Continue(Taken([builder EXCEPT !.externs = functions]))
    /\ UNCHANGED given
------------------------------------------------------------------------------
Next ==
    \/ Code \/ Macro \/ Add \/ Extend \/ Scope \/ Merge \/ RegisterExternFunc \/ SetExternFuncs
    \/ Travel /\ UNCHANGED <<given, walked, answers>>
    \/ RunOnce /\ UNCHANGED given

Spec == Init /\ [][Next]_vars
==============================================================================
