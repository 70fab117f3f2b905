-------------------------------- MODULE CApi ---------------------------------
(* The C API of biscuit-capi/src/lib.rs: the objects that a program holds by   *)
(* pointer, the error slot of each of its threads, and the calls that stop the *)
(* process because a panic cannot leave an extern "C" function.                *)
(*                                                                             *)
(* A program passes pointers to live objects of the right kind, or null; what  *)
(* it reads through a dangling pointer is not defined by this code. Keys and   *)
(* strings are boxes as well, but nothing changes them once they are returned: *)
(* they are values here. Statements are known by what authorize finds of them: *)
(* whether a check or a policy holds, and whether a rule fails to evaluate.    *)
EXTENDS Naturals, FiniteSets, SequencesExt

CONSTANTS
    Threads,
    Handles,        \* the addresses of builders, tokens and authorizers
    Statements,     \* what the program may add to a builder
    Contexts,       \* the contexts it may set
    Keys,           \* key pairs, by name
    Secp256r1,      \* those of them that are on the curve P-256
    Received,       \* the tokens that others may have sent as bytes
    MaxIndex,       \* the largest block index that is asked for
    MaxSpent,       \* bounds the calls that fail, return a box or add a statement
    MaxBlocks,      \* bounds the blocks of a token
    None,           \* no context, no token
    NoId,           \* u64::MAX
    TheAuthorizer   \* the owner of an authorizer's own checks

StatementKinds == {"fact", "rule", "check", "allow", "deny"}
Statement == [kind: StatementKinds, holds: BOOLEAN]
Content == [statements: Seq(Statement), context: Contexts \cup {None}]

\* loads is false for a block that no authorizer accepts.
Token == [root: Keys, blocks: Seq(Content), sealed: BOOLEAN, loads: BOOLEAN]

ASSUME StatementsAssumption == Statements \subseteq Statement
ASSUME ReceivedAssumption == Received \subseteq Token
ASSUME KeysAssumption == Secp256r1 \subseteq Keys
ASSUME NoneAssumption == None \notin Contexts
ASSUME OwnerAssumption == TheAuthorizer \notin Nat
ASSUME BoundsAssumption == {MaxIndex, MaxSpent, MaxBlocks} \subseteq Nat

-----------------------------------------------------------------------------
(* Errors.                                                                     *)

\* A failed check: check_id within its block, or within the authorizer.
FailedCheck == [owner: Nat \cup {TheAuthorizer}, check_id: Nat]

\* LAST_ERROR and the kinds error_kind distinguishes of it.
Error == [kind: {"none", "invalid_argument", "language", "invalid_block_id",
                 "block_deserialization", "already_sealed", "execution",
                 "unauthorized", "no_matching_policy"},
          checks: Seq(FailedCheck)]
Plain(kind) == [kind |-> kind, checks |-> << >>]
NoError == Plain("none")
InvalidArgument == Plain("invalid_argument")

\* A failed call that leaves no error of its own.
Silent == Plain("silent")

-----------------------------------------------------------------------------
(* Objects.                                                                    *)

BuilderKinds == {"biscuit_builder", "block_builder", "authorizer_builder"}

\* The Option of a builder whose content was taken and not put back.
Taken == [kind |-> "taken"]
Refused == [kind |-> "refused"]
Empty == [statements |-> << >>, context |-> None]

Free == [kind |-> "free"]
Builder(kind, inner) == [kind |-> kind, inner |-> inner]
Biscuit(token) == [kind |-> "biscuit", token |-> token]
Authorizer(token, content) ==
    [kind |-> "authorizer", token |-> token, content |-> content]

\* What each builder takes.
Accepts(kind) ==
    {s \in Statements : kind = "authorizer_builder" \/ s.kind \notin {"allow", "deny"}}

VARIABLES
    heap,       \* the object at each address
    lastError,  \* LAST_ERROR of each thread
    aborted,    \* whether the process was stopped, and by which misstep

    cause,      \* what the last call that failed on each thread failed with
    asked,      \* what the program passed to the builder at each address
    judged,     \* the authorizer whose refusal the thread's error reports
    spent       \* the calls that failed, returned a box or added a statement

code == <<heap, lastError, aborted>>
history == <<cause, asked, judged, spent>>
vars == <<code, history>>

Live(kind) == {h \in Handles : heap[h].kind = kind}
Builders == {h \in Handles : heap[h].kind \in BuilderKinds}
Vacant == Live("free")

\* Mutant of update_last_error: the slot is shared by the threads.
update_any_error(t, e) == [u \in Threads |-> e]

\* The slot is a thread_local; only a failure writes it, nothing clears it.
update_last_error(t, e) == [lastError EXCEPT ![t] = e]

Spend == spent < MaxSpent /\ spent' = spent + 1

Fail(t, e) ==
    /\ Spend
    /\ lastError' = update_last_error(t, e)
    /\ cause' = [cause EXCEPT ![t] = e]
    /\ judged' = [judged EXCEPT ![t] = None]

\* `.ok()` without update_last_error.
FailSilently(t) ==
    /\ Spend
    /\ cause' = [cause EXCEPT ![t] = Silent]
    /\ UNCHANGED <<lastError, judged>>

Succeed == UNCHANGED <<lastError, cause, judged, spent>>

Abort(misstep) ==
    /\ aborted' = misstep
    /\ UNCHANGED <<heap, lastError, history>>

\* A Box is returned to the program.
Return(object) ==
    /\ Spend
    /\ UNCHANGED <<lastError, cause, judged>>
    /\ \E h \in Vacant :
          /\ heap' = [heap EXCEPT ![h] = object]
          /\ asked' = [asked EXCEPT ![h] = << >>]

Same == UNCHANGED <<heap, asked>>
Running == aborted = "no"

Init ==
    /\ heap = [h \in Handles |-> Free]
    /\ lastError = [t \in Threads |-> NoError]
    /\ aborted = "no"
    /\ cause = [t \in Threads |-> NoError]
    /\ asked = [h \in Handles |-> << >>]
    /\ judged = [t \in Threads |-> None]
    /\ spent = 0

-----------------------------------------------------------------------------
(* Arguments.                                                                  *)

\* A null pointer where a function tests for it: nothing else is done.
NullArgument(t) ==
    /\ Running
    /\ Fail(t, InvalidArgument)
    /\ Same
    /\ UNCHANGED aborted

\* The two functions that build an authorizer go on to unwrap the null pointer.
NullAuthorizerBuilder ==
    /\ Running
    /\ Abort("null_builder")

\* A seed, a key or a PEM document that cannot be read, or a string that is not
\* UTF-8 for a builder.
NotReadable(t) ==
    /\ Running
    /\ Fail(t, InvalidArgument)
    /\ Same
    /\ UNCHANGED aborted

-----------------------------------------------------------------------------
(* Keys.                                                                       *)

\* A P-256 key takes 33 bytes, which are copied in a slice of 32.
public_key_serialize ==
    /\ Running
    /\ \E k \in Keys : k \in Secp256r1
    /\ Abort("secp256r1_buffer")

-----------------------------------------------------------------------------
(* Builders.                                                                   *)

\* biscuit_builder, create_block, authorizer_builder
CreateBuilder ==
    /\ Running
    /\ \E kind \in BuilderKinds : Return(Builder(kind, Empty))
    /\ UNCHANGED aborted

\* Mutant of WithContext: the content is not put back.
WithoutContent(builder, c) == [builder EXCEPT !.inner = Taken]

\* What set_context leaves in the builder.
WithContext(builder, c) == [builder EXCEPT !.inner.context = c]

\* biscuit_builder_set_context, block_builder_set_context
SetContext ==
    /\ Running
    /\ \E h \in Live("biscuit_builder") \cup Live("block_builder"), c \in Contexts :
          \/ /\ heap[h].inner = Taken
             /\ Abort("taken")
          \/ /\ heap[h].inner # Taken
             /\ heap' = [heap EXCEPT ![h] = WithContext(@, c)]
             /\ Succeed
             /\ UNCHANGED <<aborted, asked>>

\* The root key id is read by nothing here.
biscuit_builder_set_root_key_id ==
    /\ Running
    /\ \E h \in Live("biscuit_builder") : heap[h].inner = Taken
    /\ Abort("taken")

\* *_add_fact, *_add_rule, *_add_check, *_add_policy
Add(h, s) ==
    /\ Running
    /\ heap[h].inner # Taken
    /\ s \in Accepts(heap[h].kind)
    /\ heap' = [heap EXCEPT ![h].inner.statements = Append(@, s)]
    /\ asked' = [asked EXCEPT ![h] = Append(@, s)]
    /\ Spend
    /\ UNCHANGED <<lastError, aborted, cause, judged>>

\* Mutant of AfterRefusal: the builder itself is taken.
TakenAltogether(builder) == Taken

\* Mutant of AfterRefusal: the content is put back.
ContentKept(builder) == builder

\* `self.0.take().unwrap()` has taken the content when `?` returns.
AfterRefusal(builder) == [builder EXCEPT !.inner = Taken]

\* The same functions for a text that is not a statement.
AddRefused(t, h) ==
    /\ Running
    /\ heap[h].inner # Taken
    /\ heap' = [heap EXCEPT ![h] = AfterRefusal(@)]
    /\ asked' = [asked EXCEPT ![h] = Append(@, Refused)]
    /\ Fail(t, Plain("language"))
    /\ UNCHANGED aborted

AddToTaken(h) ==
    /\ Running
    /\ heap[h].inner = Taken
    /\ Abort("taken")

-----------------------------------------------------------------------------
(* Tokens.                                                                     *)

\* The seed is tested before the builder is opened, and nothing is reported. The
\* builder stays with the program.
biscuit_builder_build(t, b, k) ==
    /\ Running
    /\ \/ /\ FailSilently(t)
          /\ Same
          /\ UNCHANGED aborted
       \/ /\ heap[b].inner = Taken
          /\ Abort("taken")
       \/ /\ heap[b].inner # Taken
          /\ Return(Biscuit([root |-> k, blocks |-> <<heap[b].inner>>,
                             sealed |-> FALSE, loads |-> TRUE]))
          /\ UNCHANGED aborted

\* Biscuit::from on bytes that were received, or on bytes that are no token.
biscuit_from(t, k) ==
    /\ Running
    /\ \/ \E token \in Received :
             /\ token.root = k
             /\ Return(Biscuit(token))
       \/ /\ FailSilently(t)
          /\ Same
    /\ UNCHANGED aborted

\* The builder is opened first, the proof of the token afterwards.
biscuit_append_block(t, b, bb) ==
    /\ Running
    /\ \/ /\ heap[bb].inner = Taken
          /\ Abort("taken")
       \/ /\ heap[bb].inner # Taken
          /\ heap[b].token.sealed
          /\ Fail(t, Plain("already_sealed"))
          /\ Same
          /\ UNCHANGED aborted
       \/ /\ heap[bb].inner # Taken
          /\ ~heap[b].token.sealed
          /\ Len(heap[b].token.blocks) < MaxBlocks
          /\ Return(Biscuit([heap[b].token EXCEPT !.blocks = Append(@, heap[bb].inner)]))
          /\ UNCHANGED aborted

\* The proof of a token takes 32 bytes, that of a sealed one at least 64.
serialized_size(token) ==
    [blocks |-> token.blocks, proof |-> IF token.sealed THEN "signature" ELSE "secret"]

\* The sealed bytes are copied in a slice as long as those of the token itself.
biscuit_serialize_sealed(t, b) ==
    /\ Running
    /\ \/ /\ heap[b].token.sealed
          /\ Fail(t, Plain("already_sealed"))
          /\ Same
          /\ UNCHANGED aborted
       \/ /\ ~heap[b].token.sealed
          /\ serialized_size([heap[b].token EXCEPT !.sealed = TRUE])
                # serialized_size(heap[b].token)
          /\ Abort("sealed_buffer")

\* A block without a context yields null, which is no error.
biscuit_block_context(t, b, i) ==
    /\ Running
    /\ \/ /\ i >= Len(heap[b].token.blocks)
          /\ Fail(t, Plain("invalid_block_id"))
          /\ Same
       \/ /\ i < Len(heap[b].token.blocks)
          /\ Succeed
          /\ Same
    /\ UNCHANGED aborted

\* Biscuit::block refuses an index only from block_count() + 1 on.
biscuit_print_block_source(t, b, i) ==
    /\ Running
    /\ \/ /\ i > Len(heap[b].token.blocks)
          /\ Fail(t, Plain("block_deserialization"))
          /\ Same
          /\ UNCHANGED aborted
       \/ /\ i = Len(heap[b].token.blocks)
          /\ Abort("block_index")
       \/ /\ i < Len(heap[b].token.blocks)
          /\ Succeed
          /\ Same
          /\ UNCHANGED aborted

-----------------------------------------------------------------------------
(* Authorizers.                                                                *)

biscuit_authorizer(t, b) ==
    /\ Running
    /\ \/ /\ heap[b].token.loads
          /\ Return(Authorizer(heap[b].token, Empty))
       \/ /\ ~heap[b].token.loads
          /\ FailSilently(t)
          /\ Same
    /\ UNCHANGED aborted

\* authorizer_builder_build for a token, and _unauthenticated for None. The
\* builder is passed as a Box: it is dropped whatever the call returns.
authorizer_builder_build(t, h, token) ==
    /\ Running
    /\ \/ /\ heap[h].inner = Taken
          /\ Abort("taken")
       \/ /\ heap[h].inner # Taken
          /\ token # None => token.loads
          /\ \E a \in Vacant :
                /\ heap' = [g \in Handles |->
                               CASE g = a -> Authorizer(token, heap[h].inner)
                                 [] g = h -> Free
                                 [] OTHER -> heap[g]]
                /\ asked' = [asked EXCEPT ![h] = << >>]
          /\ Spend
          /\ UNCHANGED <<lastError, cause, judged>>
          /\ UNCHANGED aborted
       \/ /\ heap[h].inner # Taken
          /\ token # None
          /\ ~token.loads
          /\ heap' = [heap EXCEPT ![h] = Free]
          /\ asked' = [asked EXCEPT ![h] = << >>]
          /\ FailSilently(t)
          /\ UNCHANGED aborted

Blocks(authorizer) ==
    IF authorizer.token = None THEN << >> ELSE authorizer.token.blocks

ChecksOf(content) ==
    FlattenSeq([i \in DOMAIN content.statements |->
                   IF content.statements[i].kind = "check"
                   THEN <<content.statements[i]>> ELSE << >>])

\* The checks of a block, or of the authorizer, that do not hold, by their
\* position among its checks.
FailedChecks(owner, content) ==
    FlattenSeq([i \in DOMAIN ChecksOf(content) |->
                   IF ChecksOf(content)[i].holds
                   THEN << >> ELSE <<[owner |-> owner, check_id |-> i - 1]>>])

\* In the order in which authorize evaluates them.
AllFailedChecks(authorizer) ==
    FailedChecks(TheAuthorizer, authorizer.content)
        \o FlattenSeq([b \in DOMAIN Blocks(authorizer) |->
                          FailedChecks(b - 1, Blocks(authorizer)[b])])

Policies(authorizer) ==
    SelectSeq(authorizer.content.statements, LAMBDA s : s.kind \in {"allow", "deny"} /\ s.holds)

FailsToEvaluate(authorizer) ==
    \E content \in {authorizer.content}
                   \cup {Blocks(authorizer)[i] : i \in DOMAIN Blocks(authorizer)} :
      \E i \in DOMAIN content.statements :
          content.statements[i] = [kind |-> "rule", holds |-> FALSE]

\* Authorizer::authorize, as an Error.
Verdict(authorizer) ==
    CASE FailsToEvaluate(authorizer) -> Plain("execution")
      [] ~FailsToEvaluate(authorizer) /\ Policies(authorizer) = << >> ->
            [kind |-> "no_matching_policy", checks |-> AllFailedChecks(authorizer)]
      [] ~FailsToEvaluate(authorizer) /\ Policies(authorizer) # << >>
            /\ (AllFailedChecks(authorizer) # << >> \/ Policies(authorizer)[1].kind = "deny") ->
            [kind |-> "unauthorized", checks |-> AllFailedChecks(authorizer)]
      [] OTHER -> NoError

authorizer_authorize(t, a) ==
    /\ Running
    /\ \/ /\ Verdict(heap[a]) = NoError
          /\ Succeed
       \/ /\ Verdict(heap[a]) # NoError
          /\ lastError' = update_last_error(t, Verdict(heap[a]))
          /\ cause' = [cause EXCEPT ![t] = Verdict(heap[a])]
          /\ Spend
          /\ judged' = [judged EXCEPT ![t] =
                           IF FailsToEvaluate(heap[a]) THEN None ELSE heap[a]]
    /\ Same
    /\ UNCHANGED aborted

-----------------------------------------------------------------------------
(* Reading the error of a thread.                                              *)

Checks(t) == lastError[t].checks

error_check_count(t) == Len(Checks(t))
error_check_id(t, i) ==
    IF i >= Len(Checks(t)) THEN NoId ELSE Checks(t)[i + 1].check_id

\* Mutant of error_check_is_authorizer: told from the position in the list.
first_is_authorizer(t, i) == i < Len(Checks(t)) /\ i = 0

error_check_is_authorizer(t, i) ==
    i < Len(Checks(t)) /\ Checks(t)[i + 1].owner = TheAuthorizer
error_check_block_id(t, i) ==
    IF i >= Len(Checks(t)) \/ error_check_is_authorizer(t, i)
    THEN NoId ELSE Checks(t)[i + 1].owner

-----------------------------------------------------------------------------
\* *_free
Release(h) ==
    /\ Running
    /\ heap' = [heap EXCEPT ![h] = Free]
    /\ asked' = [asked EXCEPT ![h] = << >>]
    /\ Succeed
    /\ UNCHANGED aborted

TokenCall(t) ==
    \/ \E k \in Keys :
          \/ biscuit_from(t, k)
          \/ \E b \in Live("biscuit_builder") : biscuit_builder_build(t, b, k)
    \/ \E b \in Live("biscuit"), bb \in Live("block_builder") :
          biscuit_append_block(t, b, bb)
    \/ \E b \in Live("biscuit") :
          \/ biscuit_serialize_sealed(t, b)
          \/ \E i \in 0..MaxIndex :
                biscuit_block_context(t, b, i) \/ biscuit_print_block_source(t, b, i)

AuthorizerCall(t) ==
    \/ \E b \in Live("biscuit") : biscuit_authorizer(t, b)
    \/ \E h \in Live("authorizer_builder"),
         token \in {None} \cup {heap[b].token : b \in Live("biscuit")} :
          authorizer_builder_build(t, h, token)
    \/ \E a \in Live("authorizer") : authorizer_authorize(t, a)

Next ==
    \/ public_key_serialize \/ CreateBuilder \/ SetContext
    \/ biscuit_builder_set_root_key_id \/ NullAuthorizerBuilder
    \/ \E h \in Builders : AddToTaken(h) \/ \E s \in Statements : Add(h, s)
    \/ \E h \in Handles \ Vacant : Release(h)
    \/ \E t \in Threads :
          \/ NullArgument(t) \/ NotReadable(t)
          \/ \E h \in Builders : AddRefused(t, h)
          \/ TokenCall(t)
          \/ AuthorizerCall(t)

Spec == Init /\ [][Next]_vars

-----------------------------------------------------------------------------
(* Properties.                                                                 *)

Context == Contexts \cup {None}
AuthorizerObject == [kind: {"authorizer"}, token: Token \cup {None}, content: Content]
Object ==
    {Free}
        \cup [kind: BuilderKinds, inner: Content \cup {Taken}]
        \cup [kind: {"biscuit"}, token: Token]
        \cup AuthorizerObject

Missteps == {"no", "taken", "null_builder", "secp256r1_buffer", "sealed_buffer",
             "block_index"}

HeapOK ==
    /\ heap \in [Handles -> Object]
    /\ asked \in [Handles -> Seq(Statements \cup {Refused})]
    /\ aborted \in Missteps

ErrorsOK ==
    /\ lastError \in [Threads -> Error]
    /\ cause \in [Threads -> Error \cup {Silent}]
    /\ judged \in [Threads -> AuthorizerObject \cup {None}]

\* Every variable holds a value of its type, and every address an object: a
\* builder stays a builder of its kind when a statement is refused.
TypeOK == HeapOK /\ ErrorsOK /\ spent \in Nat

\* What a thread reads as its error is what the last call that failed on that
\* thread failed with, whatever other threads do, unless that call is one of the
\* four that report nothing: then an older error is still there.
ErrorIsOfTheLastFailure ==
    \A t \in Threads : cause[t] # Silent => lastError[t] = cause[t]

\* A refused statement leaves a builder with nothing, and only that does: a
\* program stopped by an empty builder had a statement refused by it.
OnlyRefusalsEmptyBuilders ==
    /\ \A h \in Builders :
          heap[h].inner = Taken <=> \E i \in DOMAIN asked[h] : asked[h][i] = Refused
    /\ aborted = "taken" =>
          \E h \in Builders : \E i \in DOMAIN asked[h] : asked[h][i] = Refused

\* The statements a new token or authorizer adds are all those the program
\* passed to one builder, in order: nothing that was refused is left out of a
\* token silently, and building does not disturb the builder.
BuiltFromAllThatWasAsked ==
    [][\A h \in Handles :
          /\ heap[h] = Free
          /\ heap'[h].kind \in {"biscuit", "authorizer"}
          => LET added == IF heap'[h].kind = "authorizer"
                          THEN heap'[h].content.statements
                          ELSE heap'[h].token.blocks[Len(heap'[h].token.blocks)].statements
             IN  \/ \E b \in Builders : added = asked[b]
                 \/ heap'[h].kind = "authorizer" /\ added = << >>
                 \/ heap'[h].kind = "biscuit" /\ heap'[h].token \in Received]_vars

\* The checks that fail in an authorizer, numbered among the checks of their
\* owner: a definition that does not follow the order of evaluation.
FailingIn(owner, content) ==
    {<<owner, Cardinality({j \in 1..(i - 1) : content.statements[j].kind = "check"})>> :
        i \in {k \in DOMAIN content.statements :
                  content.statements[k] = [kind |-> "check", holds |-> FALSE]}}
Failing(authorizer) ==
    FailingIn(TheAuthorizer, authorizer.content)
        \cup UNION {FailingIn(b - 1, Blocks(authorizer)[b]) : b \in DOMAIN Blocks(authorizer)}

\* The accessors of a refusal name each check that failed in the authorizer that
\* was judged, once, also when this authorizer has been freed and other calls
\* have succeeded since; past the end they name none.
AccessorsNameTheFailedChecks ==
    \A t \in Threads : judged[t] # None =>
        LET named(i) == <<IF error_check_is_authorizer(t, i) THEN TheAuthorizer
                          ELSE error_check_block_id(t, i), error_check_id(t, i)>>
            indices  == 0..(error_check_count(t) - 1)
        IN  /\ {named(i) : i \in indices} = Failing(judged[t])
            /\ Cardinality(Failing(judged[t])) = error_check_count(t)
            /\ named(error_check_count(t)) = <<NoId, NoId>>
==============================================================================
