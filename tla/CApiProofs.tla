----------------------------- MODULE CApiProofs ------------------------------
(* Theorems about the C API for every number of threads and of objects: what a *)
(* thread reads as its error, and that tokens are built from all that was      *)
(* asked for.                                                                  *)
EXTENDS CApi, SequenceFacts, FiniteSetTheorems

-----------------------------------------------------------------------------
(* Objects.                                                                    *)

LEMMA ContentIsNotTaken ==
    /\ Empty \in Content
    /\ \A c \in Content : c # Taken
<1>1. Empty \in Content
  BY DEF Empty, Content, Statement
<1>2. \A c \in Content : c # Taken
  BY DEF Content, Taken
<1> QED BY <1>1, <1>2

LEMMA RefusedIsNoStatement == Refused \notin Statements
BY StatementsAssumption DEF Statement, StatementKinds, Refused

\* What each kind of object holds.
LEMMA ObjectOfKind ==
    ASSUME NEW o \in Object
    PROVE  /\ o.kind \in BuilderKinds =>
                /\ o = [kind |-> o.kind, inner |-> o.inner]
                /\ o.inner \in Content \cup {Taken}
           /\ o.kind = "biscuit" => o.token \in Token
           /\ o.kind = "free" => o = Free
           /\ o.kind = "authorizer" => o \in AuthorizerObject
BY DEF Object, BuilderKinds, AuthorizerObject, Free

LEMMA BuilderIsObject ==
    ASSUME NEW kind \in BuilderKinds, NEW inner \in Content \cup {Taken}
    PROVE  Builder(kind, inner) \in Object
BY DEF Builder, Object

LEMMA StatementsAppend ==
    ASSUME NEW inner \in Content, NEW s \in Statements
    PROVE  [inner EXCEPT !.statements = Append(@, s)] \in Content
<1>1. inner.statements \in Seq(Statement) /\ s \in Statement
  BY StatementsAssumption DEF Content
<1>2. Append(inner.statements, s) \in Seq(Statement)
  BY <1>1
<1> QED BY <1>2 DEF Content

\* What each edit of a builder changes of its content.
LEMMA EditsOfBuilder ==
    ASSUME NEW o, NEW c, NEW s, o = Builder(o.kind, o.inner)
    PROVE  /\ WithContext(o, c) = Builder(o.kind, [o.inner EXCEPT !.context = c])
           /\ AfterRefusal(o) = Builder(o.kind, Taken)
           /\ [o EXCEPT !.inner.statements = Append(@, s)]
                 = Builder(o.kind, [o.inner EXCEPT !.statements = Append(@, s)])
           /\ WithContext(o, c).kind = o.kind
           /\ AfterRefusal(o).kind = o.kind
<1> DEFINE inner == o.inner
           kind == o.kind
<1>1. o = [kind |-> kind, inner |-> inner]
  BY DEF Builder
<1> HIDE DEF inner, kind
<1> QED BY <1>1 DEF WithContext, AfterRefusal, Builder

-----------------------------------------------------------------------------
(* What a call does to the heap, whichever function it is.                     *)

ATakenBuilder == \E h \in Builders : heap[h].inner = Taken

Still == UNCHANGED <<heap, asked, aborted>>

Stops ==
    /\ UNCHANGED <<heap, asked>>
    /\ aborted' \in Missteps
    /\ aborted' = "taken" => ATakenBuilder

\* The boxes that a call may return.
NewObject(object) ==
    \/ \E kind \in BuilderKinds : object = Builder(kind, Empty)
    \/ \E token \in Token :
          /\ object = Biscuit(token)
          /\ \/ token \in Received
             \/ \E b \in Builders :
                   /\ heap[b].inner # Taken
                   /\ token.blocks[Len(token.blocks)] = heap[b].inner
    \/ \E token \in Token : object = Authorizer(token, Empty)

Returns(object) ==
    /\ NewObject(object)
    /\ Return(object)
    /\ UNCHANGED aborted

Edits ==
    /\ \E h \in Builders, c \in Contexts :
          /\ heap[h].inner # Taken
          /\ heap' = [heap EXCEPT ![h] = WithContext(@, c)]
    /\ UNCHANGED <<asked, aborted>>

HeapStep ==
    \/ Still
    \/ Stops
    \/ \E object : Returns(object)
    \/ Edits
    \/ \E h \in Builders, s \in Statements : Add(h, s)
    \/ \E t \in Threads, h \in Builders : AddRefused(t, h)
    \/ \E t \in Threads, h \in Live("authorizer_builder"), token \in Token \cup {None} :
          authorizer_builder_build(t, h, token)
    \/ \E h \in Handles \ Vacant : Release(h)

LEMMA LiveBiscuit ==
    ASSUME HeapOK, NEW b \in Live("biscuit")
    PROVE  heap[b].token \in Token
<1>1. b \in Handles /\ heap[b] \in Object /\ heap[b].kind = "biscuit"
  BY DEF Live, HeapOK
<1> QED BY <1>1, ObjectOfKind

LEMMA LiveBuilder ==
    ASSUME HeapOK, NEW b \in Builders
    PROVE  /\ b \in Handles
           /\ heap[b].kind \in BuilderKinds
           /\ heap[b] = Builder(heap[b].kind, heap[b].inner)
           /\ heap[b].inner \in Content \cup {Taken}
           /\ heap[b].inner # Taken => heap[b].inner \in Content
<1>1. b \in Handles /\ heap[b] \in Object /\ heap[b].kind \in BuilderKinds
  BY DEF Builders, HeapOK
<1> QED BY <1>1, ObjectOfKind DEF Builder

LEMMA SomeBuilders ==
    /\ Live("biscuit_builder") \subseteq Builders
    /\ Live("block_builder") \subseteq Builders
    /\ Live("authorizer_builder") \subseteq Builders
BY DEF Live, Builders, BuilderKinds

LEMMA MoreBlocks ==
    ASSUME NEW token \in Token, NEW blocks \in Seq(Content)
    PROVE  [token EXCEPT !.blocks = blocks] \in Token
BY DEF Token

LEMMA TokenCallIsHeapStep ==
    ASSUME HeapOK, NEW t \in Threads, TokenCall(t)
    PROVE  HeapStep
<1>1. CASE \E k \in Keys : biscuit_from(t, k)
  <2>1. PICK k \in Keys : biscuit_from(t, k)
    BY <1>1
  <2>2. CASE Same /\ UNCHANGED aborted
    BY <2>2 DEF Same, HeapStep, Still
  <2>3. CASE \E token \in Received : Return(Biscuit(token)) /\ UNCHANGED aborted
    <3>1. PICK token \in Received : Return(Biscuit(token)) /\ UNCHANGED aborted
      BY <2>3
    <3>2. NewObject(Biscuit(token))
      BY ReceivedAssumption DEF NewObject
    <3> QED BY <3>1, <3>2 DEF HeapStep, Returns
  <2> QED BY <2>1, <2>2, <2>3 DEF biscuit_from
<1>2. CASE \E k \in Keys, b \in Live("biscuit_builder") : biscuit_builder_build(t, b, k)
  <2>1. PICK k \in Keys, b \in Live("biscuit_builder") : biscuit_builder_build(t, b, k)
    BY <1>2
  <2>2. CASE Same /\ UNCHANGED aborted
    BY <2>2 DEF Same, HeapStep, Still
  <2>3. CASE heap[b].inner = Taken /\ Abort("taken")
    BY <2>1, <2>3, SomeBuilders DEF Abort, history, HeapStep, Stops, ATakenBuilder, Missteps
  <2>4. CASE /\ heap[b].inner # Taken
             /\ Return(Biscuit([root |-> k, blocks |-> <<heap[b].inner>>,
                                sealed |-> FALSE, loads |-> TRUE]))
             /\ UNCHANGED aborted
    <3> DEFINE token == [root |-> k, blocks |-> <<heap[b].inner>>,
                         sealed |-> FALSE, loads |-> TRUE]
    <3>1. b \in Builders /\ heap[b].inner \in Content
      BY <2>1, <2>4, SomeBuilders, LiveBuilder
    <3>2. token \in Token
      BY <3>1 DEF Token
    <3>3. token.blocks[Len(token.blocks)] = heap[b].inner
      OBVIOUS
    <3>4. NewObject(Biscuit(token))
      BY <2>4, <3>1, <3>2, <3>3 DEF NewObject
    <3> QED BY <2>4, <3>4 DEF HeapStep, Returns
  <2> QED BY <2>1, <2>2, <2>3, <2>4 DEF biscuit_builder_build
<1>3. CASE \E b \in Live("biscuit"), bb \in Live("block_builder") :
              biscuit_append_block(t, b, bb)
  <2>1. PICK b \in Live("biscuit"), bb \in Live("block_builder") :
                biscuit_append_block(t, b, bb)
    BY <1>3
  <2>2. CASE Same /\ UNCHANGED aborted
    BY <2>2 DEF Same, HeapStep, Still
  <2>3. CASE heap[bb].inner = Taken /\ Abort("taken")
    BY <2>1, <2>3, SomeBuilders DEF Abort, history, HeapStep, Stops, ATakenBuilder, Missteps
  <2>4. CASE /\ heap[bb].inner # Taken
             /\ Return(Biscuit([heap[b].token EXCEPT !.blocks = Append(@, heap[bb].inner)]))
             /\ UNCHANGED aborted
    <3> DEFINE token == [heap[b].token EXCEPT !.blocks = Append(@, heap[bb].inner)]
    <3>1. bb \in Builders /\ heap[bb].inner \in Content
      BY <2>1, <2>4, SomeBuilders, LiveBuilder
    <3>2. heap[b].token \in Token
      BY <2>1, LiveBiscuit
    <3>3. heap[b].token.blocks \in Seq(Content)
      BY <3>2 DEF Token
    <3>4. token.blocks = Append(heap[b].token.blocks, heap[bb].inner)
      BY <3>2 DEF Token
    <3>5. token \in Token
      <4>1. Append(heap[b].token.blocks, heap[bb].inner) \in Seq(Content)
        BY <3>1, <3>3, AppendProperties
      <4> QED BY <3>2, <4>1, MoreBlocks
    <3>6. token.blocks[Len(token.blocks)] = heap[bb].inner
      BY <3>1, <3>3, <3>4
    <3>7. NewObject(Biscuit(token))
      BY <2>4, <3>1, <3>5, <3>6 DEF NewObject
    <3> QED BY <2>4, <3>7 DEF HeapStep, Returns
  <2> QED BY <2>1, <2>2, <2>3, <2>4 DEF biscuit_append_block
<1>4. CASE \E b \in Live("biscuit") : biscuit_serialize_sealed(t, b)
  BY <1>4 DEF biscuit_serialize_sealed, Same, Abort, history, HeapStep, Still, Stops, Missteps
<1>5. CASE \E b \in Live("biscuit"), i \in 0..MaxIndex : biscuit_block_context(t, b, i)
  BY <1>5 DEF biscuit_block_context, Same, HeapStep, Still
<1>6. CASE \E b \in Live("biscuit"), i \in 0..MaxIndex : biscuit_print_block_source(t, b, i)
  BY <1>6 DEF biscuit_print_block_source, Same, Abort, history, HeapStep, Still, Stops, Missteps
<1> QED BY <1>1, <1>2, <1>3, <1>4, <1>5, <1>6 DEF TokenCall

LEMMA AuthorizerCallIsHeapStep ==
    ASSUME HeapOK, NEW t \in Threads, AuthorizerCall(t)
    PROVE  HeapStep
<1>1. CASE \E b \in Live("biscuit") : biscuit_authorizer(t, b)
  <2>1. PICK b \in Live("biscuit") : biscuit_authorizer(t, b)
    BY <1>1
  <2>2. CASE Same /\ UNCHANGED aborted
    BY <2>2 DEF Same, HeapStep, Still
  <2>3. CASE Return(Authorizer(heap[b].token, Empty)) /\ UNCHANGED aborted
    <3>1. NewObject(Authorizer(heap[b].token, Empty))
      BY <2>1, LiveBiscuit DEF NewObject
    <3> QED BY <2>3, <3>1 DEF HeapStep, Returns
  <2> QED BY <2>1, <2>2, <2>3 DEF biscuit_authorizer
<1>2. CASE \E h \in Live("authorizer_builder"),
              token \in {None} \cup {heap[b].token : b \in Live("biscuit")} :
                 authorizer_builder_build(t, h, token)
  BY <1>2, LiveBiscuit DEF HeapStep
<1>3. CASE \E a \in Live("authorizer") : authorizer_authorize(t, a)
  BY <1>3 DEF authorizer_authorize, Same, HeapStep, Still
<1> QED BY <1>1, <1>2, <1>3 DEF AuthorizerCall

\* Every call runs in a process that was not stopped.
LEMMA CallsRun ==
    ASSUME Next
    PROVE  Running
BY DEF Next, TokenCall, AuthorizerCall, public_key_serialize, CreateBuilder, SetContext,
       biscuit_builder_set_root_key_id, NullAuthorizerBuilder, AddToTaken, Add, Release,
       NullArgument, NotReadable, AddRefused, biscuit_from, biscuit_builder_build,
       biscuit_append_block, biscuit_serialize_sealed, biscuit_block_context,
       biscuit_print_block_source, biscuit_authorizer, authorizer_builder_build,
       authorizer_authorize

LEMMA NextIsHeapStep ==
    ASSUME HeapOK, Next
    PROVE  HeapStep
<1>1. CASE public_key_serialize \/ NullAuthorizerBuilder
  BY <1>1 DEF public_key_serialize, NullAuthorizerBuilder, Abort, history, HeapStep, Stops, Missteps
<1>2. CASE CreateBuilder
  <2>1. PICK kind \in BuilderKinds : Return(Builder(kind, Empty)) /\ UNCHANGED aborted
    BY <1>2 DEF CreateBuilder
  <2>2. NewObject(Builder(kind, Empty))
    BY DEF NewObject
  <2> QED BY <2>1, <2>2 DEF HeapStep, Returns
<1>3. CASE SetContext
  <2>1. PICK h \in Builders, c \in Contexts :
             \/ heap[h].inner = Taken /\ Abort("taken")
             \/ /\ heap[h].inner # Taken
                /\ heap' = [heap EXCEPT ![h] = WithContext(@, c)]
                /\ UNCHANGED <<aborted, asked>>
    BY <1>3, SomeBuilders DEF SetContext
  <2>2. CASE heap[h].inner = Taken /\ Abort("taken")
    BY <2>2 DEF Abort, history, HeapStep, Stops, ATakenBuilder, Missteps
  <2>3. CASE heap[h].inner # Taken
    BY <2>1, <2>3 DEF HeapStep, Edits
  <2> QED BY <2>1, <2>2, <2>3
<1>4. CASE biscuit_builder_set_root_key_id \/ \E h \in Builders : AddToTaken(h)
  BY <1>4, SomeBuilders DEF biscuit_builder_set_root_key_id, AddToTaken, Abort, history,
                            HeapStep, Stops, ATakenBuilder, Missteps
<1>5. CASE \E h \in Builders, s \in Statements : Add(h, s)
  BY <1>5 DEF HeapStep
<1>6. CASE \E h \in Handles \ Vacant : Release(h)
  BY <1>6 DEF HeapStep
<1>7. CASE \E t \in Threads : NullArgument(t) \/ NotReadable(t)
  BY <1>7 DEF NullArgument, NotReadable, Same, HeapStep, Still
<1>8. CASE \E t \in Threads, h \in Builders : AddRefused(t, h)
  BY <1>8 DEF HeapStep
<1>9. CASE \E t \in Threads : TokenCall(t) \/ AuthorizerCall(t)
  BY <1>9, TokenCallIsHeapStep, AuthorizerCallIsHeapStep
<1> QED BY <1>1, <1>2, <1>3, <1>4, <1>5, <1>6, <1>7, <1>8, <1>9 DEF Next

-----------------------------------------------------------------------------
(* Types.                                                                      *)

LEMMA ReturnedIsObject ==
    ASSUME HeapOK, NEW object, NewObject(object)
    PROVE  object \in Object /\ object.kind # "free"
<1>1. CASE \E kind \in BuilderKinds : object = Builder(kind, Empty)
  BY <1>1, ContentIsNotTaken, BuilderIsObject DEF Builder, BuilderKinds
<1>2. CASE \E token \in Token : object = Biscuit(token)
  BY <1>2 DEF Biscuit, Object
<1>3. CASE \E token \in Token : object = Authorizer(token, Empty)
  BY <1>3, ContentIsNotTaken DEF Authorizer, Object, AuthorizerObject
<1> QED BY <1>1, <1>2, <1>3 DEF NewObject

\* What building an authorizer leaves in the heap, when it does not abort.
LEMMA BuildForms ==
    ASSUME HeapOK, NEW t \in Threads, NEW h \in Live("authorizer_builder"),
           NEW token \in Token \cup {None}, authorizer_builder_build(t, h, token)
    PROVE  \/ /\ heap[h].inner = Taken
              /\ aborted' = "taken"
              /\ UNCHANGED <<heap, asked>>
           \/ /\ heap[h].inner # Taken
              /\ \E a \in Vacant :
                    /\ a # h
                    /\ heap' = [g \in Handles |->
                                   IF g = a THEN Authorizer(token, heap[h].inner)
                                   ELSE IF g = h THEN Free ELSE heap[g]]
              /\ asked' = [asked EXCEPT ![h] = << >>]
              /\ UNCHANGED aborted
           \/ /\ heap' = [g \in Handles |-> IF g = h THEN Free ELSE heap[g]]
              /\ asked' = [asked EXCEPT ![h] = << >>]
              /\ UNCHANGED aborted
<1>1. CASE heap[h].inner = Taken
  BY <1>1 DEF authorizer_builder_build, Abort, history
<1>2. CASE /\ heap[h].inner # Taken
           /\ \E a \in Vacant :
                 /\ heap' = [g \in Handles |->
                                CASE g = a -> Authorizer(token, heap[h].inner)
                                  [] g = h -> Free
                                  [] OTHER -> heap[g]]
                 /\ asked' = [asked EXCEPT ![h] = << >>]
           /\ UNCHANGED aborted
  <2>1. PICK a \in Vacant :
                 /\ heap' = [g \in Handles |->
                                CASE g = a -> Authorizer(token, heap[h].inner)
                                  [] g = h -> Free
                                  [] OTHER -> heap[g]]
                 /\ asked' = [asked EXCEPT ![h] = << >>]
    BY <1>2
  <2>2. a # h
    BY DEF Vacant, Live
  <2>3. heap' = [g \in Handles |-> IF g = a THEN Authorizer(token, heap[h].inner)
                                   ELSE IF g = h THEN Free ELSE heap[g]]
    BY <2>1, <2>2
  <2> QED BY <1>2, <2>1, <2>2, <2>3
<1>3. CASE /\ heap' = [heap EXCEPT ![h] = Free]
           /\ asked' = [asked EXCEPT ![h] = << >>]
           /\ UNCHANGED aborted
  BY <1>3 DEF HeapOK
<1> QED BY <1>1, <1>2, <1>3 DEF authorizer_builder_build

LEMMA HeapTypeStep ==
    ASSUME HeapOK, HeapStep
    PROVE  HeapOK'
<1> USE DEF HeapOK
<1>1. CASE Still \/ Stops
  BY <1>1 DEF Still, Stops
<1>2. CASE \E object : Returns(object)
  <2>1. PICK object : Returns(object)
    BY <1>2
  <2>2. object \in Object
    BY <2>1, ReturnedIsObject DEF Returns
  <2>3. << >> \in Seq(Statements \cup {Refused})
    OBVIOUS
  <2>4. PICK h \in Vacant : /\ heap' = [heap EXCEPT ![h] = object]
                            /\ asked' = [asked EXCEPT ![h] = << >>]
    BY <2>1 DEF Returns, Return
  <2> QED BY <2>1, <2>2, <2>3, <2>4 DEF Vacant, Live, Returns
<1>3. CASE Edits
  <2>1. PICK h \in Builders, c \in Contexts :
          /\ heap[h].inner # Taken
          /\ heap' = [heap EXCEPT ![h] = WithContext(@, c)]
    BY <1>3 DEF Edits
  <2>2. heap[h].inner \in Content
    BY <2>1, LiveBuilder
  <2>3. [heap[h].inner EXCEPT !.context = c] \in Content
    BY <2>2 DEF Content
  <2>4. WithContext(heap[h], c) = Builder(heap[h].kind, [heap[h].inner EXCEPT !.context = c])
    <3>1. heap[h] = Builder(heap[h].kind, heap[h].inner)
      BY LiveBuilder
    <3> QED BY <3>1, EditsOfBuilder
  <2>5. WithContext(heap[h], c) \in Object
    BY <2>3, <2>4, LiveBuilder, BuilderIsObject
  <2> QED BY <1>3, <2>1, <2>5 DEF Edits
<1>4. CASE \E h \in Builders, s \in Statements : Add(h, s)
  <2>1. PICK h \in Builders, s \in Statements : Add(h, s)
    BY <1>4
  <2>2. heap[h].inner \in Content /\ h \in Handles
    BY <2>1, LiveBuilder DEF Add
  <2>3. [heap[h].inner EXCEPT !.statements = Append(@, s)] \in Content
    BY <2>2, StatementsAppend
  <2>4. [heap[h] EXCEPT !.inner.statements = Append(@, s)]
          = Builder(heap[h].kind, [heap[h].inner EXCEPT !.statements = Append(@, s)])
    BY LiveBuilder, EditsOfBuilder
  <2>5. [heap[h] EXCEPT !.inner.statements = Append(@, s)] \in Object
    BY <2>3, <2>4, LiveBuilder, BuilderIsObject
  <2>6. heap' = [heap EXCEPT ![h] = [heap[h] EXCEPT !.inner.statements = Append(@, s)]]
    BY <2>1, <2>2 DEF Add
  <2>7. Append(asked[h], s) \in Seq(Statements \cup {Refused})
    BY <2>2
  <2> QED BY <2>1, <2>2, <2>5, <2>6, <2>7 DEF Add
<1>5. CASE \E t \in Threads, h \in Builders : AddRefused(t, h)
  <2>1. PICK t \in Threads, h \in Builders : AddRefused(t, h)
    BY <1>5
  <2>2. AfterRefusal(heap[h]) = Builder(heap[h].kind, Taken)
    BY LiveBuilder, EditsOfBuilder
  <2>3. AfterRefusal(heap[h]) \in Object
    BY <2>2, LiveBuilder, BuilderIsObject
  <2>4. Append(asked[h], Refused) \in Seq(Statements \cup {Refused})
    <3>1. asked[h] \in Seq(Statements \cup {Refused})
      BY LiveBuilder
    <3> QED BY <3>1
  <2> QED BY <2>1, <2>3, <2>4 DEF AddRefused
<1>6. CASE \E t \in Threads, h \in Live("authorizer_builder"), token \in Token \cup {None} :
              authorizer_builder_build(t, h, token)
  <2>1. PICK t \in Threads, h \in Live("authorizer_builder"), token \in Token \cup {None} :
                authorizer_builder_build(t, h, token)
    BY <1>6
  <2>2. Free \in Object /\ << >> \in Seq(Statements \cup {Refused}) /\ Vacant \subseteq Handles
    BY DEF Object, Vacant, Live
  <2>3. heap[h].inner # Taken => Authorizer(token, heap[h].inner) \in Object
    BY LiveBuilder, SomeBuilders DEF Authorizer, Object, AuthorizerObject
  <2> QED BY <2>1, <2>2, <2>3, BuildForms DEF Missteps
<1>7. CASE \E h \in Handles \ Vacant : Release(h)
  <2>1. Free \in Object /\ << >> \in Seq(Statements \cup {Refused})
    BY DEF Object
  <2> QED BY <1>7, <2>1 DEF Release
<1> QED BY <1>1, <1>2, <1>3, <1>4, <1>5, <1>6, <1>7 DEF HeapStep

\* Each address holds an object, and each builder is one that its kind of
\* content can be put in, whatever is refused by it.
THEOREM HeapTypeCorrect == Spec => []HeapOK
<1>1. Init => HeapOK
  BY DEF Init, HeapOK, Object, Missteps
<1>2. HeapOK /\ [Next]_vars => HeapOK'
  <2>1. HeapOK /\ Next => HeapOK'
    BY NextIsHeapStep, HeapTypeStep
  <2>2. HeapOK /\ UNCHANGED vars => HeapOK'
    BY DEF HeapOK, vars, code, history
  <2> QED BY <2>1, <2>2
<1> QED BY <1>1, <1>2, PTL DEF Spec

-----------------------------------------------------------------------------
(* Errors.                                                                     *)

LastErrorShape ==
    /\ lastError = [t \in Threads |-> lastError[t]]
    /\ cause = [t \in Threads |-> cause[t]]

ErrorsInv == LastErrorShape /\ ErrorIsOfTheLastFailure

\* The kinds of the errors that are not verdicts of an authorizer.
Reported == {"invalid_argument", "language", "invalid_block_id", "block_deserialization",
             "already_sealed"}

\* An authorizer does not authorize.
Judges(t, authorizer) ==
    /\ Verdict(authorizer) # NoError
    /\ lastError' = update_last_error(t, Verdict(authorizer))
    /\ cause' = [cause EXCEPT ![t] = Verdict(authorizer)]
    /\ judged' = [judged EXCEPT ![t] = IF FailsToEvaluate(authorizer) THEN None ELSE authorizer]

\* What a call does to the errors, whichever function it is.
ErrorStep ==
    /\ spent' \in {spent, spent + 1}
    /\ \/ UNCHANGED <<lastError, cause, judged>>
       \/ \E t \in Threads, kind \in Reported : Fail(t, Plain(kind))
       \/ \E t \in Threads : FailSilently(t)
       \/ \E t \in Threads, a \in Live("authorizer") : Judges(t, heap[a])

LEMMA NextIsErrorStep ==
    ASSUME Next
    PROVE  ErrorStep
<1> USE DEF ErrorStep, Spend
<1>1. CASE public_key_serialize \/ NullAuthorizerBuilder \/ biscuit_builder_set_root_key_id
           \/ \E h \in Builders : AddToTaken(h)
  BY <1>1 DEF public_key_serialize, NullAuthorizerBuilder, biscuit_builder_set_root_key_id,
              AddToTaken, Abort, history
<1>2. CASE CreateBuilder \/ SetContext
  BY <1>2 DEF CreateBuilder, SetContext, Return, Succeed, Abort, history
<1>3. CASE \/ \E h \in Builders, s \in Statements : Add(h, s)
           \/ \E h \in Handles \ Vacant : Release(h)
  BY <1>3 DEF Add, Release, Succeed
<1>4. CASE \E t \in Threads : \/ NullArgument(t) \/ NotReadable(t)
                              \/ \E h \in Builders : AddRefused(t, h)
  <2>1. PICK t \in Threads : Fail(t, Plain("invalid_argument")) \/ Fail(t, Plain("language"))
    BY <1>4 DEF NullArgument, NotReadable, AddRefused, InvalidArgument
  <2>2. \E kind \in Reported : Fail(t, Plain(kind))
    BY <2>1 DEF Reported
  <2> QED BY <2>2 DEF Fail
<1>5. CASE \E t \in Threads : TokenCall(t)
  <2>1. PICK t \in Threads : TokenCall(t)
    BY <1>5
  <2>2. \/ UNCHANGED <<lastError, cause, judged>> /\ spent' \in {spent, spent + 1}
        \/ FailSilently(t)
        \/ \E kind \in Reported : Fail(t, Plain(kind))
    BY <2>1 DEF TokenCall, biscuit_from, biscuit_builder_build, biscuit_append_block,
                biscuit_serialize_sealed, biscuit_block_context, biscuit_print_block_source,
                Return, Succeed, Abort, history, Reported
  <2> QED BY <2>2 DEF Fail, FailSilently
<1>6. CASE \E t \in Threads : AuthorizerCall(t)
  BY <1>6 DEF AuthorizerCall, biscuit_authorizer, authorizer_builder_build,
              authorizer_authorize, Judges, Return, Succeed, FailSilently, Abort, history
<1> QED BY <1>1, <1>2, <1>3, <1>4, <1>5, <1>6 DEF Next

\* What a thread reads as its error is what the last call that failed on that
\* thread failed with, unless that call reports nothing.
THEOREM ErrorsAreOfTheLastFailure == Spec => []ErrorIsOfTheLastFailure
<1>1. Init => ErrorsInv
  BY DEF Init, ErrorsInv, LastErrorShape, ErrorIsOfTheLastFailure
<1>2. ErrorsInv /\ [Next]_vars => ErrorsInv'
  <2>1. ErrorsInv /\ ErrorStep => ErrorsInv'
    BY DEF ErrorsInv, LastErrorShape, ErrorIsOfTheLastFailure, ErrorStep, Fail, FailSilently,
           Judges, update_last_error
  <2>2. ErrorsInv /\ UNCHANGED vars => ErrorsInv'
    BY DEF ErrorsInv, LastErrorShape, ErrorIsOfTheLastFailure, vars, code, history
  <2> QED BY <2>1, <2>2, NextIsErrorStep
<1>3. ErrorsInv => ErrorIsOfTheLastFailure
  BY DEF ErrorsInv
<1> QED BY <1>1, <1>2, <1>3, PTL DEF Spec

-----------------------------------------------------------------------------
(* Builders.                                                                   *)

HasRefusal(h) == \E i \in DOMAIN asked[h] : asked[h][i] = Refused

\* A builder holds what it was asked for, as long as it holds anything.
Keeps(h) ==
    IF heap[h].inner = Taken THEN HasRefusal(h) ELSE heap[h].inner.statements = asked[h]

BuildersKeep == \A h \in Builders : Keeps(h)
StoppedByTaken == aborted = "taken" => ATakenBuilder

BuilderInv == HeapOK /\ BuildersKeep /\ StoppedByTaken

LEMMA NoStatementIsRefused ==
    ASSUME NEW q \in Seq(Statement), NEW i \in DOMAIN q
    PROVE  q[i] # Refused
<1>1. q[i] \in Statement
  OBVIOUS
<1> QED BY <1>1 DEF Statement, StatementKinds, Refused

LEMMA KeptImpliesOnlyRefusals ==
    ASSUME BuilderInv
    PROVE  OnlyRefusalsEmptyBuilders
<1>1. ASSUME NEW h \in Builders
      PROVE  heap[h].inner = Taken <=> HasRefusal(h)
  <2>1. CASE heap[h].inner = Taken
    BY <2>1 DEF BuilderInv, BuildersKeep, Keeps
  <2>2. CASE heap[h].inner # Taken
    <3>1. heap[h].inner.statements = asked[h]
      BY <2>2 DEF BuilderInv, BuildersKeep, Keeps
    <3>2. heap[h].inner \in Content
      BY <2>2, LiveBuilder DEF BuilderInv
    <3>3. asked[h] \in Seq(Statement)
      BY <3>1, <3>2 DEF Content
    <3> QED BY <2>2, <3>3, NoStatementIsRefused DEF HasRefusal
  <2> QED BY <2>1, <2>2
<1>2. aborted = "taken" => \E h \in Builders : HasRefusal(h)
  BY <1>1 DEF BuilderInv, StoppedByTaken, ATakenBuilder
<1> QED BY <1>1, <1>2 DEF OnlyRefusalsEmptyBuilders, HasRefusal

LEMMA BuildersKeepStep ==
    ASSUME HeapOK, BuildersKeep, HeapStep
    PROVE  BuildersKeep'
<1> SUFFICES ASSUME NEW g \in Builders'
             PROVE  Keeps(g)'
  BY DEF BuildersKeep
<1>0. /\ g \in Handles
      /\ heap'[g].kind \in BuilderKinds
      /\ g \in Builders => Keeps(g)
  BY DEF Builders, BuildersKeep
<1>1. CASE Still \/ Stops
  BY <1>0, <1>1 DEF Still, Stops, Builders, Keeps, HasRefusal
<1>2. CASE \E object : Returns(object)
  <2>1. PICK object : Returns(object)
    BY <1>2
  <2>2. PICK h \in Vacant : /\ heap' = [heap EXCEPT ![h] = object]
                            /\ asked' = [asked EXCEPT ![h] = << >>]
    BY <2>1 DEF Returns, Return
  <2>3. CASE g # h
    BY <1>0, <2>2, <2>3 DEF Builders, Keeps, HasRefusal, HeapOK
  <2>4. CASE g = h
    <3>1. heap'[g] = object /\ asked'[g] = << >>
      BY <1>0, <2>2, <2>4 DEF HeapOK
    <3>2. \E kind \in BuilderKinds : object = Builder(kind, Empty)
      BY <1>0, <2>1, <3>1 DEF Returns, NewObject, Biscuit, Authorizer, BuilderKinds
    <3>3. heap'[g].inner = Empty
      BY <3>1, <3>2 DEF Builder
    <3> QED BY <3>1, <3>3, ContentIsNotTaken DEF Keeps, Empty
  <2> QED BY <2>3, <2>4
<1>3. CASE Edits
  <2>1. PICK h \in Builders, c \in Contexts :
          /\ heap[h].inner # Taken
          /\ heap' = [heap EXCEPT ![h] = WithContext(@, c)]
    BY <1>3 DEF Edits
  <2>2. CASE g # h
    BY <1>0, <1>3, <2>1, <2>2 DEF Edits, Builders, Keeps, HasRefusal, HeapOK
  <2>3. CASE g = h
    <3>1. heap[g].inner \in Content /\ heap[g].inner.statements = asked[g]
      BY <1>0, <2>1, <2>3, LiveBuilder DEF Keeps
    <3>2. heap'[g] = Builder(heap[g].kind, [heap[g].inner EXCEPT !.context = c])
      <4>1. heap'[g] = WithContext(heap[g], c)
        BY <1>0, <2>1, <2>3 DEF HeapOK
      <4>2. heap[g] = Builder(heap[g].kind, heap[g].inner)
        BY <2>3, LiveBuilder
      <4> QED BY <4>1, <4>2, EditsOfBuilder
    <3>3. heap'[g].inner = [heap[g].inner EXCEPT !.context = c]
      BY <3>2 DEF Builder
    <3>4. heap'[g].inner \in Content /\ heap'[g].inner.statements = asked[g]
      BY <3>1, <3>3 DEF Content
    <3> QED BY <1>3, <3>4, ContentIsNotTaken DEF Edits, Keeps
  <2> QED BY <2>2, <2>3
<1>4. CASE \E h \in Builders, s \in Statements : Add(h, s)
  <2>1. PICK h \in Builders, s \in Statements : Add(h, s)
    BY <1>4
  <2>2. CASE g # h
    BY <1>0, <2>1, <2>2 DEF Add, Builders, Keeps, HasRefusal, HeapOK
  <2>3. CASE g = h
    <3>1. heap[g].inner \in Content /\ heap[g].inner.statements = asked[g]
      BY <1>0, <2>1, <2>3, LiveBuilder DEF Add, Keeps
    <3>2. heap'[g] = [heap[g] EXCEPT !.inner.statements = Append(@, s)]
      BY <1>0, <2>1, <2>3 DEF Add, HeapOK
    <3>3. heap'[g] = Builder(heap[g].kind, [heap[g].inner EXCEPT !.statements = Append(@, s)])
      <4>1. [heap[h] EXCEPT !.inner.statements = Append(@, s)]
              = Builder(heap[h].kind, [heap[h].inner EXCEPT !.statements = Append(@, s)])
        BY LiveBuilder, EditsOfBuilder
      <4> QED BY <2>3, <3>2, <4>1
    <3>4. heap'[g].inner = [heap[g].inner EXCEPT !.statements = Append(@, s)]
      BY <3>3 DEF Builder
    <3>5. heap'[g].inner \in Content
      BY <3>1, <3>4, StatementsAppend
    <3>6. heap'[g].inner.statements = Append(asked[g], s)
      BY <3>1, <3>4 DEF Content
    <3>7. asked'[g] = Append(asked[g], s)
      BY <1>0, <2>1, <2>3 DEF Add, HeapOK
    <3> QED BY <3>5, <3>6, <3>7, ContentIsNotTaken DEF Keeps
  <2> QED BY <2>2, <2>3
<1>5. CASE \E t \in Threads, h \in Builders : AddRefused(t, h)
  <2>1. PICK t \in Threads, h \in Builders : AddRefused(t, h)
    BY <1>5
  <2>2. CASE g # h
    BY <1>0, <2>1, <2>2 DEF AddRefused, Builders, Keeps, HasRefusal, HeapOK
  <2>3. CASE g = h
    <3>1. heap'[g] = Builder(heap[g].kind, Taken)
      BY <1>0, <2>1, <2>3, LiveBuilder, EditsOfBuilder DEF AddRefused, HeapOK
    <3>2. asked[g] \in Seq(Statements \cup {Refused}) /\ asked'[g] = Append(asked[g], Refused)
      BY <1>0, <2>1, <2>3 DEF AddRefused, HeapOK
    <3>3. Len(asked[g]) + 1 \in DOMAIN asked'[g] /\ asked'[g][Len(asked[g]) + 1] = Refused
      BY <3>2
    <3> QED BY <3>1, <3>3 DEF Keeps, HasRefusal, Builder
  <2> QED BY <2>2, <2>3
<1>6. CASE \E t \in Threads, h \in Live("authorizer_builder"), token \in Token \cup {None} :
              authorizer_builder_build(t, h, token)
  <2>1. PICK t \in Threads, h \in Live("authorizer_builder"), token \in Token \cup {None} :
                authorizer_builder_build(t, h, token)
    BY <1>6
  <2>2. Free.kind \notin BuilderKinds /\ Authorizer(token, heap[h].inner).kind \notin BuilderKinds
    BY DEF Free, Authorizer, BuilderKinds
  <2>3. heap'[g] = heap[g] /\ asked'[g] = asked[g]
    BY <1>0, <2>1, <2>2, BuildForms DEF HeapOK
  <2> QED BY <1>0, <2>3 DEF Builders, Keeps, HasRefusal
<1>7. CASE \E h \in Handles \ Vacant : Release(h)
  <2>1. PICK h \in Handles \ Vacant : Release(h)
    BY <1>7
  <2>2. heap'[g] = heap[g] /\ asked'[g] = asked[g]
    BY <1>0, <2>1 DEF Release, Free, BuilderKinds, HeapOK
  <2> QED BY <1>0, <2>2 DEF Builders, Keeps, HasRefusal
<1> QED BY <1>1, <1>2, <1>3, <1>4, <1>5, <1>6, <1>7 DEF HeapStep

\* A process that runs is stopped for an empty builder only while it holds one.
LEMMA StoppedStep ==
    ASSUME HeapOK, StoppedByTaken, Running, HeapStep
    PROVE  StoppedByTaken'
<1>1. aborted = "no"
  BY DEF Running
<1>2. CASE Stops
  BY <1>2 DEF Stops, StoppedByTaken, ATakenBuilder, Builders
<1>3. CASE \E t \in Threads, h \in Live("authorizer_builder"), token \in Token \cup {None} :
              authorizer_builder_build(t, h, token)
  <2>1. PICK t \in Threads, h \in Live("authorizer_builder"), token \in Token \cup {None} :
                authorizer_builder_build(t, h, token)
    BY <1>3
  <2> QED BY <1>1, <2>1, BuildForms, SomeBuilders DEF StoppedByTaken, ATakenBuilder, Builders
<1>4. CASE UNCHANGED aborted
  BY <1>1, <1>4 DEF StoppedByTaken
<1> QED BY <1>2, <1>3, <1>4 DEF HeapStep, Still, Returns, Edits, Add, AddRefused, Release

LEMMA BuilderInvariant == Spec => []BuilderInv
<1>1. Init => BuilderInv
  BY DEF Init, BuilderInv, HeapOK, Object, Missteps, BuildersKeep, Builders, BuilderKinds,
         Free, StoppedByTaken
<1>2. BuilderInv /\ [Next]_vars => BuilderInv'
  <2>1. BuilderInv /\ Next => BuilderInv'
    BY NextIsHeapStep, CallsRun, HeapTypeStep, BuildersKeepStep, StoppedStep DEF BuilderInv
  <2>2. BuilderInv /\ UNCHANGED vars => BuilderInv'
    BY DEF BuilderInv, HeapOK, BuildersKeep, Builders, Keeps, HasRefusal, StoppedByTaken,
           ATakenBuilder, vars, code, history
  <2> QED BY <2>1, <2>2
<1> QED BY <1>1, <1>2, PTL DEF Spec

\* Only a refused statement empties a builder, and the process is stopped for an
\* empty builder only when a statement was refused by one.
THEOREM OnlyRefusalsEmpty == Spec => []OnlyRefusalsEmptyBuilders
BY BuilderInvariant, KeptImpliesOnlyRefusals, PTL

-----------------------------------------------------------------------------
(* What tokens and authorizers are built from.                                 *)

\* The body of BuiltFromAllThatWasAsked, for the object that appears at h.
WasAdded(object) ==
    IF object.kind = "authorizer" THEN object.content.statements
    ELSE object.token.blocks[Len(object.token.blocks)].statements

FromAll(object) ==
    \/ \E b \in Builders : WasAdded(object) = asked[b]
    \/ object.kind = "authorizer" /\ WasAdded(object) = << >>
    \/ object.kind = "biscuit" /\ object.token \in Received

Appears(h) == heap[h] = Free /\ heap'[h].kind \in {"biscuit", "authorizer"}

LEMMA ReturnedFromAll ==
    ASSUME BuilderInv, NEW object, NewObject(object),
           object.kind \in {"biscuit", "authorizer"}
    PROVE  FromAll(object)
<1>1. CASE \E kind \in BuilderKinds : object = Builder(kind, Empty)
  BY <1>1 DEF Builder, BuilderKinds
<1>2. CASE \E token \in Token : object = Biscuit(token) /\ token \in Received
  BY <1>2 DEF Biscuit, FromAll
<1>3. CASE \E token \in Token : object = Biscuit(token) /\ \E b \in Builders :
                   /\ heap[b].inner # Taken
                   /\ token.blocks[Len(token.blocks)] = heap[b].inner
  <2>1. PICK token \in Token, b \in Builders :
                   /\ object = Biscuit(token)
                   /\ heap[b].inner # Taken
                   /\ token.blocks[Len(token.blocks)] = heap[b].inner
    BY <1>3
  <2>2. heap[b].inner.statements = asked[b]
    BY <2>1 DEF BuilderInv, BuildersKeep, Keeps
  <2>3. object.kind = "biscuit" /\ object.token = token
    BY <2>1 DEF Biscuit
  <2> QED BY <2>1, <2>2, <2>3 DEF FromAll, WasAdded
<1>4. CASE \E token \in Token : object = Authorizer(token, Empty)
  BY <1>4 DEF Authorizer, Empty, FromAll, WasAdded
<1> QED BY <1>1, <1>2, <1>3, <1>4 DEF NewObject

LEMMA AppearsFromAll ==
    ASSUME BuilderInv, HeapStep, NEW g \in Handles, Appears(g)
    PROVE  FromAll(heap'[g])
<1>0. HeapOK /\ heap[g].kind = "free"
  BY DEF BuilderInv, Appears, Free
<1>1. CASE Still \/ Stops
  BY <1>0, <1>1 DEF Still, Stops, Appears
<1>2. CASE \E object : Returns(object)
  <2>1. PICK object : Returns(object)
    BY <1>2
  <2>2. heap'[g] = object
    BY <1>0, <2>1 DEF Returns, Return, Appears, HeapOK, Vacant, Live
  <2> QED BY <2>1, <2>2, ReturnedFromAll DEF Returns, Appears
<1>3. CASE Edits \/ (\E h \in Builders, s \in Statements : Add(h, s))
                 \/ \E t \in Threads, h \in Builders : AddRefused(t, h)
  <2>1. g \notin Builders
    BY <1>0 DEF Builders, BuilderKinds
  <2>2. heap'[g] = heap[g]
    BY <1>0, <1>3, <2>1 DEF Edits, Add, AddRefused, HeapOK
  <2> QED BY <1>0, <2>2 DEF Appears
<1>4. CASE \E t \in Threads, h \in Live("authorizer_builder"), token \in Token \cup {None} :
              authorizer_builder_build(t, h, token)
  <2>1. PICK t \in Threads, h \in Live("authorizer_builder"), token \in Token \cup {None} :
                authorizer_builder_build(t, h, token)
    BY <1>4
  <2>2. heap[h].inner # Taken /\ heap'[g] = Authorizer(token, heap[h].inner)
    <3>1. g # h /\ Free.kind = "free"
      BY <1>0 DEF Live, Free
    <3> QED BY <1>0, <2>1, <3>1, BuildForms DEF Appears
  <2>3. h \in Builders /\ heap[h].inner.statements = asked[h]
    BY <2>2, SomeBuilders DEF BuilderInv, BuildersKeep, Keeps
  <2> QED BY <2>2, <2>3 DEF FromAll, WasAdded, Authorizer
<1>5. CASE \E h \in Handles \ Vacant : Release(h)
  BY <1>0, <1>5 DEF Release, Appears, Free, HeapOK
<1> QED BY <1>1, <1>2, <1>3, <1>4, <1>5 DEF HeapStep

\* What a call that returns a token or an authorizer adds to it is all that the
\* program passed to one builder, in order.
THEOREM BuiltFromAll == Spec => BuiltFromAllThatWasAsked
<1>1. BuilderInv /\ [Next]_vars => \A h \in Handles : Appears(h) => FromAll(heap'[h])
  <2>1. BuilderInv /\ Next => \A h \in Handles : Appears(h) => FromAll(heap'[h])
    BY NextIsHeapStep, AppearsFromAll DEF BuilderInv
  <2>2. UNCHANGED vars => \A h \in Handles : ~Appears(h)
    BY DEF vars, code, Appears, Free
  <2> QED BY <2>1, <2>2
<1>2. BuilderInv /\ [Next]_vars =>
        [\A h \in Handles :
          /\ heap[h] = Free
          /\ heap'[h].kind \in {"biscuit", "authorizer"}
          => LET added == IF heap'[h].kind = "authorizer"
                          THEN heap'[h].content.statements
                          ELSE heap'[h].token.blocks[Len(heap'[h].token.blocks)].statements
             IN  \/ \E b \in Builders : added = asked[b]
                 \/ heap'[h].kind = "authorizer" /\ added = << >>
                 \/ heap'[h].kind = "biscuit" /\ heap'[h].token \in Received]_vars
  BY <1>1 DEF Appears, FromAll, WasAdded
<1> QED BY <1>2, BuilderInvariant, PTL DEF Spec, BuiltFromAllThatWasAsked

-----------------------------------------------------------------------------
(* The checks that fail.                                                       *)

\* The number of a check among the checks of its block, from the statements.
Number(statements, i) == Cardinality({j \in 1..(i - 1) : statements[j].kind = "check"})

LEMMA ChecksListed ==
    ASSUME NEW content \in Content
    PROVE  /\ ChecksOf(content) \in Seq(Statement)
           /\ \A i \in DOMAIN content.statements : content.statements[i].kind = "check" =>
                 /\ Number(content.statements, i) + 1 \in 1..Len(ChecksOf(content))
                 /\ ChecksOf(content)[Number(content.statements, i) + 1]
                       = content.statements[i]
           /\ \A k \in 1..Len(ChecksOf(content)) :
                 \E i \in DOMAIN content.statements :
                    /\ content.statements[i].kind = "check"
                    /\ k = Number(content.statements, i) + 1
<1> DEFINE s == content.statements
           p == [i \in DOMAIN s |-> IF s[i].kind = "check" THEN <<s[i]>> ELSE << >>]
<1>1. s \in Seq(Statement) /\ Len(s) \in Nat /\ DOMAIN s = 1..Len(s)
  BY DEF Content
<1> HIDE DEF s
<1>2. \A i \in 1..Len(s) : s[i] \in Statement
  BY <1>1
<1>3. /\ p \in Seq(Options(Statement)) /\ Len(p) = Len(s)
      /\ \A i \in 1..Len(s) : /\ p[i] # << >> <=> s[i].kind = "check"
                              /\ s[i].kind = "check" => p[i][1] = s[i]
  <2>1. p \in [1..Len(s) -> Options(Statement)]
    BY <1>1, <1>2 DEF Options
  <2>2. \A i \in 1..Len(s) : p[i] = IF s[i].kind = "check" THEN <<s[i]>> ELSE << >>
    BY <1>1
  <2> QED BY <1>1, <2>1, <2>2, SeqDef
<1>4. ChecksOf(content) = FlattenSeq(p)
  BY DEF ChecksOf, s
<1> HIDE DEF p
<1>5. Listing(p) /\ FlattenSeq(p) \in Seq(Statement)
  <2>1. p \in Seq(Seq(Statement))
    <3>1. Options(Statement) \subseteq Seq(Statement)
      BY OptionsType
    <3> QED BY <1>3, <3>1
  <2>2. Listing(p)
    BY <1>3, FlattenOfOptions
  <2> QED BY <2>1, <2>2, FlattenType
<1>6. /\ Present(p) = {i \in 1..Len(s) : s[i].kind = "check"}
      /\ \A i \in 1..Len(s) : Cardinality(Earlier(p, i)) = Number(s, i)
  <2>1. \A i \in 1..Len(s) : Earlier(p, i) = {j \in 1..(i - 1) : s[j].kind = "check"}
    BY <1>1, <1>3 DEF Earlier
  <2> QED BY <1>3, <2>1 DEF Present, Number
<1>7. ASSUME NEW i \in 1..Len(s), s[i].kind = "check"
      PROVE  /\ Number(s, i) + 1 \in 1..Len(FlattenSeq(p))
             /\ FlattenSeq(p)[Number(s, i) + 1] = s[i]
  <2>1. i \in Present(p) /\ p[i][1] = s[i] /\ Cardinality(Earlier(p, i)) = Number(s, i)
    BY <1>3, <1>6, <1>7
  <2> QED BY <1>5, <2>1 DEF Listing
<1>8. ASSUME NEW k \in 1..Len(FlattenSeq(p))
      PROVE  \E i \in 1..Len(s) : s[i].kind = "check" /\ k = Number(s, i) + 1
  <2>1. PICK i \in Present(p) : k = Cardinality(Earlier(p, i)) + 1
    BY <1>5 DEF Listing
  <2> QED BY <1>6, <2>1
<1> QED BY <1>1, <1>4, <1>5, <1>7, <1>8 DEF s

\* A failed check as the accessors name it.
Name(f) == <<f.owner, f.check_id>>
Owners == Nat \cup {TheAuthorizer}

\* The positions of the checks of a block that do not hold.
Unmet(content) == {k \in 1..Len(ChecksOf(content)) : ~ChecksOf(content)[k].holds}

LEMMA FailuresListed ==
    ASSUME NEW owner \in Owners, NEW content \in Content
    PROVE  /\ FailedChecks(owner, content) \in Seq(FailedCheck)
           /\ IsInjective(FailedChecks(owner, content))
           /\ Range(FailedChecks(owner, content))
                 = {[owner |-> owner, check_id |-> k - 1] : k \in Unmet(content)}
<1> DEFINE c == ChecksOf(content)
           of(k) == [owner |-> owner, check_id |-> k - 1]
           q == [k \in DOMAIN c |-> IF c[k].holds THEN << >> ELSE <<of(k)>>]
           failed == FlattenSeq(q)
<1>1. c \in Seq(Statement) /\ Len(c) \in Nat /\ DOMAIN c = 1..Len(c)
  BY ChecksListed
<1>2. \A k \in 1..Len(c) : of(k) \in FailedCheck /\ of(k).check_id = k - 1
  BY <1>1 DEF FailedCheck, Owners
<1> HIDE DEF of
<1>3. /\ q \in Seq(Options(FailedCheck)) /\ Len(q) = Len(c)
      /\ \A k \in 1..Len(c) : /\ q[k] # << >> <=> ~c[k].holds
                              /\ ~c[k].holds => q[k][1] = of(k)
  <2>1. q \in [1..Len(c) -> Options(FailedCheck)]
    BY <1>1, <1>2 DEF Options
  <2>2. \A k \in 1..Len(c) : q[k] = IF c[k].holds THEN << >> ELSE <<of(k)>>
    BY <1>1
  <2> QED BY <1>1, <2>1, <2>2, SeqDef
<1>4. FailedChecks(owner, content) = failed
  BY DEF FailedChecks, of
<1> HIDE DEF q
<1>5. Listing(q) /\ failed \in Seq(FailedCheck)
  <2>1. q \in Seq(Seq(FailedCheck))
    <3>1. Options(FailedCheck) \subseteq Seq(FailedCheck)
      BY OptionsType
    <3> QED BY <1>3, <3>1
  <2>2. Listing(q)
    BY <1>3, FlattenOfOptions
  <2> QED BY <2>1, <2>2, FlattenType
<1>6. Present(q) = Unmet(content)
  BY <1>3 DEF Present, Unmet
<1> HIDE DEF c, failed
<1>7. Len(failed) \in Nat /\ DOMAIN failed = 1..Len(failed)
  BY <1>5
<1>8. ASSUME NEW m \in 1..Len(failed)
      PROVE  \E k \in Unmet(content) : /\ m = Cardinality(Earlier(q, k)) + 1
                                       /\ failed[m] = of(k) /\ failed[m].check_id = k - 1
  <2>1. PICK k \in Present(q) : m = Cardinality(Earlier(q, k)) + 1
    BY <1>5, <1>8 DEF Listing, failed
  <2>2. failed[m] = q[k][1]
    BY <1>5, <2>1 DEF Listing, failed
  <2>3. q[k][1] = of(k) /\ of(k).check_id = k - 1
    BY <1>2, <1>3, <1>6, <2>1 DEF Unmet, c
  <2> QED BY <1>6, <2>1, <2>2, <2>3
<1>9. ASSUME NEW k \in Unmet(content)
      PROVE  \E m \in 1..Len(failed) : failed[m] = of(k)
  <2>1. q[k][1] = of(k)
    BY <1>3 DEF Unmet, c
  <2> QED BY <1>5, <1>6, <2>1 DEF Listing, failed
<1>10. Range(failed) = {of(k) : k \in Unmet(content)}
  <2>1. Range(failed) = {failed[m] : m \in 1..Len(failed)}
    BY <1>7 DEF Range
  <2>2. \A m \in 1..Len(failed) : failed[m] \in {of(k) : k \in Unmet(content)}
    BY <1>8
  <2>3. \A k \in Unmet(content) : of(k) \in {failed[m] : m \in 1..Len(failed)}
    BY <1>9
  <2> QED BY <2>1, <2>2, <2>3
<1>11. IsInjective(failed)
  <2>1. ASSUME NEW m \in 1..Len(failed), NEW n \in 1..Len(failed), failed[m] = failed[n]
        PROVE  m = n
    <3>1. PICK k \in Unmet(content) : /\ m = Cardinality(Earlier(q, k)) + 1
                                      /\ failed[m].check_id = k - 1
      BY <1>8
    <3>2. PICK l \in Unmet(content) : /\ n = Cardinality(Earlier(q, l)) + 1
                                      /\ failed[n].check_id = l - 1
      BY <1>8
    <3>3. k \in Nat /\ l \in Nat
      BY DEF Unmet
    <3>4. k = l
      BY <2>1, <3>1, <3>2, <3>3
    <3> QED BY <3>1, <3>2, <3>4
  <2> QED BY <1>7, <2>1 DEF IsInjective
<1> QED BY <1>4, <1>5, <1>10, <1>11 DEF of

LEMMA FailuresNamed ==
    ASSUME NEW owner \in Owners, NEW content \in Content
    PROVE  {Name(f) : f \in Range(FailedChecks(owner, content))} = FailingIn(owner, content)
<1> DEFINE s == content.statements
           c == ChecksOf(content)
           failing == {i \in DOMAIN s : s[i] = [kind |-> "check", holds |-> FALSE]}
<1>1. s \in Seq(Statement)
  BY DEF Content
<1>2. \A i \in DOMAIN s : /\ s[i] \in Statement /\ Number(s, i) \in Nat
                          /\ i \in failing <=> s[i].kind = "check" /\ ~s[i].holds
  <2>1. ASSUME NEW i \in DOMAIN s
        PROVE  Number(s, i) \in Nat
    <3>1. {j \in 1..(i - 1) : s[j].kind = "check"} \subseteq 1..(i - 1)
      OBVIOUS
    <3>2. IsFiniteSet(1..(i - 1))
      BY <1>1, FS_Interval
    <3> QED BY <3>1, <3>2, FS_Subset, FS_CardinalityType DEF Number
  <2>2. \A i \in DOMAIN s : s[i] \in Statement
    BY <1>1
  <2>3. \A r \in Statement : r = [kind |-> "check", holds |-> FALSE] <=> r.kind = "check" /\ ~r.holds
    BY DEF Statement
  <2> QED BY <2>1, <2>2, <2>3
<1>3. \A k \in Unmet(content) : \E i \in failing : k - 1 = Number(s, i)
  <2>1. ASSUME NEW k \in Unmet(content)
        PROVE  \E i \in failing : k - 1 = Number(s, i)
    <3>1. k \in 1..Len(c) /\ ~c[k].holds
      BY DEF Unmet
    <3>2. PICK i \in DOMAIN s : s[i].kind = "check" /\ k = Number(s, i) + 1
      BY <3>1, ChecksListed
    <3>3. c[k] = s[i]
      BY <3>2, ChecksListed
    <3> QED BY <1>2, <3>1, <3>2, <3>3
  <2> QED BY <2>1
<1>4. \A i \in failing : Number(s, i) + 1 \in Unmet(content)
  BY <1>2, ChecksListed DEF Unmet
<1> HIDE DEF s, failing
<1>5. {Name(f) : f \in Range(FailedChecks(owner, content))}
         = {<<owner, k - 1>> : k \in Unmet(content)}
  <2> DEFINE of(k) == [owner |-> owner, check_id |-> k - 1]
  <2>1. \A k \in Unmet(content) : Name(of(k)) = <<owner, k - 1>>
    BY DEF Name
  <2>2. Range(FailedChecks(owner, content)) = {of(k) : k \in Unmet(content)}
    BY FailuresListed
  <2> HIDE DEF of
  <2> QED BY <2>1, <2>2
<1>6. {<<owner, k - 1>> : k \in Unmet(content)} = {<<owner, Number(s, i)>> : i \in failing}
  <2>1. \A i \in failing : (Number(s, i) + 1) - 1 = Number(s, i)
    BY <1>2 DEF failing
  <2> QED BY <1>3, <1>4, <2>1
<1>7. FailingIn(owner, content) = {<<owner, Number(s, i)>> : i \in failing}
  BY DEF FailingIn, Number, s, failing
<1> QED BY <1>5, <1>6, <1>7

\* The blocks of the token of an authorizer.
LEMMA BlocksType ==
    ASSUME NEW a \in AuthorizerObject
    PROVE  Blocks(a) \in Seq(Content) /\ a.content \in Content
<1>1. a.token \in Token \cup {None} /\ a.content \in Content
  BY DEF AuthorizerObject
<1>2. << >> \in Seq(Content)
  OBVIOUS
<1> QED BY <1>1, <1>2 DEF Blocks, Token

\* The list of a verdict has each check that fails, once.
LEMMA AllFailuresNamed ==
    ASSUME NEW a \in AuthorizerObject
    PROVE  /\ AllFailedChecks(a) \in Seq(FailedCheck)
           /\ IsInjective(AllFailedChecks(a))
           /\ {Name(f) : f \in Range(AllFailedChecks(a))} = Failing(a)
<1> DEFINE bs == Blocks(a)
           own == FailedChecks(TheAuthorizer, a.content)
           of(b) == FailedChecks(b - 1, bs[b])
           lists == [b \in DOMAIN bs |-> of(b)]
<1>1. /\ bs \in Seq(Content) /\ Len(bs) \in Nat /\ DOMAIN bs = 1..Len(bs)
      /\ a.content \in Content
  BY BlocksType
<1>2. \A b \in 1..Len(bs) : bs[b] \in Content /\ b - 1 \in Owners /\ b - 1 \in Nat
  BY <1>1 DEF Owners
<1> HIDE DEF bs
<1>3. ASSUME NEW b \in 1..Len(bs)
      PROVE  /\ of(b) \in Seq(FailedCheck)
             /\ IsInjective(of(b))
             /\ \A f \in Range(of(b)) : f.owner = b - 1
             /\ {Name(f) : f \in Range(of(b))} = FailingIn(b - 1, bs[b])
  <2>1. Range(of(b)) = {[owner |-> b - 1, check_id |-> k - 1] : k \in Unmet(bs[b])}
    BY <1>2, FailuresListed
  <2>2. \A f \in Range(of(b)) : f.owner = b - 1
    BY <2>1
  <2> QED BY <1>2, <2>2, FailuresListed, FailuresNamed
<1>4. /\ own \in Seq(FailedCheck)
      /\ IsInjective(own)
      /\ \A f \in Range(own) : f.owner = TheAuthorizer
      /\ {Name(f) : f \in Range(own)} = FailingIn(TheAuthorizer, a.content)
  <2>0. TheAuthorizer \in Owners
    BY DEF Owners
  <2>1. Range(own) = {[owner |-> TheAuthorizer, check_id |-> k - 1] : k \in Unmet(a.content)}
    BY <1>1, <2>0, FailuresListed
  <2>2. \A f \in Range(own) : f.owner = TheAuthorizer
    BY <2>1
  <2> QED BY <1>1, <2>0, <2>2, FailuresListed, FailuresNamed
<1> HIDE DEF own, of
<1>5. /\ lists \in Seq(Seq(FailedCheck)) /\ Len(lists) = Len(bs)
      /\ \A b \in 1..Len(bs) : lists[b] = of(b)
  <2>1. lists \in [1..Len(bs) -> Seq(FailedCheck)]
    BY <1>1, <1>3
  <2> QED BY <1>1, <2>1, SeqDef
<1>6. AllFailedChecks(a) = own \o FlattenSeq(lists)
  BY DEF AllFailedChecks, own, of, bs
<1> HIDE DEF lists
<1>7. /\ FlattenSeq(lists) \in Seq(FailedCheck)
      /\ Range(FlattenSeq(lists)) = UNION {Range(lists[b]) : b \in 1..Len(lists)}
      /\ IsInjective(FlattenSeq(lists))
  <2>1. \A b \in 1..Len(lists) : IsInjective(lists[b])
    BY <1>3, <1>5
  <2>2. ASSUME NEW b \in 1..Len(lists), NEW d \in 1..Len(lists), b # d
        PROVE  Range(lists[b]) \cap Range(lists[d]) = {}
    <3>1. \A f \in Range(lists[b]) : f.owner = b - 1
      BY <1>3, <1>5
    <3>2. \A f \in Range(lists[d]) : f.owner = d - 1
      BY <1>3, <1>5
    <3>3. b - 1 # d - 1
      BY <2>2
    <3> QED BY <3>1, <3>2, <3>3
  <2> QED BY <1>5, <2>1, <2>2, FlattenType, FlattenRange
<1>8. Range(own) \cap Range(FlattenSeq(lists)) = {}
  <2>1. \A f \in Range(FlattenSeq(lists)) : f.owner \in Nat
    BY <1>2, <1>3, <1>5, <1>7
  <2> QED BY <1>4, <2>1, OwnerAssumption
<1>9. Range(AllFailedChecks(a)) = Range(own) \cup UNION {Range(of(b)) : b \in 1..Len(bs)}
  <2>1. Range(own \o FlattenSeq(lists)) = Range(own) \cup Range(FlattenSeq(lists))
    BY <1>4, <1>7, RangeOfConcat
  <2>2. UNION {Range(lists[b]) : b \in 1..Len(lists)} = UNION {Range(of(b)) : b \in 1..Len(bs)}
    BY <1>5
  <2> QED BY <1>6, <1>7, <2>1, <2>2
<1>10. {Name(f) : f \in Range(AllFailedChecks(a))}
          = FailingIn(TheAuthorizer, a.content)
               \cup UNION {FailingIn(b - 1, bs[b]) : b \in 1..Len(bs)}
  <2>1. ASSUME NEW x
        PROVE  x \in {Name(f) : f \in Range(AllFailedChecks(a))}
                  <=> \/ x \in {Name(f) : f \in Range(own)}
                      \/ \E b \in 1..Len(bs) : x \in {Name(f) : f \in Range(of(b))}
    BY <1>9
  <2>2. \A b \in 1..Len(bs) : {Name(f) : f \in Range(of(b))} = FailingIn(b - 1, bs[b])
    BY <1>3
  <2>3. {Name(f) : f \in Range(own)} = FailingIn(TheAuthorizer, a.content)
    BY <1>4
  <2>4. ASSUME NEW x
        PROVE  x \in {Name(f) : f \in Range(AllFailedChecks(a))}
                  <=> \/ x \in FailingIn(TheAuthorizer, a.content)
                      \/ \E b \in 1..Len(bs) : x \in FailingIn(b - 1, bs[b])
    BY <2>1, <2>2, <2>3
  <2> QED BY <2>4
<1>11. Failing(a) = FailingIn(TheAuthorizer, a.content)
                       \cup UNION {FailingIn(b - 1, bs[b]) : b \in 1..Len(bs)}
  BY <1>1 DEF Failing, bs
<1>12. AllFailedChecks(a) \in Seq(FailedCheck)
  BY <1>4, <1>6, <1>7, ConcatProperties
<1>13. IsInjective(AllFailedChecks(a))
  <2>1. IsInjective(own \o FlattenSeq(lists))
    BY <1>4, <1>7, <1>8, RangeOfConcat
  <2> QED BY <1>6, <2>1
<1> QED BY <1>10, <1>11, <1>12, <1>13

\* ... so it is as long as they are many.
LEMMA FailuresCounted ==
    ASSUME NEW a \in AuthorizerObject
    PROVE  Cardinality(Failing(a)) = Len(AllFailedChecks(a))
<1> DEFINE all == AllFailedChecks(a)
           n == Len(all)
           f == [i \in 1..n |-> Name(all[i])]
<1>1. /\ all \in Seq(FailedCheck) /\ IsInjective(all) /\ n \in Nat /\ DOMAIN all = 1..n
      /\ {Name(x) : x \in Range(all)} = Failing(a)
  BY AllFailuresNamed
<1> HIDE DEF all, n
<1>2. \A x, y \in FailedCheck : Name(x) = Name(y) => x = y
  BY DEF Name, FailedCheck
<1>3. \A i \in 1..n : all[i] \in FailedCheck
  BY <1>1
<1>4. Range(all) = {all[i] : i \in 1..n}
  BY <1>1 DEF Range
<1>5. f \in Bijection(1..n, Failing(a))
  <2>1. f \in [1..n -> Failing(a)]
    BY <1>1, <1>4
  <2>2. ASSUME NEW i \in 1..n, NEW j \in 1..n, f[i] = f[j]
        PROVE  i = j
    <3>1. all[i] = all[j]
      BY <1>2, <1>3, <2>2
    <3> QED BY <1>1, <3>1 DEF IsInjective
  <2>3. ASSUME NEW x \in Failing(a)
        PROVE  \E i \in 1..n : f[i] = x
    BY <1>1, <1>4
  <2> QED BY <2>1, <2>2, <2>3 DEF Bijection, Injection, Surjection, IsInjective
<1>6. ExistsBijection(1..n, Failing(a))
  BY <1>5 DEF ExistsBijection
<1> QED BY <1>1, <1>6, FS_CountingElements DEF all, n

\* What authorize fails with is an error, which has each check that failed if
\* the rules could be evaluated.
LEMMA VerdictType ==
    ASSUME NEW a \in AuthorizerObject
    PROVE  /\ Verdict(a) \in Error
           /\ ~FailsToEvaluate(a) /\ Verdict(a) # NoError
                 => Verdict(a).checks = AllFailedChecks(a)
<1> DEFINE all == AllFailedChecks(a)
<1>1. all \in Seq(FailedCheck) /\ << >> \in Seq(FailedCheck)
  BY AllFailuresNamed
<1> HIDE DEF all
<1>2. /\ Plain("execution") \in Error /\ NoError \in Error
      /\ [kind |-> "no_matching_policy", checks |-> all] \in Error
      /\ [kind |-> "unauthorized", checks |-> all] \in Error
  BY <1>1 DEF Plain, NoError, Error
<1>3. \/ FailsToEvaluate(a) /\ Verdict(a) = Plain("execution")
      \/ Verdict(a) = [kind |-> "no_matching_policy", checks |-> all]
      \/ Verdict(a) = [kind |-> "unauthorized", checks |-> all]
      \/ Verdict(a) = NoError
  BY DEF Verdict, all
<1> QED BY <1>2, <1>3 DEF all

-----------------------------------------------------------------------------
(* The types of the errors, and what they report.                              *)

\* The list that a thread reads is that of the authorizer that was judged.
ListsWereJudged ==
    \A t \in Threads : judged[t] # None => lastError[t].checks = AllFailedChecks(judged[t])

LEMMA ErrorsTypeStep ==
    ASSUME HeapOK, ErrorsOK, ListsWereJudged, ErrorStep
    PROVE  ErrorsOK' /\ ListsWereJudged'
<1> USE DEF ErrorsOK, ListsWereJudged
<1>1. CASE UNCHANGED <<lastError, cause, judged>>
  BY <1>1
<1>2. CASE \E t \in Threads, kind \in Reported : Fail(t, Plain(kind))
  <2>1. PICK t \in Threads, kind \in Reported : Fail(t, Plain(kind))
    BY <1>2
  <2>2. Plain(kind) \in Error
    <3>1. << >> \in Seq(FailedCheck)
      OBVIOUS
    <3> QED BY <3>1 DEF Reported, Plain, Error
  <2> QED BY <2>1, <2>2 DEF Fail, update_last_error
<1>3. CASE \E t \in Threads : FailSilently(t)
  BY <1>3 DEF FailSilently
<1>4. CASE \E t \in Threads, a \in Live("authorizer") : Judges(t, heap[a])
  <2>1. PICK t \in Threads, a \in Live("authorizer") : Judges(t, heap[a])
    BY <1>4
  <2>2. PICK authorizer \in AuthorizerObject : authorizer = heap[a]
    <3>1. a \in Handles /\ heap[a] \in Object /\ heap[a].kind = "authorizer"
      BY DEF Live, HeapOK
    <3> QED BY <3>1, ObjectOfKind
  <2>3. PICK verdict \in Error :
           /\ verdict = Verdict(authorizer)
           /\ ~FailsToEvaluate(authorizer) => verdict.checks = AllFailedChecks(authorizer)
    BY <2>1, <2>2, VerdictType DEF Judges
  <2>4. PICK judgment \in AuthorizerObject \cup {None} :
           /\ judgment = IF FailsToEvaluate(authorizer) THEN None ELSE authorizer
           /\ judgment # None => verdict.checks = AllFailedChecks(judgment)
    BY <2>3
  <2>5. /\ lastError' = [lastError EXCEPT ![t] = verdict]
        /\ cause' = [cause EXCEPT ![t] = verdict]
        /\ judged' = [judged EXCEPT ![t] = judgment]
    BY <2>1, <2>2, <2>3, <2>4 DEF Judges, update_last_error
  <2> QED BY <2>3, <2>4, <2>5
<1> QED BY <1>1, <1>2, <1>3, <1>4 DEF ErrorStep

ErrorTypes == ErrorsOK /\ ListsWereJudged /\ spent \in Nat

LEMMA ErrorTypesInvariant == Spec => []ErrorTypes
<1>1. Init => ErrorTypes
  <2>1. << >> \in Seq(FailedCheck)
    OBVIOUS
  <2> QED BY <2>1 DEF Init, ErrorTypes, ErrorsOK, ListsWereJudged, NoError, Plain, Error
<1>2. HeapOK /\ ErrorTypes /\ [Next]_vars => ErrorTypes'
  <2>1. HeapOK /\ ErrorTypes /\ Next => ErrorTypes'
    <3>1. ErrorStep /\ spent \in Nat => spent' \in Nat
      BY DEF ErrorStep
    <3> QED BY <3>1, NextIsErrorStep, ErrorsTypeStep DEF ErrorTypes
  <2>2. ErrorTypes /\ UNCHANGED vars => ErrorTypes'
    BY DEF ErrorTypes, ErrorsOK, ListsWereJudged, vars, code, history
  <2> QED BY <2>1, <2>2
<1> QED BY <1>1, <1>2, HeapTypeCorrect, PTL DEF Spec

\* Every variable of the C API holds a value of its type: each address an
\* object, each slot an error, each verdict a list of failed checks.
THEOREM CApiTypeCorrect == Spec => []TypeOK
<1>1. HeapOK /\ ErrorTypes => TypeOK
  BY DEF TypeOK, ErrorTypes
<1> QED BY <1>1, HeapTypeCorrect, ErrorTypesInvariant, PTL

\* The accessors of a refusal name each check that failed in the authorizer that
\* was judged, once and nothing else, as long as the thread's error is that
\* refusal, and none past the end of the list.
THEOREM AccessorsNameAll == Spec => []AccessorsNameTheFailedChecks
<1>1. ASSUME ErrorTypes, NEW t \in Threads, judged[t] # None
      PROVE  LET named(i) == <<IF error_check_is_authorizer(t, i) THEN TheAuthorizer
                                ELSE error_check_block_id(t, i), error_check_id(t, i)>>
                 indices  == 0..(error_check_count(t) - 1)
             IN  /\ {named(i) : i \in indices} = Failing(judged[t])
                 /\ Cardinality(Failing(judged[t])) = error_check_count(t)
                 /\ named(error_check_count(t)) = <<NoId, NoId>>
  <2> DEFINE all == Checks(t)
             n == Len(all)
             named(i) == <<IF error_check_is_authorizer(t, i) THEN TheAuthorizer
                           ELSE error_check_block_id(t, i), error_check_id(t, i)>>
  <2>1. judged[t] \in AuthorizerObject /\ all = AllFailedChecks(judged[t])
    BY <1>1 DEF ErrorTypes, ErrorsOK, ListsWereJudged, Checks
  <2>2. /\ all \in Seq(FailedCheck) /\ n \in Nat
        /\ {Name(f) : f \in Range(all)} = Failing(judged[t])
        /\ Cardinality(Failing(judged[t])) = n
    BY <2>1, AllFailuresNamed, FailuresCounted
  <2>3. error_check_count(t) = n
    BY DEF error_check_count
  <2>4. ASSUME NEW i \in 0..(n - 1)
        PROVE  i + 1 \in 1..n /\ named(i) = Name(all[i + 1])
    BY <2>2, <2>4 DEF error_check_is_authorizer, error_check_block_id, error_check_id, Name
  <2>5. named(n) = <<NoId, NoId>>
    BY <2>2 DEF error_check_is_authorizer, error_check_block_id, error_check_id
  <2> HIDE DEF all, named
  <2>6. Range(all) = {all[i + 1] : i \in 0..(n - 1)}
    <3>1. DOMAIN all = 1..n
      BY <2>2
    <3>2. \A m \in 1..n : m - 1 \in 0..(n - 1) /\ (m - 1) + 1 = m
      BY <2>2
    <3> QED BY <2>4, <3>1, <3>2 DEF Range
  <2>7. {named(i) : i \in 0..(n - 1)} = Failing(judged[t])
    BY <2>2, <2>4, <2>6
  <2> QED BY <2>2, <2>3, <2>5, <2>7 DEF named
<1>2. ErrorTypes => AccessorsNameTheFailedChecks
  BY <1>1 DEF AccessorsNameTheFailedChecks
<1> QED BY <1>2, ErrorTypesInvariant, PTL
==============================================================================
