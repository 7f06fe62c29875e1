------------------------------ MODULE BatchCheck ------------------------------
(***************************************************************************)
(* OpenFgaClient.batchCheck (src/client.ts:725-800): the checks are given  *)
(* correlation ids, cut into batches, sent by the pool (AsyncPool), and    *)
(* the answers, which come back under the ids, are matched to the checks.  *)
(*                                                                         *)
(* A check is an object of the application's: its correlationId is a field *)
(* of that object, which batchCheck writes to, and one object may be       *)
(* passed twice.  A batch is a request of the retry loop: it is answered,  *)
(* or rejected (also at once, when the store id cannot be used).           *)
(***************************************************************************)
EXTENDS SdkErrors, Chunks, Sequences, FiniteSets, Functions, SequencesExt

CONSTANTS
  Object,              \* the check objects
  Bodies,              \* body.checks, sequences of them
  GivenId,             \* correlation ids the application makes up
  MaxBatchSize, MaxParallelRequests,
  MaxBatches,          \* a bound on the batches of one call
  HasRandomness,       \* whether crypto has randomUUID or randomBytes: {TRUE, FALSE}
  ModelIds,            \* authorization model ids
  Errors,              \* the errors a batch can be rejected with
  Unset                \* undefined

ASSUME BatchCheckAssumption ==
  /\ Bodies \subseteq Seq(Object)
  /\ MaxBatchSize \in Nat \ {0} /\ MaxParallelRequests \in Int /\ MaxBatches \in Nat
  /\ \A b \in Bodies : Len(b) <= MaxBatches * MaxBatchSize
  /\ HasRandomness \subseteq BOOLEAN
  /\ Errors \subseteq ErrorObject
  /\ Unset \notin ModelIds

\* Correlation ids: the application's, the random one an object would be given, and
\* the id used when there is no source of random numbers.
Given(id) == <<"given", id>>
Random(o) == <<"random", o>>
Fallback  == <<"fallback">>
NoId      == <<>>
Id        == {Given(id) : id \in GivenId} \cup {Random(o) : o \in Object} \cup {Fallback}
Verdict   == {"allowed", "denied", "error"}
Batch     == 1 .. MaxBatches

VARIABLES
  checks, batchModelId, clientModelId, randomness, \* the call and its surroundings
  correlationId, \* the field of each object
  givenId,       \* what it was before the call
  stage,         \* called, checking, resolved or rejected
  transformed,   \* the items prepared so far: object and id
  batches,       \* the same, cut
  results, thrown,
  \* the batch requests
  promise,       \* none, pending, fulfilled or rejected
  sentModelId,   \* authorization_model_id in the body
  answer,        \* the verdict for each id in the response
  error,
  \* the pool
  waiting, executing, yielded, generator

poolVars    == <<waiting, executing, yielded, generator>>
requestVars == <<promise, sentModelId, answer, error>>
inputVars   == <<checks, batchModelId, clientModelId, randomness, givenId>>
vars == <<inputVars, correlationId, stage, transformed, batches, results, thrown,
          requestVars, poolVars>>

Outcome == [b \in Batch |-> IF promise[b] \in {"none", "pending"} THEN "pending" ELSE promise[b]]

Pool == INSTANCE AsyncPool
          WITH Item <- Batch, Concurrency <- MaxParallelRequests, outcome <- Outcome

-----------------------------------------------------------------------------
\* correlationIdToCheck.get(id)
CheckOf(id) == LET k == CHOOSE j \in DOMAIN transformed : transformed[j].id = id
               IN  transformed[k].object
Prepared(id) == \E k \in DOMAIN transformed : transformed[k].id = id

\* Mutants: an id is never random; there is no fallback.
NeverRandom(o)     == IF correlationId[o] # NoId THEN correlationId[o] ELSE Fallback
NoFallback(o)      == IF correlationId[o] = NoId /\ randomness THEN Random(o) ELSE correlationId[o]

\* check.correlationId, or a new one.
IdOf(o) ==
  IF correlationId[o] # NoId THEN correlationId[o]
  ELSE IF randomness THEN Random(o)
  ELSE Fallback

Init ==
  /\ checks \in Bodies
  /\ batchModelId \in ModelIds \cup {Unset} /\ clientModelId \in ModelIds \cup {Unset}
  /\ randomness \in HasRandomness
  /\ givenId \in [Object -> {Given(id) : id \in GivenId} \cup {NoId}]
  /\ correlationId = givenId
  /\ stage = "called"
  /\ transformed = <<>> /\ batches = <<>> /\ results = <<>> /\ thrown = NoError
  /\ promise     = [b \in Batch |-> "none"]
  /\ sentModelId = [b \in Batch |-> Unset]
  /\ answer      = [b \in Batch |-> <<>>]
  /\ error       = [b \in Batch |-> NoError]
  /\ Pool!Fresh(<<>>)

\* Mutant: the ids are not compared.
PrepareUncompared ==
  /\ stage = "called" /\ Len(transformed) < Len(checks)
  /\ LET o == checks[Len(transformed) + 1]
     IN  /\ correlationId' = [correlationId EXCEPT ![o] = IdOf(o)]
         /\ transformed'   = Append(transformed, [object |-> o, id |-> IdOf(o)])
  /\ UNCHANGED <<inputVars, stage, thrown, batches, results, requestVars, poolVars>>

\* One turn of the loop over body.checks: give it an id, compare, transform.  The
\* loop runs without interruption; its turns are steps of their own for the sake of
\* the specification, and nothing else is enabled between them.
Prepare ==
  /\ stage = "called" /\ Len(transformed) < Len(checks)
  /\ LET o  == checks[Len(transformed) + 1]
         id == IdOf(o)
     IN  /\ correlationId' = [correlationId EXCEPT ![o] = id]
         /\ IF Prepared(id)
            THEN /\ stage' = "rejected" /\ thrown' = ErrorOf("FgaValidationError")
                 /\ UNCHANGED transformed
            ELSE /\ transformed' = Append(transformed, [object |-> o, id |-> id])
                 /\ UNCHANGED <<stage, thrown>>
  /\ UNCHANGED <<inputVars, batches, results, requestVars, poolVars>>

\* The batches are cut and the pool is made.
StartBatches ==
  /\ stage = "called" /\ Len(transformed) = Len(checks)
  /\ stage'   = "checking"
  /\ batches' = ChunkArray(transformed, MaxBatchSize)
  /\ waiting' = [b \in 1 .. Len(ChunkArray(transformed, MaxBatchSize)) |-> b]
  /\ UNCHANGED <<inputVars, correlationId, transformed, results, thrown, requestVars,
                 executing, yielded, generator>>

\* The pool starts a batch: singleBatchCheck.
LaunchBatch ==
  /\ stage = "checking"
  /\ Pool!Launch
  /\ LET b == Head(waiting)
     IN  /\ promise'     = [promise EXCEPT ![b] = "pending"]
         /\ sentModelId' = [sentModelId EXCEPT ![b] = batchModelId]
  /\ UNCHANGED <<inputVars, correlationId, stage, transformed, batches, results, thrown,
                 answer, error>>

\* The ids of a response that a check is known for.
KnownIdsIn(b) == {id \in DOMAIN answer[b] : Prepared(id)}

\* Mutant: the answers are matched by their place in the batch.
EntryByPlace(b, id) ==
  LET ids == SetToSeq(KnownIdsIn(b))
      k   == CHOOSE j \in DOMAIN ids : ids[j] = id
  IN  [request |-> batches[b][k].object, correlationId |-> id, verdict |-> answer[b][id]]

\* The result for an entry of the response of a batch.
Entry(b, id) ==
  [request |-> CheckOf(id), correlationId |-> id, verdict |-> answer[b][id]]

\* The loop takes a response; the order of its entries is of no importance.
Collect(b) ==
  /\ stage = "checking"
  /\ Pool!Yield(b)
  /\ LET ids == SetToSeq(KnownIdsIn(b))
     IN  results' = results \o [k \in DOMAIN ids |-> Entry(b, ids[k])]
  /\ UNCHANGED <<inputVars, correlationId, stage, transformed, batches, thrown, requestVars>>

\* A batch was rejected, with whatever error: the call throws it.
Abort(b) ==
  /\ stage = "checking"
  /\ Pool!Throw(b)
  /\ stage' = "rejected" /\ thrown' = error[b]
  /\ UNCHANGED <<inputVars, correlationId, transformed, batches, results, requestVars>>

Return ==
  /\ stage = "checking"
  /\ Pool!Finish
  /\ stage' = "resolved"
  /\ UNCHANGED <<inputVars, correlationId, transformed, batches, results, thrown, requestVars>>

-----------------------------------------------------------------------------
IdsOf(b) == {batches[b][k].id : k \in DOMAIN batches[b]}

\* Ids nothing was asked about.
Strays == {id \in Id : ~Prepared(id)}

\* The server answers with a verdict for each id of the batch; it may leave ids out and
\* may make one up ...
Respond(b) ==
  /\ promise[b] = "pending"
  /\ promise' = [promise EXCEPT ![b] = "fulfilled"]
  /\ \E left \in SUBSET IdsOf(b), more \in {{}, Strays} :
       \E verdicts \in [left \cup more -> Verdict] :
         /\ \A id \in more : verdicts[id] = "allowed"
         /\ answer' = [answer EXCEPT ![b] = verdicts]
  /\ UNCHANGED <<inputVars, correlationId, stage, transformed, batches, results, thrown,
                 sentModelId, error, poolVars>>

\* ... or the request fails.
Fail(b) ==
  /\ promise[b] = "pending"
  /\ promise' = [promise EXCEPT ![b] = "rejected"]
  /\ \E e \in Errors : error' = [error EXCEPT ![b] = e]
  /\ UNCHANGED <<inputVars, correlationId, stage, transformed, batches, results, thrown,
                 sentModelId, answer, poolVars>>

Client ==
  \/ Prepare \/ StartBatches \/ LaunchBatch \/ Return
  \/ \E b \in Batch : Collect(b) \/ Abort(b)

Settle(b) == Respond(b) \/ Fail(b)

Next == Client \/ \E b \in Batch : Settle(b)

Spec == Init /\ [][Next]_vars
-----------------------------------------------------------------------------
\* Every variable stays in its range (the locals of client.ts:725-800).
TypeOK ==
  /\ correlationId \in [Object -> Id \cup {NoId}]
  /\ stage \in {"called", "checking", "resolved", "rejected"}
  /\ transformed \in Seq([object : Object, id : Id])
  /\ batches \in Seq(Seq([object : Object, id : Id]))
  /\ results \in Seq([request : Object, correlationId : Id, verdict : Verdict])
  /\ thrown \in ErrorObject \cup {NoError}
  /\ promise \in [Batch -> {"none", "pending", "fulfilled", "rejected"}]
  /\ sentModelId \in [Batch -> ModelIds \cup {Unset}]
  /\ \A b \in Batch : DOMAIN answer[b] \subseteq Id /\ Range(answer[b]) \subseteq Verdict
  /\ error \in [Batch -> ErrorObject \cup {NoError}]
  /\ Pool!TypeOK

\* When batchCheck returns, each check has exactly one result, with the answer the server
\* gave to its id, in whatever order the batches were answered -- unless the response of
\* its batch has left it out: then it has none, and nothing tells the application.  What
\* the server has made up is nobody's result (client.ts:741-799).
EveryCheckIsAnswered ==
  stage = "resolved" =>
    /\ \A k \in DOMAIN checks :
         LET id    == correlationId[checks[k]]
             given == {answer[b][id] : b \in {c \in Batch : id \in DOMAIN answer[c]}}
         IN  {results[j].verdict : j \in {i \in DOMAIN results :
                 results[i].request = checks[k] /\ results[i].correlationId = id}} = given
    /\ \A i, j \in DOMAIN results : results[i].request = results[j].request => i = j
    /\ \A j \in DOMAIN results : results[j].request \in Range(checks)

\* Duplicate ids, and nothing else, are refused: no two items that are sent, in one
\* batch or in two, have the same id, and a call is refused before anything is sent only
\* for what the application did, giving one id to two checks or passing one object
\* twice; ids the client makes up never collide as long as there is a source of random
\* numbers (client.ts:743-752).
OnlyDuplicatesAreRefused ==
  /\ \A b, c \in Batch : promise[b] # "none" /\ promise[c] # "none" =>
       \A j \in DOMAIN batches[b], k \in DOMAIN batches[c] :
         batches[b][j].id = batches[c][k].id => b = c /\ j = k
  /\ stage = "rejected" /\ (\A b \in Batch : promise[b] = "none") =>
       \/ ~randomness
       \/ \E j, k \in DOMAIN checks :
            j # k /\ (checks[j] = checks[k] \/
                      (givenId[checks[j]] # NoId /\ givenId[checks[j]] = givenId[checks[k]]))

-----------------------------------------------------------------------------
\* client.ts:718: options.authorizationModelId "Overrides the authorization model id in
\* the configuration."  The one in the configuration is never sent (client.ts:774).
DocumentedModelId ==
  \A b \in Batch : promise[b] # "none" =>
    sentModelId[b] = IF batchModelId # Unset THEN batchModelId ELSE clientModelId
=============================================================================
