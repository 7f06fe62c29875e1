------------------------------ MODULE BulkWrite ------------------------------
(***************************************************************************)
(* OpenFgaClient.write (src/client.ts:507-589), with the retry loop of     *)
(* each of its API calls (HttpRequest), the pool that runs its chunks      *)
(* (AsyncPool), and a server that keeps the relationship tuples.           *)
(*                                                                         *)
(* In transaction mode the call is one request.  Otherwise the writes, and *)
(* after them the deletes, are cut into chunks, each of them a transaction *)
(* of its own, and the pool runs at most MaxParallelRequests at a time.    *)
(* A chunk is a nested call of write(), which looks at the ids again: the  *)
(* application may have written to them, in the client or in the options.  *)
(*                                                                         *)
(* The network is the environment: an attempt may be served, be served and *)
(* its answer lost, never arrive, or be given up by the client (timeout)   *)
(* and reach the server later.                                             *)
(***************************************************************************)
EXTENDS SdkErrors, Chunks, Sequences, FiniteSets, Functions

CONSTANTS
  Tuple,               \* tuple keys
  Writes, Deletes,     \* body.writes and body.deletes, sequences of tuples
  MaxPerChunk,         \* options.transaction.maxPerChunk
  MaxParallelRequests, \* options.transaction.maxParallelRequests
  Modes,               \* the values of options.transaction.disable considered
  Conflicts,           \* the conflict options considered
  Stores,              \* the tuples the store may hold before the call
  Ids,                 \* the store and model ids getStoreId and getAuthorizationModelId
                       \* may find, Unset when there is none
  Malformed,           \* ids that are no ULID
  Rejections,          \* failures the server or a gateway answers without acting
  TokenErrors, RetryParams, Unset,
  RetryMaxAllowedNumber, DefaultMinWaitInMs, MaxBackoffTime,
  RetryHeaderMaxAllowableDuration

Policy == {"error", "ignore"}
ASSUME BulkWriteAssumption ==
  /\ Writes \in Seq(Tuple) /\ Deletes \in Seq(Tuple)
  /\ MaxPerChunk \in Nat \ {0} /\ MaxParallelRequests \in Int
  /\ Modes \subseteq BOOLEAN
  /\ Conflicts \subseteq [onDuplicate : Policy, onMissing : Policy]
  /\ Stores \subseteq SUBSET Tuple
  /\ Unset \notin Malformed

-----------------------------------------------------------------------------
\* Requests

WriteChunks  == ChunkArray(Writes, MaxPerChunk)
DeleteChunks == ChunkArray(Deletes, MaxPerChunk)

\* One request for the transaction, one for every chunk: writes first.
Transaction    == 0
WriteRequests  == 1 .. Len(WriteChunks)
DeleteRequests == (Len(WriteChunks) + 1) .. (Len(WriteChunks) + Len(DeleteChunks))
Requests       == {Transaction} \cup WriteRequests \cup DeleteRequests

\* The body of each: the tuples to write and the tuples to delete.
Body(r) ==
  IF r = Transaction THEN [writes |-> Writes, deletes |-> Deletes]
  ELSE IF r \in WriteRequests THEN [writes |-> WriteChunks[r], deletes |-> <<>>]
  ELSE [writes |-> <<>>, deletes |-> DeleteChunks[r - Len(WriteChunks)]]

NetworkError == [axios |-> TRUE, status |-> 0, retryAfter |-> 0]
InvalidWrite == [axios |-> TRUE, status |-> 400, retryAfter |-> 0]
Failures     == Rejections \cup {NetworkError, InvalidWrite}

VARIABLES
  disabled,  \* options.transaction.disable
  conflict,  \* options.conflict
  stage,     \* where write() is
  thrown,    \* what it throws
  ids,       \* options.storeId || client.storeId, and the same of authorizationModelId
  collected, \* the requests whose answers write() has collected, in order
  store,     \* the server's tuples
  late,      \* attempts given up by the client that may still arrive
  accepted,  \* requests some attempt of which the server has carried out (history)
  \* the pool
  waiting, executing, yielded, generator,
  \* the retry loops
  configured, phase, overridden, maxRetry, minWaitInMs, iterationCount, answer,
  delay, hinted, error

H == INSTANCE HttpRequest WITH Request <- Requests
ASSUME LoopAssumption == H!ParamsAssumption /\ H!FailuresAssumption /\ H!LimitsAssumption

\* Only the server refuses a write as invalid: a gateway's failures have other statuses
\* (common.ts:216), and an API error of the token issuer another name (credentials.ts:198).
ASSUME RefusalAssumption ==
  /\ \A err \in Rejections : err.status \notin {400, 422}
  /\ \A e \in TokenErrors : e.name # "FgaApiValidationError"

\* Mutant: every failure ends the call.
AnyErrorEndsTheCall(e) == InstanceOf(e, "FgaError")

\* The catch handlers of the chunks: which errors they throw on.
EndsTheCall(e) == InstanceOf(e, "FgaApiAuthenticationError")

\* What has become of the promise the pool was given for a request.
Outcome ==
  [r \in Requests |->
     IF phase[r] = "rejected" /\ EndsTheCall(error[r]) THEN "rejected"
     ELSE IF phase[r] \in {"resolved", "rejected"} THEN "fulfilled"
     ELSE "pending"]

Pool == INSTANCE AsyncPool
          WITH Item <- Requests, Concurrency <- MaxParallelRequests, outcome <- Outcome

poolVars   == <<waiting, executing, yielded, generator>>
loopVars   == <<configured, phase, overridden, maxRetry, minWaitInMs,
                iterationCount, answer, delay, hinted, error>>
serverVars == <<store, late, accepted>>
callVars   == <<disabled, conflict, stage, collected, thrown>>
vars       == <<callVars, ids, serverVars, poolVars, loopVars>>

-----------------------------------------------------------------------------
\* The server: one atomic transaction per request.

Repeats(s) == \E j, k \in DOMAIN s : j # k /\ s[j] = s[k]

\* Mutant: the conflict options do not reach the chunks.
ConflictOfTransactionOnly(r) ==
  IF r = Transaction THEN conflict ELSE [onDuplicate |-> "error", onMissing |-> "error"]

\* on_duplicate and on_missing in the body of a request.
ConflictOf(r) == conflict

Acceptable(r) ==
  LET b == Body(r)
  IN  /\ ~Repeats(b.writes \o b.deletes)
      /\ ConflictOf(r).onDuplicate = "error" => Range(b.writes) \cap store = {}
      /\ ConflictOf(r).onMissing = "error"   => Range(b.deletes) \subseteq store

\* The server carries a request out if it can.
Apply(r) ==
  IF Acceptable(r)
  THEN /\ store'    = (store \cup Range(Body(r).writes)) \ Range(Body(r).deletes)
       /\ accepted' = accepted \cup {r}
  ELSE UNCHANGED <<store, accepted>>

-----------------------------------------------------------------------------
\* write()

Init ==
  /\ disabled \in Modes
  /\ conflict \in Conflicts
  /\ stage = "called"
  /\ collected = <<>>
  /\ thrown = NoError
  /\ ids \in Ids
  /\ store \in Stores
  /\ late = {}
  /\ accepted = {}
  /\ Pool!Fresh(<<>>)
  /\ H!Init

\* When getStoreId and getAuthorizationModelId throw: a model id may be missing.
ThrowsOnStore == ids.storeId \in Malformed \cup {Unset}
ThrowsOnModel == ids.authorizationModelId \in Malformed

\* Mutant: one too many.
AsSequenceTooLong(first, last) == [k \in 1 .. (last - first + 2) |-> first + k - 1]

AsSequence(first, last) == [k \in 1 .. (last - first + 1) |-> first + k - 1]

\* write() throws before anything is sent: in either mode for the model id, in
\* transaction mode for the store id as well.
RefuseIds ==
  /\ stage = "called"
  /\ ThrowsOnModel \/ (~disabled /\ ThrowsOnStore)
  /\ stage'  = "rejected"
  /\ thrown' = ErrorOf("FgaValidationError")
  /\ UNCHANGED <<disabled, conflict, collected, ids, serverVars, poolVars, loopVars>>

\* Transaction mode: the one request is made.
StartTransaction ==
  /\ stage = "called" /\ ~disabled
  /\ ~ThrowsOnModel /\ ~ThrowsOnStore
  /\ stage' = "transaction"
  /\ H!Call(Transaction, Unset)
  /\ UNCHANGED <<disabled, conflict, collected, thrown, ids, serverVars, poolVars>>

\* It has settled: write() returns or throws.
EndTransaction ==
  /\ stage = "transaction" /\ H!Settled(Transaction)
  /\ stage' = IF phase[Transaction] = "resolved" THEN "resolved" ELSE "rejected"
  /\ thrown' = error[Transaction]
  /\ collected' = <<Transaction>>
  /\ UNCHANGED <<disabled, conflict, ids, serverVars, poolVars, loopVars>>

\* Otherwise: the loop over the pool of writes ...
StartWrites ==
  /\ stage = "called" /\ disabled
  /\ ~ThrowsOnModel
  /\ stage' = "writes"
  /\ waiting' = AsSequence(1, Len(WriteChunks))
  /\ executing' = {} /\ yielded' = <<>> /\ generator' = "running"
  /\ UNCHANGED <<disabled, conflict, collected, thrown, ids, serverVars, loopVars>>

\* Mutant: the deletes do not wait for the pool of writes to end.
NextStageEarly ==
  /\ stage \in {"writes", "deletes"} /\ waiting = <<>>
  /\ stage = "deletes" => generator = "done"
  /\ collected' = collected \o yielded
  /\ IF stage = "writes"
     THEN /\ stage' = "deletes"
          /\ waiting' = AsSequence(Len(WriteChunks) + 1, Len(WriteChunks) + Len(DeleteChunks))
          /\ executing' = executing /\ yielded' = <<>> /\ generator' = "running"
     ELSE /\ stage' = "resolved"
          /\ UNCHANGED poolVars
  /\ UNCHANGED <<disabled, conflict, thrown, ids, serverVars, loopVars>>

\* ... and when it has ended, the loop over the pool of deletes, then the result.
NextStage ==
  /\ stage \in {"writes", "deletes"} /\ generator = "done"
  /\ collected' = collected \o yielded
  /\ IF stage = "writes"
     THEN /\ stage' = "deletes"
          /\ waiting' = AsSequence(Len(WriteChunks) + 1, Len(WriteChunks) + Len(DeleteChunks))
          /\ executing' = {} /\ yielded' = <<>> /\ generator' = "running"
     ELSE /\ stage' = "resolved"
          /\ UNCHANGED poolVars
  /\ UNCHANGED <<disabled, conflict, thrown, ids, serverVars, loopVars>>

\* The nested write() of a chunk throws for its ids: a promise rejected at once.
RefuseChunk(r) ==
  /\ phase[r] = "idle"
  /\ phase' = [phase EXCEPT ![r] = "rejected"]
  /\ error' = [error EXCEPT ![r] = ErrorOf("FgaValidationError")]
  /\ UNCHANGED <<configured, overridden, maxRetry, minWaitInMs, iterationCount, answer,
                 delay, hinted>>

\* The pool starts a chunk: writeTuples or deleteTuples, in transaction mode.
LaunchChunk ==
  /\ stage \in {"writes", "deletes"}
  /\ Pool!Launch
  /\ IF ThrowsOnModel \/ ThrowsOnStore THEN RefuseChunk(Head(waiting))
     ELSE H!Call(Head(waiting), Unset)
  /\ UNCHANGED <<callVars, ids, serverVars>>

\* The pool takes a chunk that has settled, or ends ...
PoolStep ==
  /\ stage \in {"writes", "deletes"}
  /\ (\E r \in Requests : Pool!Yield(r)) \/ Pool!Finish
  /\ UNCHANGED <<callVars, ids, serverVars, loopVars>>

\* ... or throws the error of one, and write() with it.
Abort(r) ==
  /\ stage \in {"writes", "deletes"}
  /\ Pool!Throw(r)
  /\ stage'  = "rejected"
  /\ thrown' = error[r]
  /\ UNCHANGED <<disabled, conflict, collected, ids, serverVars, loopVars>>

\* The application writes to the ids while the chunks are run.
SetIds ==
  /\ stage \in {"writes", "deletes"}
  /\ ids' \in Ids \ {ids}
  /\ UNCHANGED <<callVars, serverVars, poolVars, loopVars>>

-----------------------------------------------------------------------------
\* The requests on the network

\* The attempt ends in a failure the client sees.
AttemptFails(r, err) == H!Throw(r, err) \/ H!Sleep(r, err)

\* It is served and answered.
Serve(r) ==
  /\ Apply(r)
  /\ IF Acceptable(r) THEN H!Succeed(r) ELSE AttemptFails(r, InvalidWrite)
  /\ UNCHANGED <<callVars, ids, poolVars, late>>

\* It is served and the answer lost.
LoseAnswer(r) ==
  /\ Apply(r)
  /\ AttemptFails(r, NetworkError)
  /\ UNCHANGED <<callVars, ids, poolVars, late>>

\* It is turned away.
TurnAway(r) ==
  /\ \E err \in Rejections : AttemptFails(r, err)
  /\ UNCHANGED <<callVars, ids, poolVars, serverVars>>

\* It is lost, or given up by the client and still on its way.
LoseAttempt(r) ==
  /\ AttemptFails(r, NetworkError)
  /\ late' \in {late, late \cup {r}}
  /\ UNCHANGED <<callVars, ids, poolVars, store, accepted>>

\* It arrives after all; nobody waits for the answer.
ArriveLate(r) ==
  /\ r \in late
  /\ late' = late \ {r}
  /\ Apply(r)
  /\ UNCHANGED <<callVars, ids, poolVars, loopVars>>

Attempt(r) == Serve(r) \/ LoseAnswer(r) \/ TurnAway(r) \/ LoseAttempt(r)

LoopStep(r) == (H!Authorize(r) \/ H!Wake(r)) /\ UNCHANGED <<callVars, ids, serverVars, poolVars>>

Client ==
  \/ RefuseIds \/ StartTransaction \/ EndTransaction
  \/ StartWrites \/ NextStage \/ LaunchChunk \/ PoolStep
  \/ \E r \in Requests : Abort(r)

Next ==
  \/ Client
  \/ SetIds
  \/ \E r \in Requests : LoopStep(r) \/ Attempt(r) \/ ArriveLate(r)

\* The client's own steps are taken; a token exchange, a timer and an attempt end.
Fairness == WF_vars(Client) /\ \A r \in Requests : WF_vars(LoopStep(r)) /\ WF_vars(Attempt(r))

Spec     == Init /\ [][Next]_vars
FairSpec == Spec /\ Fairness
-----------------------------------------------------------------------------
Begun(r)     == phase[r] # "idle"
Succeeded(r) == phase[r] = "resolved"
AuthenticationFailed(r) ==
  phase[r] = "rejected" /\ error[r].class = "FgaApiAuthenticationError"

\* Every variable stays in its range (the locals of write(), client.ts:508-588).
TypeOK ==
  /\ disabled \in BOOLEAN
  /\ conflict \in Conflicts
  /\ stage \in {"called", "transaction", "writes", "deletes", "resolved", "rejected"}
  /\ collected \in Seq(Requests)
  /\ thrown \in ErrorObject \cup {NoError}
  /\ ids \in Ids
  /\ store \subseteq Tuple
  /\ late \subseteq Requests
  /\ accepted \subseteq Requests
  /\ Pool!TypeOK
  /\ H!TypeOK

\* A tuple is reported as SUCCESS only if the server has carried out an attempt of
\* its request, whatever was retried (client.ts:532-542, 564).
SuccessWasAccepted == \A r \in Requests : Succeeded(r) => r \in accepted

\* When write() returns, every tuple passed in is in the result, each request's once,
\* and all calls to the API are over (client.ts:548-588, utils/chunk-array.ts).
ResultIsComplete ==
  stage = "resolved" =>
    /\ \A j, k \in DOMAIN collected : collected[j] = collected[k] => j = k
    /\ Range(Writes)  = UNION {Range(Body(r).writes) : r \in Range(collected)}
    /\ Range(Deletes) = UNION {Range(Body(r).deletes) : r \in Range(collected)}
    /\ \A r \in Requests : Begun(r) => H!Settled(r)

\* A tuple whose delete succeeded is there at the end only if some write of it was
\* sent, and sent twice or given up: an abandoned attempt that arrived after the delete
\* (client.ts:549-586, common.ts:272).
DeletedTupleReturnsOnlyLate ==
  stage = "resolved" /\ disabled =>
    \A d \in DeleteRequests : Succeeded(d) =>
      \A t \in Range(Body(d).deletes) \cap store :
        \E w \in WriteRequests :
          /\ t \in Range(Body(w).writes)
          /\ iterationCount[w] > 1 \/ (iterationCount[w] = 1 /\ ~Succeeded(w))

\* Outside transaction mode write() throws for two reasons only: the model id it is called
\* with is malformed, and then no chunk is begun; or the authentication of a chunk
\* failed, and then it throws that error.  Every other failure, an id the application
\* spoils while the chunks are run included, is reported for its own chunk; a failed
\* authentication never is (client.ts:514, 551-563, 571-583).
OnlyAuthenticationThrows ==
  disabled =>
    /\ stage = "rejected" =>
         \/ thrown = ErrorOf("FgaValidationError") /\ ~\E r \in Requests : Begun(r)
         \/ \E r \in Requests : AuthenticationFailed(r) /\ thrown = error[r]
    /\ stage = "resolved" => ~\E r \in Requests : AuthenticationFailed(r)

\* With both conflict options set to ignore, a lost answer is harmless: no retry makes
\* the server refuse a request it has carried out (client.ts:508, 523, 529, 551).
IgnoreMakesRetrySafe ==
  conflict = [onDuplicate |-> "ignore", onMissing |-> "ignore"] =>
    \A r \in Requests :
      ~Repeats(Body(r).writes \o Body(r).deletes) => error[r].name # "FgaApiValidationError"

\* write() returns or throws.
WriteSettles == stage # "called" ~> stage \in {"resolved", "rejected"}

-----------------------------------------------------------------------------
\* tests/client.test.ts:415: "should throw an error if auth fails in not transaction
\* mode".  What does not happen when the token issuer answers with an API error that
\* credentials.ts:198 renames.
DocumentedAuthFailureThrows ==
  stage = "resolved" /\ disabled =>
    ~\E r \in Requests : phase[r] = "rejected" /\ error[r].name = "FgaApiAuthenticationError"
=============================================================================
