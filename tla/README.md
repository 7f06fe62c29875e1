# A TLA+ model of the OpenFGA JavaScript SDK

The SDK is a client of the OpenFGA API: an application calls a method, the SDK
sends HTTP requests, repeats them when they fail, and returns or throws. The
modules here model what happens between the call and its settlement: the
configuration it is validated against, the headers and the token it is sent with,
the retry loop, the bulk methods with their pool of requests, what is measured, and
the server and network around them. Paths are relative to `src/`.

## 1. Inventory

| Part | State it keeps | Operations | Hard to get right |
|---|---|---|---|
| HTTP retry loop, `common.ts` | locals of each call: `iterationCount`, the attempt's outcome, the wait | `createRequestFunction`, `attemptHttpRequest`, `checkIfRetryableError`, `parseRetryAfterHeader`, backoff | two separate bounds on the attempts (223, 274), waits at their boundaries, a request repeated that was carried out |
| Errors, `errors.ts` | none | one class per status | the class decides what is repeated and what ends a bulk call; one class has another superclass than its comment says |
| Credentials, `credentials/` | `accessToken`, `accessTokenExpiryDate`, shared by all calls | `getAccessTokenHeader`, `refreshAccessToken` | exchanges overlap; answers come out of order; the date is counted from the receipt; failures are renamed |
| Client, `client.ts` | `storeId`, `authorizationModelId` (mutable) | one method per endpoint; `write`, `clientBatchCheck`, `batchCheck`, `listRelations` on top | several requests of one call in flight; partial failure; collection in order of completion; objects of the caller written to |
| Pool, `tiny-async-pool` (external) | items waiting, executing, yielded | `asyncPool(limit, items, fn)` | the limit, and what is left running when it throws |
| Chunking, `utils/chunk-array.ts` | none | `chunkArray` | the last chunk; a size of zero |
| API endpoints, `api.ts`, `base.ts` | none | one request per endpoint | required parameters, path, query and body of 17 endpoints; what a retry of each does twice |
| Configuration, `configuration.ts`, `validation.ts` | the Configuration object (mutable, shared) | `isValid`, before each call | it is checked and read at different times |
| Headers, `utils/`, `client.ts` | the caller's `options.headers` | `setHeaderIfNotSet`, the copy each request takes, the token put into it | two calls sharing an options object; the token of one request and the object of several |
| Telemetry, `telemetry/` | configuration of the attributes | recording a call and an exchange | runs between a response and its delivery |
| Types, `apiModel.ts`, `credentials/types.ts` | none | none | none |

How they interact. A client method calls an endpoint of `api.ts`, which builds a
request and hands it to `createRequestFunction`. That checks the configuration,
takes the retry parameters, asks the credentials for a header (which may exchange
credentials, through the same `attemptHttpRequest`) and runs the loop. The bulk
methods give `asyncPool` a function that calls a client method for each chunk,
turn most failures into results, and rethrow `FgaApiAuthenticationError`. What is
shared between concurrent calls is the Configuration object, the two token
fields, the ids of the client, and whatever objects the application passes in.

What makes each part correct:

- the loop sends at most `maxRetry + 1` attempts, gives up on a retryable failure
  only then, never repeats anything else, never resolves without a response,
  waits within the bounds of the wait's source, and settles;
- the token and its date come from one answer; a caller that waited gets its own
  token; a live token is not lost to a failure;
- `write` reports success only for what the server carried out, has every tuple
  in its result once, keeps to `maxParallelRequests`, sends deletes after writes,
  and throws, once it has begun, exactly for a failed authentication;
- the pool keeps its limit and loses nothing;
- `clientBatchCheck` has each check's own answer or error, `listRelations` never
  takes a failure for a denial, and `batchCheck` returns every answer, matched by
  its correlation id, or none; a call is split over two stores by nothing but the
  application setting `client.storeId` meanwhile;
- a method acts on the store and model it was called for, whatever the
  application sets the client's ids to meanwhile, and what it returns is what it
  did, as far as its attempts were answered;
- a request goes to a validated address with its own live token, the requests of a
  bulk call share one id, which no other call has as long as there is a source of
  random numbers, and measuring a call neither leaks an attribute nor turns an answer
  into a failure.

The hazards of the code, at their lines and with the properties aimed at them,
are in `PROJECT.json`.

## 2. Modules

    SdkErrors         errors.ts, checkIfRetryableError: operators, no state
    RemoteCall        what a call to the API promises (abstract)
      ^ implemented by
    HttpRequest       common.ts: the retry loop of concurrent calls
    Credentials       credentials.ts: the token cache
    AsyncPool         tiny-async-pool: the generator, alone or inside a call
    Chunks            chunkArray: an operator
    BulkWrite         client.ts: write(); HttpRequest and AsyncPool composed
    ClientBatchCheck  client.ts: clientBatchCheck(), listRelations(); AsyncPool
    BatchCheck        client.ts: batchCheck(); AsyncPool
    OpenFgaApi        api.ts: the request of each endpoint, operators only
    ClientMethods     client.ts: the methods with one request; OpenFgaApi, HttpRequest
    Telemetry         telemetry/: what is recorded, operators only
    Configuration     configuration.ts, validation: constructors and checks, operators only
    ApiCall           a client's calls whole; Configuration, Credentials, HttpRequest,
                      Telemetry composed
    ...Proofs         theorems: HttpRequest, Credentials, AsyncPool (and Chunks),
                      BulkWrite, ClientBatchCheck, BatchCheck, ClientMethods, ApiCall
    MC...             instances for TLC

**SdkErrors.** A failure is a record of what `checkIfRetryableError` looks at:
whether axios made it, its status (0 for no answer) and its Retry-After.
`ErrorClassOf` is the class thrown for it, `InstanceOf` follows the superclasses,
`CheckIfRetryableError` is the function of that name: throw or go on. An error
object has a class and a name, because `credentials.ts:198` changes one and not
the other.

**HttpRequest.** Each request has the phases of its call: idle, a token being
awaited (`authorizing`), an attempt on the wire (`sending`), waiting for the next
(`sleeping`), `resolved`, `rejected`. A call that comes to the end of the loop without
a response is resolved with an empty object, as the code has it; `NeverResolvesEmpty`
says that none does. `Call` reads the retry parameters; `RefuseConfiguration`
is the failed `isValid`; `Authorized` and `Unauthorized` end the token's await;
`Succeed`, `Throw` and `Sleep` are the three ends of an attempt; `Wake` is the end
of the wait and the loop's test. `Reconfigure` is the application writing to the
Configuration object. A time unit stands for 50 ms; the random number of the
backoff is a choice from the interval it is taken from; the header's date form is
a delay like any other. The response carries nothing: that a call resolves with a
response is all the properties tell apart.

**RemoteCall** is the promise's contract: pending, then settled for good, every
message sent while it is pending, no more of them than the retries allow. It is
the abstract specification that `HttpRequest` implements under the mapping `R`.

**Credentials.** A caller is one call of `getAccessTokenHeader`. JavaScript runs
`refreshAccessToken` without interruption between two awaits, so an action is one
such stretch: `UseCache` or `StartRefresh`, `SendExchange` or `BuildFails`,
`Receive`, `Retry`, `ExchangeFails`. A token is a record of who asked for it, when
it was issued and its lifetime, 0 for an answer without `access_token` or
`expires_in`, which is cached but never live (in `ApiCall` the server refuses it, as
it does "undefined"); `Issue` is the issuer's, `Tick` the clock's. The waits between
attempts are left out (they are `HttpRequest`'s), and client and issuer have one clock. `receipts` is a history variable.

**AsyncPool.** The generator's variables and steps, written so that `BulkWrite`
can instantiate it with the outcomes of its own requests. On its own it has
`Settle`, an arbitrary fulfilment or rejection.

**BulkWrite.** `stage` is where `write()` is. `StartTransaction`/`EndTransaction`
are the transaction mode; `RefuseIds` is `write()` throwing before anything is sent: in
either mode for a malformed model id, which it looks at first, in transaction mode also
for a store id that is malformed or missing. `StartWrites` and `NextStage` are the two
`for await` loops, `Abort` the pool throwing inside one, which ends `write()` with the
same error; `LaunchChunk` is the pool starting a chunk, which is a `HttpRequest!Call` in
the same step, as `fn` runs until its first await. A chunk is a nested call of `write()`,
which looks at the ids again: the application may have changed them (`SetIds`), and then
the chunk's promise is rejected at once (`RefuseChunk`). `PoolStep` is everything else
the pool does. The catch handlers are `Outcome`: a
rejected request is a fulfilled promise for the pool unless `EndsTheCall`. The
server keeps a set of tuples, applies a request at once or refuses it, and follows
the conflict options in the body. An attempt is served and answered, served and
its answer lost, turned away, lost, or given up by the client and still on its
way (`late`), to be served at any later time.

**ClientBatchCheck.** The same pool with one Check request per item. A request is
here only what `RemoteCall` promises: it may be evaluated several times and then
settles (`Evaluate`, `Answer`, `Fail`); the loop inside is `HttpRequest`'s.
`LaunchCheck` includes `getStoreId`, which reads `client.storeId` at that moment
and throws for a malformed or missing one; `SetStoreId` is the application writing
to it, and `past`, a history variable, what it has been since the call. `Collect`, `Abort` and `EndChecks` are the `for await` loop and what
`listRelations` makes of its result. The server may evaluate a check once per
attempt, with another verdict each time, as relationships change meanwhile;
`verdicts` records them, so that the answer can be judged although it is not a
snapshot.

**BatchCheck.** Check objects belong to the application and carry the field
`correlationId`, so it is a variable, and a body may contain one object twice.
`Prepare` is one turn of the loop that gives ids and refuses duplicates; it runs
without interruption and nothing else is enabled meanwhile. A generated id is
different for every object unless there is no source of random numbers, when it is
the fixed fallback. `Collect` matches a response: its entries come under ids, in an
order without importance, may lack an id that was sent and have one that was not.
Any batch that fails ends the call, which is different from the other two bulk
methods.

**OpenFgaApi.** One operator for each of the 17 parameter creators: it refuses when
a required parameter is missing, or gives method, path, query and body. A path is
the sequence of its segments. A missing parameter is `Unset`; `Empty` is the empty
string, which `assertParamExists` takes for a value.

**ClientMethods.** `RequestOf` is the part of each method before its first await,
in the order the code looks at the ids (`Write` looks at the model id first), and
`Invoke` runs it: the request is made,
or the promise rejected. `ResultOf` is what it makes of the answer. `SetStoreId` and
`SetAuthorizationModelId` are the application writing to the client's fields.
`OnWire` is the object every attempt of a call sends, the one made by `Invoke`.
The server keeps stores, models and assertions and tells a request by its method and
path; the network is that of `BulkWrite`. `addressed`, `from`, `before`, `lost` and
`madeBy` are history variables. Of the server it is assumed that a rejection (5xx)
did nothing (a gateway's 504 that hides a request carried out is a lost answer, not one
of these), that a store that is gone is not found, that models are listed
latest first, as the SDK itself assumes in `readLatestAuthorizationModel`, and that
what it makes gets an id nobody has named before (`Known`): ids are ULIDs. Tuples and
the evaluation of queries are `BulkWrite`'s and `ClientBatchCheck`'s: here such a
request is only accepted or refused for the model it names.

**Configuration.** `ConfigurationOf`, `CredentialsOf`, `InitConfig` and `TelemetryOf`
are the constructors; `ConfigurationError`, `ClientConfigurationError`, `ClientError`
and `CredentialsError` the checks, each giving the error it throws or `NoError`, in the
order of the code. A URL is a scheme and a host. JavaScript's `||` and template strings
are modelled where they matter: `Otherwise` passes over the empty string, and a host
left out becomes the host named "undefined".

**Telemetry.** Attributes are a function from names to values. `FromRequest`,
`FromResponse` and `FromRequestBody` add to them with the conditions of the code,
`Prepare` lets through what the configuration names, `RecordsOfCall` and
`RecordsOfExchange` are the instruments a call and an exchange record to.

**ApiCall.** What the other modules take apart is put together here. A scenario, chosen
at the start, is what an application does: the parameters it builds its client with,
its headers objects, the methods it calls, the writes to the Configuration object it
may make at any later time, and whether the platform has a source of random numbers: if
not, `BulkId` is the same for all calls. Writes may be to any part of the base path, with
values that are no URL, empty or undefined among them. `Construct` is the constructor with its checks, `Write` one
of those writes. `Launch` makes a request: the first one of a call stamps the client
method and the bulk id onto the headers object (`Stamp`), each takes a copy of it, is
checked against the configuration of that moment and reads its retry parameters
(`H!Call`). Then it waits for its token, in the steps of `Credentials`
(`WithoutExchange`, `WithCachedToken`, `ExchangeStep`, `WithNewToken`, `TokenFails`);
the step that ends the wait puts the token into the copy, reads the base path and sends
the first attempt. An attempt is `Served`, and then measured and resolved, `Refused`
with 401 when its token has ended by the server's clock, or fails like any other;
`Wake` is the loop's. `Tick` is the clock. `Credentials` and `HttpRequest` are
instantiated with the request as their caller, so all of a request's state is under one
name; the retry parameters are a member of the Configuration object. `exposed`, the
requests whose base path was written to while they waited for their token, and
`refusedAt` are history variables. The attempt sends the headers of the copy; an
`Authorization` header an application puts into `baseOptions` or into its own axios
instance is left out.

## 3. Runs

| Run | Question | Instance |
|---|---|---|
| `http_request` | attempts, waits, settlement, the limit when the Configuration object is written to, refinement of RemoteCall | 1 call, maxRetry 0 to 4 around a limit of 3, every failure, every wait; fairness |
| `credentials` | the cache under overlapping exchanges | 3 callers, lifetimes 2 and 0 (a useless answer), time to 3, one retry |
| `async_pool` | limit and completeness of the pool | 4 items, 2 at a time |
| `bulk_write` | what `write()` reports against what the server did, in both modes; what it throws; settlement | 3 writes, 1 delete of one of them, chunks of 2 (the last not full), 2 at a time, one retry; usable ids, a malformed model id, no store id, and changes between them as chunks run; fairness |
| `client_batch_check` | each check's own result; what `listRelations` may conclude; which failures throw; the stores of a call | 3 checks or none, 2 at a time, both methods, with a store id of the call's or not, `client.storeId` set once to another or to a malformed one |
| `batch_check` | correlation ids, the matching of answers, all or none | 3 checks in batches of 2, or none; ids given or not, an object passed twice; a server that leaves an id out or makes one up |
| `client_methods` | what calls make, delete, replace and return when they overlap, are retried and arrive late; which ids reach a path | 2 calls of any pair of methods that change something, and of every other with a deletion of its store; 2 stores, 2 models, malformed and empty ids, one change of the client's ids, one retry |
| `api_call` | which token, which id and which address a request goes out with when calls share headers and the configuration is written to; when a token is refused; what is recorded | 2 calls of 3 requests at most, lifetimes 1 and 0, time to 2, one retry; scenarios of tokens, shared headers, no source of random numbers, writes to the configuration (a URL that is none, empty, undefined; an `apiHost` taken away), and parameters no client can be built with |
| `documented_*` | what a document says and the code does not do | see Findings |

Bounds, and why they are enough. Retry bounds matter only relative to each other
and to the limit, so the values lie on both sides of every comparison: maxRetry 0,
1, at and above the limit. The time constants are scaled so that their order is
kept: minimum of a Retry-After, default minimum wait, cap on the backoff, maximum
of a Retry-After (`RetryHeaderMaxAllowableDuration`), each with a value below and
above it. `BulkWrite` needs a tuple that is written and deleted, a second chunk, not
full, to overlap the first, a chunk of another stage to come after it, and one retry for
a late copy; items that wait for a full pool are the matter of `async_pool`,
`client_batch_check` and the theorems. In
transaction mode the server of this instance always refuses, as one request both writes
and deletes the tuple; that a success means acceptance in that mode, too, is a theorem.
A limit below one is the theorem `LimitIsKept`'s. The token
cache needs three callers: two whose answers overtake each other and one that
meets the result; a token that ends before another, an answer that overwrites a
live one with a useless one; and time for both. The
bulk checks need one more item than the pool's limit, and `batchCheck` two items in
one batch and a third in another, of which any two may share an id. In `ClientMethods` a server that has no id left makes nothing more (`StoreIdsLeft`,
`ModelIdsLeft`): the ids are enough for every attempt of the instance. It
needs two calls, as its properties relate at most two; one retry, so that a call can
be carried out twice and a late attempt meet a later call; and six ids of each kind,
the two there are at first and one for each attempt that may make another. `ApiCall`
needs a call of two requests and one of another, so that an object is stamped twice and
copied thrice; each scenario varies one thing, as what they vary is read at different
places of the code and the properties relate at most two of them; two units of time, so
that a token of one can end on its way to the client, or between its handing out and the
attempt that carries it. Two
counters are cut off by a guard: `MaxChanges`, the times the application sets an id
(once is enough to come between two attempts, or two checks), and `MaxTime`. A token that outlives
that is not seen ending: the lifetimes are shorter than it, and `api_call` sees a second token end. `iterationCount` and
`attempts` are bounded by the code, and the type invariants say so.

Callers are symmetric in `credentials` and `client_methods` only, which check no
liveness, and whose constants name no caller apart.

Deadlock is not checked: every one of these systems ends in a state where each
call has settled.

## 4. Fairness

- `HttpRequest`: an awaited token, an attempt and a timer end. Attempts have the
  default timeout of 10 s (`base.ts:45`); a timer fires.
- `Credentials`: none. An exchange runs the same loop as any call and ends for the
  same reason, if every attempt of it ends; that is an assumption, as its axios
  instance is made without a timeout (`base.ts:37`), so an issuer that never
  answers would hold its callers for good.
- `BulkWrite`: the client's own steps, those of the pool among them, and each
  request's token, timer and attempt.
- `AsyncPool`, `ClientBatchCheck`, `BatchCheck`, `ClientMethods`, `ApiCall`: none. That the pool
  ends, over requests that settle (`EveryCallSettles`), is checked in `BulkWrite`
  (`WriteSettles`).

All of it is weak fairness: each of these steps stays enabled until it is taken.

## 5. Proofs

`HttpRequestProofs` proves for every number of calls, retry parameters, failures
and constants satisfying the assumptions of `HttpRequest`:

| Theorem | Property |
|---|---|
| `LoopCorrect` | `LoopInvariant`, the inductive invariant |
| `TypeCorrect` | `TypeOK` |
| `AttemptsAreBounded` | `AttemptBudget` |
| `LimitIsEnforced` | `ConfiguredLimit` |
| `NoEmptySuccess` | `NeverResolvesEmpty` |
| `RetriesAreUsedUp` | `GivesUpOnlyWhenSpent` |
| `WaitsAreBounded` | `WaitBounds` |
| `ResendsAreJustified` | `ResendsOnlyRetryable` |
| `LoopImplementsRemoteCall` | `ImplementsRemoteCall` |

The argument. The properties are not inductive: that the loop is never left
empty-handed depends on what a sleeping call knows. `LoopInvariant` says it: a
call that sleeps has made at most `maxRetry` attempts, because only
`CheckIfRetryableError` lets it sleep, and that compares the same counter with the
same bound; so the loop's own test holds when it wakes. The invariant has one
conjunct per phase and is proved one action at a time; the properties follow from
it, and the action properties and the refinement from it and the shape of a step.
It is also an invariant of the run `http_request`, as `TokenInvariant` and
`PoolInvariant` are of theirs. `AttemptBudget`, `GivesUpOnlyWhenSpent`,
`NeverResolvesEmpty`, `CacheIsLastReceipt`, `RefreshedTokenIsOwn`,
`OvershootWithinLatency`, `UselessAnswerStaysWithItsCaller`, `EveryItemIsSomewhere` and
`DoneMeansAllFulfilled` are consequences or conjuncts of them and not checked on their own.

`CredentialsProofs` proves for every number of callers, every set of lifetimes and
failures, and every bound on the clock:

| Theorem | Property |
|---|---|
| `CacheCorrect` | `TokenInvariant`, the inductive invariant |
| `CredentialsTypeCorrect` | `TypeOK` |
| `CacheIsConsistent` | `CacheIsLastReceipt` |
| `OwnTokenIsReturned` | `RefreshedTokenIsOwn` |
| `OvershootIsBounded` | `OvershootWithinLatency` |
| `UselessAnswersAreNotShared` | `UselessAnswerStaysWithItsCaller` |
| `LiveTokensAreKept` | `LiveTokenLostOnlyToOverlap` |

That a live token is lost only to an overlapping exchange is a statement about the
past, and the invariant carries that past along: as long as the last receipt is
live, whoever is exchanging credentials was already doing so when it arrived, as
nobody starts while the cache is live (`LastLiveReceipt`); so when another receipt
takes its place, it belongs to one of those (`EarlierLiveReceipts`). The bound on
the overshoot needs that the cache is the last receipt, and a caller's own token
needs what the answer on its way carries (`WireIsOwn`). A useless answer is never
taken from the cache because no receipt is in the future (`ReceiptsArePast`), so the
only caller that has it is the one whose exchange brought it. `ApiCallProofs` uses
this to say which refusals of the server are not a matter of time.

`AsyncPoolProofs` proves for every finite set of items and every integer limit:

| Theorem | Property |
|---|---|
| `PoolCorrect` | `PoolInvariant`, the inductive invariant |
| `PoolTypeCorrect` | `TypeOK` |
| `LimitIsKept` | `InFlightWithinLimit` |
| `NothingIsLost` | `EveryItemIsSomewhere` |
| `DoneIsComplete` | `DoneMeansAllFulfilled` |

What is unsettled is being executed, and the set being executed grows only below
the limit; an item is in one of three places, because the items wait in a sequence
without repetitions. The number of results follows from a bijection.

It also has the theorem about `Chunks`, `ChunksAreThePieces`, for every sequence and every
positive size: each chunk has between one and `size` items, only the last fewer than
`size`, its j-th item is the item at place `(k - 1) * size + j`, and every place is in a
chunk. It is arithmetic of the division in `ChunkArray`.

`BulkWriteProofs` proves for every body, chunk size, limit, server and set of failures:

| Theorem | Property |
|---|---|
| `BulkWriteCorrect` | `BulkInvariant`, the inductive invariant |
| `BulkTypeCorrect` | `TypeOK` |
| `SuccessIsAccepted` | `SuccessWasAccepted` |
| `OnlyAuthenticationEndsTheCall` | `OnlyAuthenticationThrows` |
| `EveryTupleIsReported` | `ResultIsComplete` |
| `DeletesAreFinal` | `DeletedTupleReturnsOnlyLate` |
| `IgnoringMakesRetriesSafe` | `IgnoreMakesRetrySafe` |

The loops inside are those of `HttpRequest`: every step of `write()` is a step of theirs
or leaves them alone (`LoopsStep`), so `LoopInvariant` holds of them without being proved
again. About `write()` itself the invariant says where each request is: those of the
running pool are waiting, executing or handed over, and in one place only, those of
earlier pools are collected, and nothing else has begun; what was handed over has settled
without a failed authentication, because `Outcome` makes that one a rejection of the
pool, and that is all `Abort` can throw; the error of a malformed model id is thrown only
while nothing has begun. When the generator ends nothing waits and nothing executes, so what was handed over
is all there was; with `ChunksAreThePieces`, that is every tuple.

Two more invariants are about the server. `MadeInOrder`: no delete begins before every
write has settled, the server has carried out only what was made, and an attempt that is
still on its way was given up, so its request has been sent again or has failed
(`GivenUp`). From it, `BackByALateWrite`: after a delete was carried out, the only thing
that can put one of its tuples back is such an attempt. The invariants hold also when
`write()` throws and its requests go on, which is why they are not read off `Collected`.
That ignoring conflicts makes retries safe is inductive with `ErrorStep`: a call gets the
error of an invalid write only from a server that does not accept it.

`ClientBatchCheckProofs` proves for every list of checks, limit, failure and id the
application sets:

| Theorem | Property |
|---|---|
| `ClientBatchCheckCorrect` | `CheckInvariant`, the inductive invariant |
| `ClientBatchCheckTypeCorrect` | `TypeOK` |
| `EachCheckIsAnswered` | `EachCheckHasItsResult` |
| `NoFailureIsADenial` | `RelationsAreJustified` |
| `OnlyAuthenticationThrows` | `AuthenticationEndsTheCall` |
| `ChecksFollowTheClient` | `SplitFollowsTheClient` |

The same argument about places, and one about results: they are those of the checks
handed over, in that order, computed from promises that do not change any more
(`ResultsMatch`). That there are as many results as checks is two injective sequences
over one finite set; that `listRelations` throws an error and not something undefined is
the least of a set of places. The stores need a second invariant: what waits is the end
of the body, so a check begins after all before it in the body (`InOrder`), and a store
that was read is one of the values `client.storeId` has had, the present one the last of
them (`KnownStores`). Without the order of the queue the split could go back to a store
the call had left.

`BatchCheckProofs` proves for every body, every ids the application gave, every batch
size and limit, and every answer of the server:

| Theorem | Property |
|---|---|
| `BatchCheckCorrect` | `BatchInvariant`, the inductive invariant |
| `BatchCheckTypeCorrect` | `TypeOK` |
| `ChecksHaveTheirAnswers` | `EveryCheckIsAnswered` |
| `DuplicatesAreRefused` | `OnlyDuplicatesAreRefused` |

The field `correlationId` belongs to objects that may occur twice, so the first thing the
invariant says is what it can be: what the application gave, or one id per object that does
not depend on the order of the loop (`IdFor`, `IdsSettled`); the items prepared are the
first checks with these ids, none twice (`ItemsMatch`). With
`ChunksAreThePieces` an item is at one place of one batch, so an id leads to one batch
(`BatchesMatch`); a batch is at one place of the pool or of its results (`InOnePlace`);
what was handed over is what the response has under ids that were sent (`AnswersMatch`),
and the results are those answers with the checks looked up (`ResultsMatch`).
`Refusals` says what made two ids equal.

`ClientMethodsProofs` proves for every number of calls, any method of each, every
server and every id the application sets:

| Theorem | Property |
|---|---|
| `MethodsCorrect` | `MethodsInvariant`, the inductive invariant |
| `MethodsTypeCorrect` | `TypeOK` |
| `DeletesAreRight` | `DeletesHitTheirStore` |
| `CallsStayInTheirStore` | `CallsTouchOnlyTheirStore` |
| `LatestIsRight` | `LatestWasLatest` |
| `AssertionsInOrder` | `AssertionsKeepCallOrder` |
| `FulfilledIsFound` | `FulfilledMeansFound` |
| `MadeThingsAreReturned` | `MadeIsReturned` |

The 17 endpoints and the network make many actions, but only six kinds of step: the
application sets an id, a call begins, is answered, fails, arrives late, or moves on in its
loop (`StepIs`). Each kind has one effect on each part of the state, and the invariant is
proved for the kinds. It ties a call's request to what it was called for from `Invoke` on,
and what the server has to the call that made it, which has returned it or has lost an answer
(`RequestsFit`, `MadeByCalls`); that a new id is in no request yet keeps a call that names a
store from meeting one made later. `ModelsGrow` and `FoundStores` carry what a call saw up
to its end, `SettledBefore` the order of the calls.

`ApiCallProofs` proves for every number of calls, requests and headers objects and every
scenario:

| Theorem | Property |
|---|---|
| `SpecImpliesCallInvariant` | `CallInvariant`, the inductive invariant |
| `LiveTokens` | `RequestsCarryLiveTokens` |
| `RefusalsAreLate` | `RefusedOnlyForEndedToken` |
| `SentWhereValidated` | `UrlWasValidated` |
| `OneIdForABulkCall` | `BulkCallsKeepTheirId` |
| `WholeCallIsCorrect` | `WholeInvariant`, the inductive invariant with the loops and the records |
| `CallsTypeCorrect` | `TypeOK` |
| `RecordsAreWhatWasAskedFor` | `MeasuredAsConfigured` |
| `AnswersAreDelivered` | `AnsweredMeansFulfilled` |

`TokenInvariant` holds inside a call because every step of it is one of the cache or
leaves the cache alone (`CacheStep`). The rest of the invariant says what the
Configuration object keeps of its parameters: each member of the base path has a value
the application gave it (`ValuesGiven`); that an id or a name in a headers object
stays, and is the application's, that of a call given this object, or the fixed fallback;
that a copy has what its object has; that a request which waits for its token was
validated, and no write to the base path came since unless it is `exposed`; and that a request that was sent carries what it was handed.
A refused token then has an answer that took time, or a request that waited.

`WholeInvariant` adds the retry loop of each request and what was recorded. Every step is
one of the loops, but for two that end a call before its loop begins (a configuration
refused) or after it has its answer (measuring throws): `LoopStep` and `LoopHolds`. The telemetry in force is always one the application gave, in its
parameters or by a write (`Permitted` is about all of those, as a write may come between
two records), and `Prepare` lets through nothing else; a request records only in the step
that resolves it, so its number of retries is that of its loop. What may throw there is
the reading of `baseOptions.headers`: the constructor always makes some, so they are
missing only after a write.

Assumed are the ASSUMEs of the modules: natural numbers and their order, the kinds of the
constants, a finite set of items or checks, a positive chunk size. Of the environment:

- `ScenariosAssumption` of `ApiCall`: a method that is no bulk method makes one request;
  the application names no host "undefined" itself, so that the one the code makes of a
  missing host is told apart (it may leave out, empty or unset any part of the base path,
  at the start and later); and what it puts into a headers object is told apart from what
  the SDK puts there;
- `ParamsAssumption` of `HttpRequest`: retry parameters are natural numbers. A `maxRetry` of
  NaN, a number to TypeScript, is left out: every comparison with it is false, so that a
  failure that may be retried would end the loop after one wait (`common.ts:223`, `274`);
- `NotFoundAssumption` of `ClientMethods` and `RefusalAssumption` of `BulkWrite`: a 404, a 400
  or a 422 of the API is the server's own judgement of the request, which the server of
  the model makes, and none of the other rejections; and an API error of the token issuer
  does not keep its name (`credentials.ts:198`). Without the first, a gateway's 404 would
  pass for a store that is gone;
- the ids of stores, of models and malformed ones are different.

The rest tells values apart (`ObjectAssumption`, `TokenAssumption`, `BaseOptionsAssumption`,
and the `LoopAssumption`s, which are those of `HttpRequest` for the calls inside).

Every invariant the runs check is the statement of a theorem or a consequence of one
listed here. Model-checked only are: liveness (`EveryCallSettles`, `WriteSettles`), which
needs ENABLED; `BackoffNeverShrinks` (it depends on the powers of two, of which the prover
knows only that they are integers); and what the violated properties of section 6 show.

## 6. Findings

1. `documented_default_retry`: without retry parameters there is no retry;
   `README.md:94` promises three.
2. `documented_auth_failure`: an API error of the token exchange, renamed to an
   authentication error, is reported per tuple and not thrown, although
   `tests/client.test.ts:415` says that an authentication failure throws.
3. `documented_allowed_false`: a check that failed has `allowed: undefined`, while
   `README.md:641` says `allowed: false`.
4. `documented_model_id`: `batchCheck` never sends the model id of the
   configuration, which `client.ts:718` says the option overrides.

Seen while modelling, without a run of its own: retry parameters of a single call
are not held to the limit of 15 that `README.md:861` gives (the property
`ConfiguredLimit` says what does hold); a Retry-After or the cap makes a wait
shorter than `minWaitInMs`; `TokenExpiryThresholdBufferInSec`
(`constants/index.ts:123`) is never read, a token is used up to its last moment
(`OvershootWithinLatency` says what does hold, and `RefusedOnlyForEndedToken` what the
server makes of it); a metric whose attributes are not configured records none, although
`docs/opentelemetry.md:45` gives it the default ones; `fga-client.request.client_id` is a
default attribute that is never recorded (`telemetry/attributes.ts:86`); the default
headers of `README.md:151` are sent only by the SDK's own axios instance (`base.ts:46`);
an empty `apiUrl` without `apiHost`, given at the start or written later, passes the
validation and makes the base path `https://undefined`, which is well-formed, and so does
an `apiUrl` set to undefined while a call waits for its token (`configuration.ts:172`,
`common.ts:292`, `UrlWasValidated` names the cases); when two calls
share a headers object, the requests of the second carry the first one's client method
and, if the first made one up, its bulk id, and without a source of random numbers all bulk
calls have one and the same id (`BulkCallsKeepTheirId` says what does hold);
base options replaced by some without headers make an answered call reject
(`common.ts:307`, `AnsweredMeansFulfilled` says that nothing else does).

## 7. Not modelled, and the plan

Left to do, in this order:

1. a proof that `ClientMethods` and `BulkWrite` implement `RemoteCall` call by call, as
   `HttpRequest` does, and that the clients of the pool implement one abstract bulk call;
2. `options.query` and the parameters that are only handed on (pagination, consistency,
   contextual tuples, the context of a check).

Left out for good: type declarations (`apiModel.ts`, `credentials/types.ts`), which have
no state and no code to run; the wrappers of `api.ts` that only hand a request on, apart
from what they measure; the formatting of URLs, bodies and messages; logging; the
examples. `chunkArray` with a size below one does not end; the models assume a positive
size (`BulkWriteAssumption`). An exchange of credentials that is never answered blocks its
callers, as it has no timeout; the models assume that every attempt ends.
