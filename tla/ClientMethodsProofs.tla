-------------------------- MODULE ClientMethodsProofs --------------------------
(***************************************************************************)
(* Theorems about ClientMethods, for every set of calls, whatever they are *)
(* and however they overlap, every set of ids and every first state of the *)
(* server.  What the retry loop of each call does is known from            *)
(* HttpRequestProofs.                                                      *)
(***************************************************************************)
EXTENDS ClientMethods, TLAPS

HP == INSTANCE HttpRequestProofs WITH Request <- CallId

-----------------------------------------------------------------------------
\* The retry loops.  H and HP are the same module: what one does the other does.
LEMMA SameLoopInit == H!Init => HP!Init
<1> QED BY DEF H!Init, HP!Init, H!IsValid, HP!IsValid, H!MaxRetryOf, HP!MaxRetryOf,
               H!NoError, HP!NoError

\* The same for every step of a call, whatever it is answered.
LEMMA SameLoopSteps ==
  ASSUME NEW c \in CallId
  PROVE  /\ H!Call(c, Unset) => HP!Call(c, Unset)
         /\ H!Authorized(c) => HP!Authorized(c)
         /\ \A e : H!Unauthorized(c, e) => HP!Unauthorized(c, e)
         /\ H!Succeed(c) => HP!Succeed(c)
         /\ H!Wake(c) => HP!Wake(c)
<1>1. H!Call(c, Unset) => HP!Call(c, Unset)
  BY DEF H!Call, HP!Call, H!IsValid, HP!IsValid, H!MaxRetryOf, HP!MaxRetryOf,
         H!MinWaitOf, HP!MinWaitOf
<1>2. H!Authorized(c) => HP!Authorized(c)
  BY DEF H!Authorized, HP!Authorized
<1>3. \A e : H!Unauthorized(c, e) => HP!Unauthorized(c, e)
  BY DEF H!Unauthorized, HP!Unauthorized
<1>4. H!Succeed(c) => HP!Succeed(c)
  BY DEF H!Succeed, HP!Succeed, H!Answered, HP!Answered
<1>5. H!Wake(c) => HP!Wake(c)
  BY DEF H!Wake, HP!Wake, H!LoopsAgain, HP!LoopsAgain
<1> QED BY <1>1, <1>2, <1>3, <1>4, <1>5

\* A failure is thrown or slept on alike.
LEMMA SameLoopFailures ==
  ASSUME NEW c \in CallId, NEW err
  PROVE  /\ H!Throw(c, err) => HP!Throw(c, err)
         /\ H!Sleep(c, err) => HP!Sleep(c, err)
<1>1. \A n, m : H!CheckIfRetryableError(err, n, m) = HP!CheckIfRetryableError(err, n, m)
  BY DEF H!CheckIfRetryableError, HP!CheckIfRetryableError, H!MayBeRetried, HP!MayBeRetried,
         H!IsNetworkError, HP!IsNetworkError, H!IsRetryableStatus, HP!IsRetryableStatus
<1>2. H!ErrorOf(H!ErrorClassOf(err)) = HP!ErrorOf(HP!ErrorClassOf(err))
  BY DEF H!ErrorOf, HP!ErrorOf, H!ErrorClassOf, HP!ErrorClassOf, H!IsNetworkError,
         HP!IsNetworkError
<1>3. H!HasHint(err) = HP!HasHint(err)
  BY DEF H!HasHint, HP!HasHint, H!IsRetryableStatus, HP!IsRetryableStatus,
         H!IsValidRetryDelay, HP!IsValidRetryDelay
<1>4. \A n, m : H!Delays(err, n, m) = HP!Delays(err, n, m)
  BY <1>3 DEF H!Delays, HP!Delays, H!Backoff, HP!Backoff, H!Lesser, HP!Lesser
<1>5. H!Throw(c, err) => HP!Throw(c, err)
  BY <1>1, <1>2 DEF H!Throw, HP!Throw
<1>6. ASSUME H!Sleep(c, err) PROVE HP!Sleep(c, err)
  <2>1. /\ phase[c] = "sending"
        /\ HP!CheckIfRetryableError(err, iterationCount[c], maxRetry[c])
        /\ \E d \in HP!Delays(err, iterationCount[c], minWaitInMs[c]) :
             delay' = [delay EXCEPT ![c] = d]
        /\ phase' = [phase EXCEPT ![c] = "sleeping"] /\ answer' = [answer EXCEPT ![c] = err]
        /\ UNCHANGED <<configured, overridden, maxRetry, minWaitInMs, iterationCount, error>>
    BY <1>1, <1>4, <1>6, ZenonT(30) DEF H!Sleep
  <2>2. hinted' = [hinted EXCEPT ![c] = HP!HasHint(err)]
    BY <1>3, <1>6, Zenon DEF H!Sleep
  <2> QED BY <2>1, <2>2 DEF HP!Sleep
<1> QED BY <1>5, <1>6

\* Every step of the methods is one of the loops, or leaves them alone.
LEMMA LoopsStep ==
  ASSUME [Next]_vars
  PROVE  [HP!Next]_HP!vars
<1>1. CASE UNCHANGED loopVars
  BY <1>1 DEF loopVars, HP!vars
<1>2. ASSUME NEW c \in CallId, H!Call(c, Unset) PROVE HP!Next
  BY <1>2, SameLoopSteps DEF HP!Next
<1>3. ASSUME NEW c \in CallId, H!Authorize(c) \/ H!Wake(c) PROVE HP!Next
  BY <1>3, SameLoopSteps DEF H!Authorize, HP!Next, HP!Authorize
<1>4. ASSUME NEW c \in CallId, NEW err \in Failures, AttemptFails(c, err) PROVE HP!Next
  BY <1>4, SameLoopFailures DEF AttemptFails, HP!Next, HP!Answer
<1>5. ASSUME NEW c \in CallId, H!Succeed(c) PROVE HP!Next
  BY <1>5, SameLoopSteps DEF HP!Next, HP!Answer
<1>6. CASE SetStoreId \/ SetAuthorizationModelId \/ UNCHANGED vars
  BY <1>1, <1>6 DEF SetStoreId, SetAuthorizationModelId, vars
<1>7. ASSUME NEW c \in CallId, NEW o, Invoke(c, o) PROVE [HP!Next]_HP!vars
  BY <1>1, <1>2, <1>7 DEF Invoke
<1>8. ASSUME NEW c \in CallId, LoopStep(c) \/ ArriveLate(c) PROVE [HP!Next]_HP!vars
  BY <1>1, <1>3, <1>8 DEF LoopStep, ArriveLate
<1>9. ASSUME NEW c \in CallId, Attempt(c) PROVE HP!Next
  <2>1. {Invalid, NotFound, NetworkError} \subseteq Failures /\ Rejections \subseteq Failures
    BY DEF Failures
  <2> QED BY <1>4, <1>5, <1>9, <2>1 DEF Attempt, Serve, LoseAnswer, TurnAway, LoseAttempt
<1> QED BY <1>6, <1>7, <1>8, <1>9 DEF Next

\* What is known of the loops holds for the calls of the methods.
LEMMA LoopsInvariant ==
  /\ Init => HP!LoopInvariant
  /\ HP!LoopInvariant /\ [Next]_vars => HP!LoopInvariant'
<1> USE LoopAssumption DEF H!ParamsAssumption, H!FailuresAssumption, H!LimitsAssumption,
                           H!Failure, HP!Failure, H!Answered, HP!Answered,
                           H!ErrorObject, HP!ErrorObject, H!ErrorClass, HP!ErrorClass,
                           H!Superclass, HP!Superclass
<1>1. Init => HP!LoopInvariant
  BY SameLoopInit, HP!LoopInvariantInit DEF Init
<1>2. HP!LoopInvariant /\ [Next]_vars => HP!LoopInvariant'
  BY LoopsStep, HP!LoopInvariantStep
<1> QED BY <1>1, <1>2

-----------------------------------------------------------------------------
\* The inductive invariant.

\* What is known of the request q of call c with options o, made for the ids a.
Collections == {"listStores", "createStore"}
NoModelId(id) == id \in {Unset, Empty}
OnModels(o, a) ==
  \/ o.method \in {"readAuthorizationModels", "readLatestAuthorizationModel",
                   "writeAuthorizationModel"}
  \/ o.method = "checkValidApiConnection" /\ NoModelId(a[2])
OnModel(o, a) ==
  \/ o.method = "readAuthorizationModel"
  \/ o.method = "checkValidApiConnection" /\ ~NoModelId(a[2])
OnAssertions(o) == o.method \in {"readAssertions", "writeAssertions"}
OnVerbs ==
  {"readChanges", "read", "write", "check", "batchCheck", "expand", "listObjects", "listUsers"}
OtherVerbs ==
  {"changes", "read", "write", "check", "batch-check", "expand", "list-objects", "list-users"}

Fits(c, o, a, q) ==
  /\ q.thrown = NoError
  /\ o.method \in Collections =>
       q.path = <<"stores">> /\ q.method = IF o.method = "createStore" THEN "POST" ELSE "GET"
  /\ o.method \notin Collections => a[1] \in WellFormed
  /\ o.method \in {"getStore", "deleteStore"} =>
       /\ q.path = <<"stores", a[1]>>
       /\ q.method = IF o.method = "deleteStore" THEN "DELETE" ELSE "GET"
  /\ OnModels(o, a) =>
       /\ q.path = <<"stores", a[1], "authorization-models">>
       /\ q.method = IF o.method = "writeAuthorizationModel" THEN "POST" ELSE "GET"
  /\ OnModel(o, a) =>
       /\ q.path = <<"stores", a[1], "authorization-models", a[2]>>
       /\ a[2] \in WellFormed /\ q.method = "GET"
  /\ OnAssertions(o) =>
       /\ q.path = <<"stores", a[1], "assertions", a[2]>>
       /\ a[2] \in WellFormed \cup {Empty}
       /\ q.method = IF o.method = "writeAssertions" THEN "PUT" ELSE "GET"
       /\ o.method = "writeAssertions" => q.data = c
  /\ o.method \in OnVerbs =>
       /\ q.path = <<"stores", a[1], q.path[3]>> /\ q.path[3] # "authorization-models"
       /\ q.method \in {"GET", "POST"}

Refusals == {Refusal("FgaValidationError"), Refusal("FgaRequiredParamError")}

Types ==
  /\ storeId \in ClientStoreIds /\ authorizationModelId \in ClientModelIds
  /\ changes \in 0 .. MaxChanges
  /\ invocation \in [CallId -> Invocation \cup {Unset}]
  /\ DOMAIN request = CallId /\ DOMAIN returned = CallId
  /\ live \subseteq StoreId
  /\ models \in [StoreId -> Seq(ModelId)]
  /\ DOMAIN assertions \subseteq StoreId \X ModelId
  /\ late \subseteq lost /\ lost \subseteq CallId
  /\ DOMAIN madeBy \subseteq StoreId \cup ModelId
  /\ addressed \in [CallId -> (Ids \X Ids) \cup {Unset}]
  /\ from \in [CallId -> Nat]
  /\ before \in [CallId -> SUBSET CallId]

\* The request of a call is made with the call, and fits it.
RequestsFit == \A c \in CallId :
  /\ ~Made(c) =>
       request[c] = Unset /\ before[c] = {} /\ error[c].name # "FgaApiNotFoundError"
  /\ Made(c) => /\ addressed[c] \in Ids \X Ids
                /\ request[c] \in Refusals \/ Fits(c, invocation[c], addressed[c], request[c])
  /\ phase[c] # "idle" \/ c \in lost => Made(c) /\ ~Refused(c)

\* What is there was there at first, or was made by a call for it.
MadeByCalls ==
  /\ live \subseteq DOMAIN FirstModels \cup DOMAIN madeBy
  /\ \A id \in DOMAIN madeBy :
       LET c == madeBy[id]
       IN  /\ c \in CallId /\ Made(c)
           /\ \/ invocation[c].method = "createStore" /\ id \in StoreId
              \/ invocation[c].method = "writeAuthorizationModel" /\ id \in ModelId
           /\ c \in lost \/ (Resolved(c) /\ returned[c] = id)
  /\ \A a \in DOMAIN assertions : assertions[a] \in CallId /\ Made(assertions[a])
ReturnedIsMade == \A c \in CallId :
  Resolved(c) /\ invocation[c].method \in {"createStore", "writeAuthorizationModel"} =>
    returned[c] \in DOMAIN madeBy /\ madeBy[returned[c]] = c

\* A store a call has found has been there, and its models only become more.
FoundStores == \A c \in CallId :
  Resolved(c) /\ invocation[c].method \notin Collections =>
    AddressedStore(c) \in StoreId /\ AddressedStore(c) \in DOMAIN FirstModels \cup DOMAIN madeBy
ModelsGrow == \A c \in CallId :
  Made(c) /\ AddressedStore(c) \in StoreId => from[c] <= Len(models[AddressedStore(c)])

\* A call comes before another if it had settled; it does not begin again.
SettledBefore == \A c \in CallId : \A d \in before[c] : d # c /\ Settled(d)

MethodsInvariant ==
  /\ HP!LoopInvariant /\ Types /\ RequestsFit
  /\ MadeByCalls /\ ReturnedIsMade /\ FoundStores /\ ModelsGrow /\ SettledBefore
  /\ DeletesHitTheirStore /\ CallsTouchOnlyTheirStore /\ LatestWasLatest
  /\ AssertionsKeepCallOrder /\ FulfilledMeansFound

-----------------------------------------------------------------------------
\* The requests.

\* What is not refused for its ids has ids of the right form.
LEMMA IdsOf ==
  ASSUME NEW o \in Invocation, storeId \in Ids, authorizationModelId \in Ids
  PROVE  /\ StoreIdOf(o) \in Ids /\ ModelIdOf(o) \in Ids
         /\ ThrowsOnStore(o) \/ StoreIdOf(o) \in WellFormed
         /\ ThrowsOnModel(o) \/ ModelIdOf(o) \in WellFormed \cup {Unset, Empty}
<1>1. o.storeId \in Ids /\ o.authorizationModelId \in Ids
  BY DEF Invocation
<1>2. StoreIdOf(o) \in Ids /\ ModelIdOf(o) \in Ids
  BY <1>1 DEF StoreIdOf, ModelIdOf, Or
<1> QED BY <1>2 DEF Ids, ThrowsOnStore, ThrowsOnModel

\* A call is refused, or its request fits the ids it is made for.
LEMMA RequestOfFits ==
  ASSUME NEW c \in CallId, NEW o \in Invocation, storeId \in Ids, authorizationModelId \in Ids
  PROVE  LET q == RequestOf(c, o)
         IN  q \in Refusals \/ Fits(c, o, <<StoreIdOf(o), ModelIdOf(o)>>, q)
<1> DEFINE q == RequestOf(c, o)
           s == StoreIdOf(o)  m == ModelIdOf(o)
           refused == Refusal("FgaValidationError")
           page == IF ThrowsOnStore(o) THEN refused ELSE readAuthorizationModels(s, 1, Unset)
           one  == IF ThrowsOnModel(o) THEN refused
                   ELSE IF m \in {Unset, Empty} THEN Refusal("FgaRequiredParamError")
                   ELSE IF ThrowsOnStore(o) THEN refused ELSE readAuthorizationModel(s, m)
<1>1. refused \in Refusals /\ Refusal("FgaRequiredParamError") \in Refusals
  BY DEF Refusals
<1>2. ReadLatestAuthorizationModel(o) = page
  BY DEF ReadLatestAuthorizationModel, ReadAuthorizationModels, WithStore
<1>3. ReadAuthorizationModel(o) = one
  BY DEF ReadAuthorizationModel, WithModel, WithStore
<1> USE DEF Collections, OnModels, OnModel, OnAssertions, OnVerbs
<1>4. CASE o.method = "listStores"
  <2>1. q = listStores(Unset, Unset, Unset)
    BY <1>2, <1>3, <1>4 DEF RequestOf, WithStore, WithModel, WithIds
  <2> QED BY <1>1, <1>4, <2>1, IdsOf DEF listStores, Get, Send, Accepted, Fits
<1>5. CASE o.method = "createStore"
  <2>1. q = createStore(c)
    BY <1>2, <1>3, <1>5 DEF RequestOf, WithStore, WithModel, WithIds
  <2> QED BY <1>1, <1>5, <2>1, IdsOf DEF createStore, Get, Send, Accepted, Fits
<1>6. CASE o.method = "getStore"
  <2>1. q = IF ThrowsOnStore(o) THEN refused ELSE getStore(s)
    BY <1>2, <1>3, <1>6 DEF RequestOf, WithStore, WithModel, WithIds
  <2> QED BY <1>1, <1>6, <2>1, IdsOf DEF getStore, Get, Send, Accepted, Fits
<1>7. CASE o.method = "deleteStore"
  <2>1. q = IF ThrowsOnStore(o) THEN refused ELSE deleteStore(s)
    BY <1>2, <1>3, <1>7 DEF RequestOf, WithStore, WithModel, WithIds
  <2> QED BY <1>1, <1>7, <2>1, IdsOf DEF deleteStore, Get, Send, Accepted, Fits
<1>8. CASE o.method = "writeAuthorizationModel"
  <2>1. q = IF ThrowsOnStore(o) THEN refused ELSE writeAuthorizationModel(s, c)
    BY <1>2, <1>3, <1>8 DEF RequestOf, WithStore, WithModel, WithIds
  <2> QED BY <1>1, <1>8, <2>1, IdsOf DEF writeAuthorizationModel, Post, Get, Send, Accepted, Fits
<1>9. CASE o.method = "readAuthorizationModels"
  <2>1. q = IF ThrowsOnStore(o) THEN refused ELSE readAuthorizationModels(s, Unset, Unset)
    BY <1>2, <1>3, <1>9 DEF RequestOf, WithStore, WithModel, WithIds, ReadAuthorizationModels
  <2> QED BY <1>1, <1>9, <2>1, IdsOf DEF readAuthorizationModels, Get, Send, Accepted, Fits
<1>10. CASE o.method = "readLatestAuthorizationModel"
  <2>1. q = page
    BY <1>2, <1>3, <1>10 DEF RequestOf, WithStore, WithModel, WithIds
  <2> QED BY <1>1, <1>10, <2>1, IdsOf DEF readAuthorizationModels, Get, Send, Accepted, Fits
<1>11. CASE o.method = "readAuthorizationModel"
  <2>1. q = one
    BY <1>2, <1>3, <1>11 DEF RequestOf, WithStore, WithModel, WithIds
  <2> QED BY <1>1, <1>11, <2>1, IdsOf
      DEF readAuthorizationModel, NoModelId, Get, Send, Accepted, Fits
<1>12. CASE o.method = "checkValidApiConnection"
  <2>1. q = IF ThrowsOnModel(o) THEN refused ELSE IF m \in {Unset, Empty} THEN page ELSE one
    BY <1>2, <1>3, <1>12 DEF RequestOf, WithStore, WithModel, WithIds, CheckValidApiConnection
  <2> QED BY <1>1, <1>12, <2>1, IdsOf DEF readAuthorizationModels, readAuthorizationModel,
      NoModelId, Get, Send, Accepted, Fits
<1>13. CASE o.method = "readAssertions"
  <2>1. q = IF ThrowsOnStore(o) \/ ThrowsOnModel(o) THEN refused ELSE readAssertions(s, m)
    BY <1>2, <1>3, <1>13 DEF RequestOf, WithStore, WithModel, WithIds, ReadAssertions
  <2> QED BY <1>1, <1>13, <2>1, IdsOf DEF readAssertions, IsMissing, Get, Send, Accepted, Fits
<1>14. CASE o.method = "writeAssertions"
  <2>1. q = IF ThrowsOnStore(o) \/ ThrowsOnModel(o) THEN refused ELSE writeAssertions(s, m, c)
    BY <1>2, <1>3, <1>14 DEF RequestOf, WithStore, WithModel, WithIds, WriteAssertions
  <2> QED BY <1>1, <1>14, <2>1, IdsOf DEF writeAssertions, IsMissing, Get, Send, Accepted, Fits
<1>15. CASE o.method \in OnVerbs
  <2>1. \A verb \in OtherVerbs : \A body, query :
          \A r \in {refused, Get(<<s>>, <<"stores", s, verb>>, query), Post(s, verb, body)} :
            q = r /\ (r = refused \/ ~ThrowsOnStore(o)) =>
              q \in Refusals \/ Fits(c, o, <<s, m>>, q)
    BY <1>1, <1>15, IdsOf DEF Get, Send, Accepted, Fits, Post, OtherVerbs
  <2>2. CASE o.method = "readChanges"
    <3>1. q = IF ThrowsOnStore(o) THEN refused ELSE readChanges(s, Unset, Unset, Unset, Unset)
      BY <2>2 DEF RequestOf, WithStore, WithModel, WithIds
    <3> QED BY <2>1, <3>1 DEF readChanges, OtherVerbs, Query
  <2>3. CASE o.method = "read"
    <3>1. q = IF ThrowsOnStore(o) THEN refused ELSE read(s, Naming(Unset))
      BY <2>3 DEF RequestOf, WithStore, WithModel, WithIds
    <3> QED BY <2>1, <3>1 DEF read, OtherVerbs
  <2>4. CASE o.method = "write"
    <3>1. q = IF ThrowsOnStore(o) \/ ThrowsOnModel(o) THEN refused ELSE write(s, Naming(m))
      BY <2>4 DEF RequestOf, WithStore, WithModel, WithIds, Write
    <3> QED BY <2>1, <3>1 DEF write, OtherVerbs
  <2>5. CASE o.method = "check"
    <3>1. q = IF ThrowsOnStore(o) \/ ThrowsOnModel(o) THEN refused ELSE check(s, Naming(m))
      BY <2>5 DEF RequestOf, WithStore, WithModel, WithIds
    <3> QED BY <2>1, <3>1 DEF check, OtherVerbs
  <2>6. CASE o.method = "batchCheck"
    <3>1. q = IF ThrowsOnStore(o) THEN refused ELSE batchCheck(s, Naming(o.authorizationModelId))
      BY <2>6 DEF RequestOf, WithStore, WithModel, WithIds, BatchCheck
    <3> QED BY <2>1, <3>1 DEF batchCheck, OtherVerbs
  <2>7. CASE o.method = "expand"
    <3>1. q = IF ThrowsOnStore(o) \/ ThrowsOnModel(o) THEN refused ELSE expand(s, Naming(m))
      BY <2>7 DEF RequestOf, WithStore, WithModel, WithIds
    <3> QED BY <2>1, <3>1 DEF expand, OtherVerbs
  <2>8. CASE o.method = "listObjects"
    <3>1. q = IF ThrowsOnStore(o) \/ ThrowsOnModel(o) THEN refused ELSE listObjects(s, Naming(m))
      BY <2>8 DEF RequestOf, WithStore, WithModel, WithIds
    <3> QED BY <2>1, <3>1 DEF listObjects, OtherVerbs
  <2>9. CASE o.method = "listUsers"
    <3>1. q = IF ThrowsOnStore(o) \/ ThrowsOnModel(o) THEN refused ELSE listUsers(s, Naming(m))
      BY <2>9 DEF RequestOf, WithStore, WithModel, WithIds
    <3> QED BY <2>1, <3>1 DEF listUsers, OtherVerbs
  <2> QED BY <1>15, <2>2, <2>3, <2>4, <2>5, <2>6, <2>7, <2>8, <2>9
<1> QED BY <1>4, <1>5, <1>6, <1>7, <1>8, <1>9, <1>10, <1>11, <1>12, <1>13, <1>14, <1>15
    DEF Invocation, Method

-----------------------------------------------------------------------------
\* What the server does.

Changing == {"createStore", "deleteStore", "writeAuthorizationModel", "writeAssertions"}

\* What carrying out a request of call c does, told by the method of c.
MakesStore(c) ==
  /\ invocation[c].method = "createStore"
  /\ NewStore \in StoreId \ Known
  /\ live' = live \cup {NewStore} /\ madeBy' = With(madeBy, NewStore, c)
  /\ UNCHANGED <<models, assertions>>
DeletesStore(c) ==
  /\ invocation[c].method = "deleteStore"
  /\ live' = live \ {AddressedStore(c)}
  /\ UNCHANGED <<models, assertions, madeBy>>
MakesModel(c) ==
  /\ invocation[c].method = "writeAuthorizationModel"
  /\ AddressedStore(c) \in live
  /\ NewModel \in ModelId \ Known
  /\ models' = [models EXCEPT ![AddressedStore(c)] = Append(@, NewModel)]
  /\ madeBy' = With(madeBy, NewModel, c)
  /\ UNCHANGED <<live, assertions>>
Writes(c) ==
  /\ invocation[c].method = "writeAssertions"
  /\ AddressedStore(c) \in live /\ AddressedModel(c) \in Range(models[AddressedStore(c)])
  /\ assertions' = With(assertions, addressed[c], c)
  /\ UNCHANGED <<live, models, madeBy>>
Changes(c) == MakesStore(c) \/ DeletesStore(c) \/ MakesModel(c) \/ Writes(c)

\* What is found, and what is accepted.
LEMMA Finding ==
  ASSUME NEW c \in CallId, Types, RequestsFit, Made(c), ~Refused(c)
  PROVE  LET o == invocation[c]  q == OnWire(c)  s == AddressedStore(c)  m == AddressedModel(c)
         IN  /\ Fits(c, o, addressed[c], q)
             /\ o.method \in Collections => Finds(q)
             /\ o.method \notin Collections /\ Finds(q) => s \in live
             /\ o.method = "deleteStore" /\ ~Finds(q) => s \notin live
             /\ OnModel(o, addressed[c]) \/ OnAssertions(o) =>
                  (Finds(q) => m \in Range(models[s]))
             /\ o.method \in Changing => Accepts(q)
<1> DEFINE o == invocation[c]  q == OnWire(c)  s == AddressedStore(c)  m == AddressedModel(c)
<1>1. Fits(c, o, addressed[c], q)
  BY DEF RequestsFit, Refused, Refusals, Refusal, ErrorOf, NoError, OnWire
<1>2. o.method \in Collections => Finds(q)
  <2>1. SUFFICES ASSUME o.method \in Collections PROVE Finds(q)
    OBVIOUS
  <2>2. q.path = <<"stores">>
    BY <1>1, <2>1 DEF Fits
  <2>3. q.path # <<>> /\ Len(q.path) = 1
    BY <2>2
  <2> QED BY <2>3 DEF Finds, IsCollection, IsItem
<1>3. ASSUME o.method \notin Collections PROVE Len(q.path) \in 2 .. 4 /\ q.path[2] = s
  <2>1. \/ q.path = <<"stores", s>>
        \/ \E x : q.path = <<"stores", s, x>>
        \/ \E x, y : q.path = <<"stores", s, x, y>>
    <3>1. o.method \in Method
      BY DEF Types, Made, Invocation
    <3>2. \/ o.method \in {"getStore", "deleteStore"} \/ OnModels(o, addressed[c])
          \/ OnModel(o, addressed[c]) \/ OnAssertions(o) \/ o.method \in OnVerbs
      BY <1>3, <3>1 DEF Method, Collections, OnModels, OnModel, OnAssertions, OnVerbs
    <3> QED BY <1>1, <3>2 DEF Fits, AddressedStore
  <2> QED BY <2>1
<1>4. ASSUME OnModel(o, addressed[c]) \/ OnAssertions(o) PROVE Len(q.path) = 4 /\ q.path[4] = m
  <2>1. \E x, y : q.path = <<"stores", x, y, m>>
    BY <1>1, <1>4 DEF Fits, AddressedModel
  <2> QED BY <2>1
<1>5. ASSUME o.method = "deleteStore" PROVE Len(q.path) = 2 /\ q.path # <<>>
  <2>1. q.path = <<"stores", s>>
    BY <1>1, <1>5 DEF Fits, AddressedStore
  <2> QED BY <2>1
<1>6. o.method \notin Collections /\ Finds(q) => s \in live
  BY <1>3 DEF Finds, IsCollection
<1>7. o.method = "deleteStore" /\ ~Finds(q) => s \notin live
  BY <1>3, <1>5 DEF Finds, IsItem, Collections
<1>8. OnModel(o, addressed[c]) \/ OnAssertions(o) => (Finds(q) => m \in Range(models[s]))
  BY <1>3, <1>4 DEF Finds, IsItem, OnModel, OnAssertions, Collections
<1> USE DEF Finds, Accepts, IsCollection, IsItem, IsVerb, IsModels, Fits, AddressedStore,
            AddressedModel
<1>9. o.method \in Changing => Accepts(q)
  <2>1. CASE o.method = "createStore"
    BY <1>1, <2>1 DEF Collections
  <2>2. CASE o.method = "deleteStore"
    BY <1>1, <2>2
  <2>3. CASE o.method = "writeAuthorizationModel"
    BY <1>1, <2>3 DEF OnModels
  <2>4. CASE o.method = "writeAssertions"
    BY <1>1, <2>4 DEF OnAssertions
  <2> QED BY <2>1, <2>2, <2>3, <2>4 DEF Changing
<1> QED BY <1>1, <1>2, <1>6, <1>7, <1>8, <1>9

\* What carrying out a request changes.
LEMMA Applying ==
  ASSUME NEW c \in CallId, Types, RequestsFit, Made(c), ~Refused(c), Apply(c, OnWire(c))
  PROVE  LET o == invocation[c]  q == OnWire(c)
         IN  IF Finds(q) /\ o.method \in Changing THEN Changes(c) ELSE UNCHANGED serverVars
<1> DEFINE o == invocation[c]  q == OnWire(c)  s == AddressedStore(c)  m == AddressedModel(c)
<1>1. Fits(c, o, addressed[c], q) /\ addressed[c] = <<s, m>>
  BY Finding DEF RequestsFit, AddressedStore, AddressedModel
<1>2. /\ StoreIdsLeft => NewStore \in StoreId \ Known
      /\ ModelIdsLeft => NewModel \in ModelId \ Known
  BY DEF StoreIdsLeft, ModelIdsLeft, NewStore, NewModel
<1> USE DEF IsCollection, IsStore, IsItem, IsVerb, IsModels, IsAssertions, Fits, serverVars,
            AddressedStore, AddressedModel
<1>3. CASE ~Finds(q) \/ ~Accepts(q)
  BY <1>3, Finding DEF Apply
<1>4. CASE Finds(q) /\ Accepts(q) /\ o.method = "createStore"
  BY <1>1, <1>2, <1>4 DEF Apply, Collections, Changes, MakesStore, Changing
<1>5. CASE Finds(q) /\ Accepts(q) /\ o.method = "deleteStore"
  BY <1>1, <1>5 DEF Apply, Changes, DeletesStore, Changing
<1>6. CASE Finds(q) /\ Accepts(q) /\ o.method = "writeAuthorizationModel"
  <2>1. q.path = <<"stores", s, "authorization-models">> /\ q.method = "POST"
    BY <1>1, <1>6 DEF OnModels
  <2>2. s \in live
    BY <1>6, Finding DEF Collections
  <2>3. /\ ModelIdsLeft
        /\ models' = [models EXCEPT ![s] = Append(@, NewModel)]
        /\ madeBy' = With(madeBy, NewModel, c)
        /\ UNCHANGED <<live, assertions>>
    BY <1>6, <2>1 DEF Apply
  <2> QED BY <1>2, <1>6, <2>2, <2>3 DEF Changes, MakesModel, Changing
<1>7. CASE Finds(q) /\ Accepts(q) /\ o.method = "writeAssertions"
  BY <1>1, <1>7, Finding DEF Apply, OnAssertions, Collections, Changes, Writes, Changing
<1>8. ASSUME Finds(q), Accepts(q), o.method \notin Changing PROVE UNCHANGED serverVars
  <2>1. CASE q.method = "GET"
    BY <1>8, <2>1 DEF Apply
  <2>2. CASE o.method \in OnVerbs
    <3>1. Len(q.path) = 3 /\ q.path[3] # "authorization-models"
      <4>1. PICK x : x # "authorization-models" /\ q.path = <<"stores", s, x>>
        BY <1>1, <2>2
      <4> QED BY <4>1
    <3> QED BY <3>1 DEF Apply
  <2>3. q.method = "GET" \/ o.method \in OnVerbs
    <3>1. o.method \in Method
      BY DEF Types, Made, Invocation
    <3> QED BY <1>1, <1>8, <3>1
        DEF Method, Collections, OnModels, OnModel, OnAssertions, OnVerbs, Changing
  <2> QED BY <2>1, <2>2, <2>3
<1> QED BY <1>3, <1>4, <1>5, <1>6, <1>7, <1>8 DEF Changing

-----------------------------------------------------------------------------
\* The steps, as far as the invariant is concerned.

\* The attempt of c is answered.
Answers(c) ==
  /\ phase[c] = "sending" /\ phase' = [phase EXCEPT ![c] = "resolved"] /\ UNCHANGED error
  /\ Finds(OnWire(c))
  /\ IF invocation[c].method \in Changing THEN Changes(c) ELSE UNCHANGED serverVars
  /\ returned' = [returned EXCEPT ![c] = ResultOf(c, Response(OnWire(c)))]
  /\ UNCHANGED <<clientVars, callVars, late, lost>>

\* It fails: the call is rejected or will try again.  Only a failure that comes of the
\* server's not finding what the path names becomes a not-found error.
Fails(c) ==
  /\ phase[c] = "sending" /\ \E p \in {"rejected", "sleeping"} : phase' = [phase EXCEPT ![c] = p]
  /\ \A d \in CallId :
       \/ error'[d] = error[d]
       \/ error'[d].name # "FgaApiNotFoundError"
       \/ d = c /\ ~Finds(OnWire(c)) /\ UNCHANGED serverVars
  /\ UNCHANGED serverVars \/ (Changes(c) /\ c \in lost')
  /\ late' \subseteq lost' /\ lost \subseteq lost' /\ lost' \subseteq lost \cup {c}
  /\ UNCHANGED <<clientVars, callVars, returned>>

\* It arrives late.
Arrives(c) ==
  /\ c \in lost /\ (UNCHANGED serverVars \/ Changes(c))
  /\ late' \subseteq lost
  /\ UNCHANGED <<clientVars, callVars, returned, lost, phase, error>>

\* The call is authorized, or not, or wakes.
Moves(c) ==
  /\ phase[c] \in {"authorizing", "sleeping"}
  /\ \E p \in {"sending", "rejected"} : phase' = [phase EXCEPT ![c] = p]
  /\ \A d \in CallId : error'[d] = error[d] \/ error'[d].name # "FgaApiNotFoundError"
  /\ UNCHANGED <<clientVars, callVars, returned, serverVars, late, lost>>

\* The call is made, for the ids in a: it is refused or it begins.
Begins(c, o, a) ==
  /\ o \in Invocation /\ ~Made(c)
  /\ a \in Ids \X Ids
  /\ invocation' = [invocation EXCEPT ![c] = o]
  /\ addressed' = [addressed EXCEPT ![c] = a]
  /\ \E q : /\ request' = [request EXCEPT ![c] = q]
           /\ \/ q \in Refusals /\ UNCHANGED phase
              \/ Fits(c, o, a, q) /\ phase' = [phase EXCEPT ![c] = "authorizing"]
  /\ from' = [from EXCEPT ![c] = IF a[1] \in StoreId THEN Len(models[a[1]]) ELSE 0]
  /\ before' = [before EXCEPT ![c] = {d \in CallId : Settled(d)}]
  /\ UNCHANGED <<clientVars, error, returned, serverVars, late, lost>>

\* The application sets an id of the client, or nothing happens.
Sets ==
  /\ storeId' \in ClientStoreIds /\ authorizationModelId' \in ClientModelIds
  /\ changes' \in 0 .. MaxChanges
  /\ UNCHANGED <<phase, error, callVars, returned, serverVars, late, lost>>

\* What is no step of a call leaves the calls and the server alone.
LEMMA SetsOrNothing ==
  ASSUME Types, SetStoreId \/ SetAuthorizationModelId \/ UNCHANGED vars
  PROVE  Sets
  BY ClientMethodsAssumption
  DEF Types, Sets, SetStoreId, SetAuthorizationModelId, vars, clientVars, loopVars

\* A method that is called begins a call, or refuses it.
LEMMA InvokeBegins ==
  ASSUME HP!LoopInvariant, Types, RequestsFit,
         NEW c \in CallId, NEW o \in Possible(c), Invoke(c, o)
  PROVE  \E a : Begins(c, o, a)
<1> DEFINE a == <<StoreIdOf(o), ModelIdOf(o)>>  q == RequestOf(c, o)
<1>1. o \in Invocation /\ ~Made(c)
  BY ClientMethodsAssumption DEF Possible
<1>2. storeId \in Ids /\ authorizationModelId \in Ids
  BY ClientMethodsAssumption DEF Types
<1>3. a \in Ids \X Ids
  BY <1>1, <1>2, IdsOf
<1>4. q \in Refusals \/ Fits(c, o, a, q)
  BY <1>1, <1>2, RequestOfFits
<1>5. \/ q \in Refusals /\ UNCHANGED loopVars
      \/ Fits(c, o, a, q) /\ phase' = [phase EXCEPT ![c] = "authorizing"] /\ UNCHANGED error
  BY <1>4 DEF Invoke, Refusals, Refusal, ErrorOf, NoError, Fits, H!Call
<1>6. /\ invocation' = [invocation EXCEPT ![c] = o]
      /\ request' = [request EXCEPT ![c] = q]
      /\ addressed' = [addressed EXCEPT ![c] = a]
      /\ from' = [from EXCEPT ![c] = IF a[1] \in StoreId THEN Len(models[a[1]]) ELSE 0]
      /\ before' = [before EXCEPT ![c] = {d \in CallId : Settled(d)}]
      /\ UNCHANGED <<clientVars, returned, serverVars, late, lost>>
  BY DEF Invoke, StoreIdOf, ModelIdOf, Or
<1> QED BY <1>1, <1>3, <1>5, <1>6 DEF Begins, loopVars

\* Between its attempts a call only moves on.
LEMMA LoopStepMoves ==
  ASSUME HP!LoopInvariant, NEW c \in CallId, LoopStep(c)
  PROVE  Moves(c)
<1>1. error \in [CallId -> HP!ErrorObject \cup {HP!NoError}]
  BY DEF HP!LoopInvariant, HP!TypeOK
<1>2. ASSUME H!Authorized(c) PROVE Moves(c)
  BY <1>2 DEF H!Authorized, LoopStep, Moves
<1>3. ASSUME NEW e \in TokenErrors, H!Unauthorized(c, e) PROVE Moves(c)
  BY <1>1, <1>3, NotFoundAssumption DEF H!Unauthorized, LoopStep, Moves
<1>4. ASSUME H!Wake(c) PROVE Moves(c)
  <2>1. H!LoopsAgain(iterationCount[c], maxRetry[c])
    BY <1>4 DEF H!Wake, H!LoopsAgain, HP!LoopInvariant, HP!WhileSleeping, HP!TypeOK
  <2> QED BY <1>4, <2>1 DEF H!Wake, LoopStep, Moves
<1> QED BY <1>2, <1>3, <1>4 DEF LoopStep, H!Authorize

\* An attempt that arrives late is carried out, or finds nothing.
LEMMA ArriveLateArrives ==
  ASSUME Types, RequestsFit, NEW c \in CallId, ArriveLate(c)
  PROVE  Arrives(c)
<1>1. c \in lost /\ Made(c) /\ ~Refused(c)
  BY DEF ArriveLate, Types, RequestsFit
<1>2. UNCHANGED serverVars \/ Changes(c)
  BY <1>1, Applying DEF ArriveLate
<1> QED BY <1>1, <1>2 DEF ArriveLate, Arrives, Types, loopVars

\* An attempt is answered or it fails.
LEMMA AttemptEnds ==
  ASSUME HP!LoopInvariant, Types, RequestsFit, NEW c \in CallId, Attempt(c)
  PROVE  Answers(c) \/ Fails(c)
<1>1. phase[c] = "sending" /\ Made(c) /\ ~Refused(c)
  BY DEF Attempt, RequestsFit
<1>2. error \in [CallId -> HP!ErrorObject \cup {HP!NoError}]
  BY DEF HP!LoopInvariant, HP!TypeOK
<1>3. ASSUME NEW err, err.status # 404, AttemptFails(c, err)
      PROVE  /\ \E p \in {"rejected", "sleeping"} : phase' = [phase EXCEPT ![c] = p]
             /\ \A d \in CallId : error'[d] = error[d] \/ error'[d].name # "FgaApiNotFoundError"
  <2>1. H!ErrorOf(H!ErrorClassOf(err)).name # "FgaApiNotFoundError"
    BY <1>3 DEF H!ErrorOf, H!ErrorClassOf
  <2> QED BY <1>2, <1>3, <2>1 DEF AttemptFails, H!Throw, H!Sleep
<1>4. CASE Serve(c)
  <2>1. CASE Finds(OnWire(c)) /\ Accepts(OnWire(c))
    <3>1. IF invocation[c].method \in Changing THEN Changes(c) ELSE UNCHANGED serverVars
      BY <1>1, <1>4, <2>1, Applying DEF Serve
    <3> QED BY <1>1, <1>4, <2>1, <3>1 DEF Serve, H!Succeed, Answers
  <2>2. CASE Finds(OnWire(c)) /\ ~Accepts(OnWire(c))
    <3>1. Invalid.status # 404 /\ AttemptFails(c, Invalid)
      BY <1>4, <2>2 DEF Serve, Invalid
    <3>2. UNCHANGED serverVars
      BY <1>4, <2>2 DEF Serve, Apply
    <3> QED BY <1>1, <1>3, <1>4, <2>2, <3>1, <3>2 DEF Serve, Fails, Types
  <2>3. CASE ~Finds(OnWire(c))
    <3>1. AttemptFails(c, NotFound)
      BY <1>4, <2>3 DEF Serve
    <3>2. UNCHANGED serverVars
      BY <1>4, <2>3 DEF Serve, Apply
    <3>3. /\ \E p \in {"rejected", "sleeping"} : phase' = [phase EXCEPT ![c] = p]
          /\ \A d \in CallId : error'[d] = error[d] \/ d = c
      BY <1>2, <3>1 DEF AttemptFails, H!Throw, H!Sleep
    <3> QED BY <1>1, <1>4, <2>3, <3>2, <3>3 DEF Serve, Fails, Types
  <2> QED BY <2>1, <2>2, <2>3
<1>5. CASE LoseAnswer(c)
  <2>1. UNCHANGED serverVars \/ Changes(c)
    BY <1>1, <1>5, Applying DEF LoseAnswer
  <2>2. NetworkError.status # 404
    BY DEF NetworkError
  <2> QED BY <1>1, <1>3, <1>5, <2>1, <2>2 DEF LoseAnswer, Fails, Types
<1>6. CASE TurnAway(c)
  BY <1>1, <1>3, <1>6, NotFoundAssumption DEF TurnAway, Fails, Types
<1>7. CASE LoseAttempt(c)
  <2>1. NetworkError.status # 404
    BY DEF NetworkError
  <2> QED BY <1>1, <1>3, <1>7, <2>1 DEF LoseAttempt, Fails, Types
<1> QED BY <1>4, <1>5, <1>6, <1>7 DEF Attempt

\* Every step is one of these.
LEMMA StepIs ==
  ASSUME HP!LoopInvariant, Types, RequestsFit, [Next]_vars
  PROVE  \/ Sets
         \/ \E c \in CallId :
              Answers(c) \/ Fails(c) \/ Arrives(c) \/ Moves(c) \/ \E o, a : Begins(c, o, a)
<1>1. CASE SetStoreId \/ SetAuthorizationModelId \/ UNCHANGED vars
  BY <1>1, SetsOrNothing
<1>2. ASSUME NEW c \in CallId, NEW o \in Possible(c), Invoke(c, o)
      PROVE  \E p, a : Begins(c, p, a)
  BY <1>2, InvokeBegins
<1>3. ASSUME NEW c \in CallId, LoopStep(c) \/ ArriveLate(c) \/ Attempt(c)
      PROVE  Answers(c) \/ Fails(c) \/ Arrives(c) \/ Moves(c)
  BY <1>3, LoopStepMoves, ArriveLateArrives, AttemptEnds
<1> QED BY <1>1, <1>2, <1>3 DEF Next

-----------------------------------------------------------------------------
\* The invariant is inductive.

LEMMA InvariantInit == Init => MethodsInvariant
<1> SUFFICES ASSUME Init PROVE MethodsInvariant
  OBVIOUS
<1>1. HP!LoopInvariant
  BY LoopsInvariant
<1>2. Types
  BY ClientMethodsAssumption DEF Init, Types, Range
<1>3. /\ \A c \in CallId :
           phase[c] = "idle" /\ error[c].name = "none" /\ ~Made(c) /\ before[c] = {}
      /\ lost = {} /\ madeBy = <<>> /\ assertions = <<>> /\ live = DOMAIN FirstModels
  BY DEF Init, H!Init, H!NoError, Made
<1>4. DOMAIN madeBy = {} /\ DOMAIN assertions = {}
  BY <1>3
<1>5. RequestsFit
  BY <1>3 DEF RequestsFit, Init
<1>6. MadeByCalls /\ ReturnedIsMade /\ FoundStores /\ ModelsGrow /\ SettledBefore
  BY <1>3, <1>4 DEF MadeByCalls, ReturnedIsMade, FoundStores, ModelsGrow, SettledBefore, Resolved
<1>7. /\ DeletesHitTheirStore /\ CallsTouchOnlyTheirStore /\ LatestWasLatest
      /\ AssertionsKeepCallOrder /\ FulfilledMeansFound
  BY <1>3, <1>4 DEF DeletesHitTheirStore, CallsTouchOnlyTheirStore, LatestWasLatest,
     AssertionsKeepCallOrder, FulfilledMeansFound, Calls
<1> QED BY <1>1, <1>2, <1>5, <1>6, <1>7 DEF MethodsInvariant

\* What every step of a call made keeps of the others and of what has been settled.
LEMMA Steady ==
  ASSUME MethodsInvariant, NEW c \in CallId, Answers(c) \/ Fails(c) \/ Arrives(c) \/ Moves(c)
  PROVE  /\ UNCHANGED callVars
         /\ Made(c) /\ ~Refused(c) /\ addressed[c] \in Ids \X Ids
         /\ addressed[c] = <<AddressedStore(c), AddressedModel(c)>>
         /\ \A d \in CallId : d # c => phase'[d] = phase[d] /\ returned'[d] = returned[d]
         /\ \A d \in CallId : H!Settled(d) => phase'[d] = phase[d] /\ returned'[d] = returned[d]
         /\ \A d \in CallId :
              phase'[d] = "resolved" => phase[d] = "resolved" \/ (d = c /\ Answers(c))
         /\ UNCHANGED serverVars \/ (Changes(c) /\ (c \in lost' \/ Answers(c)))
         /\ lost \subseteq lost' /\ lost' \subseteq lost \cup {c}
<1>1. phase \in [CallId -> HP!Phase]
  BY DEF MethodsInvariant, HP!LoopInvariant, HP!TypeOK
<1>2. DOMAIN returned = CallId
  BY DEF MethodsInvariant, Types
<1>3. UNCHANGED callVars /\ Made(c) /\ ~Refused(c) /\ addressed[c] \in Ids \X Ids
  BY DEF MethodsInvariant, RequestsFit, Answers, Fails, Arrives, Moves
<1>4. addressed[c] = <<AddressedStore(c), AddressedModel(c)>>
  BY <1>3 DEF AddressedStore, AddressedModel
<1>5. CASE Answers(c)
  BY <1>1, <1>2, <1>3, <1>4, <1>5 DEF Answers, H!Settled
<1>6. CASE Fails(c)
  BY <1>1, <1>2, <1>3, <1>4, <1>6 DEF Fails, H!Settled
<1>7. CASE Arrives(c)
  BY <1>1, <1>2, <1>3, <1>4, <1>7 DEF Arrives, H!Settled
<1>8. CASE Moves(c)
  BY <1>1, <1>2, <1>3, <1>4, <1>8 DEF Moves, H!Settled
<1> QED BY <1>5, <1>6, <1>7, <1>8

\* What is known is not made again.
LEMMA KnownIds ==
  /\ DOMAIN FirstModels \subseteq Known /\ DOMAIN madeBy \subseteq Known
  /\ \A s \in StoreId : Range(models[s]) \subseteq Known
  /\ \A c \in CallId : Made(c) => Range(addressed[c]) \subseteq Known
<1>1. \A s \in StoreId : Range(models[s]) \subseteq AllModels
  BY DEF AllModels
<1>2. \A c \in CallId : Made(c) => Range(addressed[c]) \subseteq Named
  BY DEF Named
<1> QED BY <1>1, <1>2 DEF Known

\* What the server has is kept, whatever it does.
LEMMA Kept ==
  ASSUME MethodsInvariant, NEW c \in CallId, addressed[c] \in Ids \X Ids, Made(c),
         UNCHANGED serverVars \/ Changes(c)
  PROVE  /\ live' \subseteq StoreId
         /\ models' \in [StoreId -> Seq(ModelId)]
         /\ DOMAIN assertions' \subseteq StoreId \X ModelId
         /\ DOMAIN madeBy' \subseteq StoreId \cup ModelId
         /\ DOMAIN madeBy \subseteq DOMAIN madeBy'
         /\ \A id \in DOMAIN madeBy : madeBy'[id] = madeBy[id]
         /\ \A s \in StoreId : /\ Len(models[s]) <= Len(models'[s])
                               /\ \A k \in 1 .. Len(models[s]) : models'[s][k] = models[s][k]
                               /\ Range(models[s]) \subseteq Range(models'[s])
<1> USE DEF MethodsInvariant, Types
<1>1. CASE UNCHANGED serverVars
  BY <1>1 DEF serverVars
<1>2. CASE MakesStore(c)
  <2>1. NewStore \notin DOMAIN madeBy
    BY <1>2, KnownIds DEF MakesStore
  <2> QED BY <1>2, <2>1 DEF MakesStore, With
<1>3. CASE DeletesStore(c)
  BY <1>3 DEF DeletesStore
<1>4. CASE MakesModel(c)
  <2>1. NewModel \notin DOMAIN madeBy
    BY <1>4, KnownIds DEF MakesModel
  <2>2. /\ models' = [models EXCEPT ![AddressedStore(c)]
                        = Append(models[AddressedStore(c)], NewModel)]
        /\ AddressedStore(c) \in StoreId /\ NewModel \in ModelId
    BY <1>4 DEF MakesModel
  <2>3. models' \in [StoreId -> Seq(ModelId)]
    BY <2>2
  <2>4. \A s \in StoreId : /\ Len(models[s]) <= Len(models'[s])
                           /\ \A k \in 1 .. Len(models[s]) : models'[s][k] = models[s][k]
    BY <2>2
  <2>5. \A s \in StoreId : Range(models[s]) \subseteq Range(models'[s])
    <3>1. SUFFICES ASSUME NEW s \in StoreId, NEW k \in DOMAIN models[s]
                   PROVE  \E j \in DOMAIN models'[s] : models'[s][j] = models[s][k]
      BY DEF Range
    <3>2. models[s] \in Seq(ModelId) /\ models'[s] \in Seq(ModelId)
      BY <2>3
    <3>3. k \in 1 .. Len(models[s]) /\ k \in 1 .. Len(models'[s])
      BY <2>4, <3>2
    <3>4. k \in DOMAIN models'[s]
      BY <3>2, <3>3
    <3> QED BY <2>4, <3>3, <3>4
  <2> QED BY <1>4, <2>1, <2>3, <2>4, <2>5 DEF MakesModel, With
<1>5. CASE Writes(c)
  <2>1. addressed[c] \in StoreId \X ModelId
    <3>1. AddressedStore(c) \in StoreId /\ AddressedModel(c) \in Range(models[AddressedStore(c)])
      BY <1>5 DEF Writes
    <3>2. Range(models[AddressedStore(c)]) \subseteq ModelId
      BY <3>1 DEF Range
    <3> QED BY <3>1, <3>2 DEF AddressedStore, AddressedModel
  <2> QED BY <1>5, <2>1 DEF Writes, With
<1> QED BY <1>1, <1>2, <1>3, <1>4, <1>5 DEF Changes

\* A call that is made has not begun, been refused, or come before another.
LEMMA Beginning ==
  ASSUME MethodsInvariant, NEW c \in CallId, NEW o, NEW a, Begins(c, o, a)
  PROVE  /\ phase[c] = "idle" /\ c \notin lost /\ ~Settled(c)
         /\ error[c].name # "FgaApiNotFoundError"
         /\ phase'[c] \in {"idle", "authorizing"} /\ Made(c)'
         /\ invocation'[c] = o /\ addressed'[c] = a
         /\ request'[c] \in Refusals \/ Fits(c, o, a, request'[c])
         /\ phase'[c] # "idle" => request'[c].thrown = NoError
         /\ \A d \in CallId : d # c =>
              /\ invocation'[d] = invocation[d] /\ request'[d] = request[d]
              /\ addressed'[d] = addressed[d] /\ from'[d] = from[d] /\ before'[d] = before[d]
              /\ phase'[d] = phase[d]
<1>1. phase \in [CallId -> HP!Phase]
  BY DEF MethodsInvariant, HP!LoopInvariant, HP!TypeOK
<1>2. phase[c] = "idle" /\ c \notin lost /\ ~Settled(c) /\ error[c].name # "FgaApiNotFoundError"
  BY DEF MethodsInvariant, RequestsFit, Begins, Settled, H!Settled, Refused
<1>3. DOMAIN request = CallId /\ invocation \in [CallId -> Invocation \cup {Unset}]
      /\ addressed \in [CallId -> (Ids \X Ids) \cup {Unset}] /\ from \in [CallId -> Nat]
      /\ before \in [CallId -> SUBSET CallId]
  BY DEF MethodsInvariant, Types
<1>4. PICK q : /\ request' = [request EXCEPT ![c] = q]
               /\ \/ q \in Refusals /\ UNCHANGED phase
                  \/ Fits(c, o, a, q) /\ phase' = [phase EXCEPT ![c] = "authorizing"]
  BY DEF Begins
<1>5. request'[c] = q /\ invocation'[c] = o /\ addressed'[c] = a
  BY <1>3, <1>4 DEF Begins
<1>6. Made(c)'
  BY <1>5, ClientMethodsAssumption DEF Begins, Made
<1>7. phase'[c] \in {"idle", "authorizing"} /\ (q \in Refusals \/ Fits(c, o, a, q))
      /\ (phase'[c] # "idle" => q.thrown = NoError)
  BY <1>1, <1>2, <1>4 DEF Fits
<1>8. \A d \in CallId : d # c =>
              /\ invocation'[d] = invocation[d] /\ request'[d] = request[d]
              /\ addressed'[d] = addressed[d] /\ from'[d] = from[d] /\ before'[d] = before[d]
              /\ phase'[d] = phase[d]
  BY <1>1, <1>3, <1>4 DEF Begins
<1> QED BY <1>2, <1>5, <1>6, <1>7, <1>8

-----------------------------------------------------------------------------
\* Each part of the invariant is kept by every step of a call.

\* A step of a call that has been made.
Step(c) == Answers(c) \/ Fails(c) \/ Arrives(c) \/ Moves(c)

\* Every variable stays in its range.
LEMMA TypesStep ==
  ASSUME MethodsInvariant, NEW c \in CallId, Step(c) \/ \E o, a : Begins(c, o, a)
  PROVE  Types'
<1>1. CASE Step(c)
  <2>1. /\ live' \subseteq StoreId /\ models' \in [StoreId -> Seq(ModelId)]
        /\ DOMAIN assertions' \subseteq StoreId \X ModelId
        /\ DOMAIN madeBy' \subseteq StoreId \cup ModelId
    BY <1>1, Steady, Kept DEF Step
  <2>2. UNCHANGED <<clientVars, callVars>> /\ DOMAIN returned' = CallId /\ late' \subseteq lost'
    BY <1>1 DEF Step, Answers, Fails, Arrives, Moves, MethodsInvariant, Types
  <2>3. lost' \subseteq CallId
    BY <1>1, Steady DEF Step, MethodsInvariant, Types
  <2> QED BY <2>1, <2>2, <2>3 DEF MethodsInvariant, Types, clientVars, callVars
<1>2. ASSUME NEW o, NEW a, Begins(c, o, a) PROVE Types'
  <2>1. models \in [StoreId -> Seq(ModelId)]
    BY DEF MethodsInvariant, Types
  <2>2. (IF a[1] \in StoreId THEN Len(models[a[1]]) ELSE 0) \in Nat
    BY <2>1
  <2>3. from' \in [CallId -> Nat]
    BY <1>2, <2>2 DEF Begins, MethodsInvariant, Types
  <2>4. before' \in [CallId -> SUBSET CallId]
    BY <1>2 DEF Begins, MethodsInvariant, Types
  <2>5. /\ invocation' \in [CallId -> Invocation \cup {Unset}]
        /\ addressed' \in [CallId -> (Ids \X Ids) \cup {Unset}]
        /\ DOMAIN request' = CallId
    BY <1>2 DEF Begins, MethodsInvariant, Types
  <2> QED BY <1>2, <2>3, <2>4, <2>5 DEF Begins, MethodsInvariant, Types, clientVars, serverVars
<1> QED BY <1>1, <1>2

\* The request of a call is made once, and stays.
LEMMA RequestsFitStep ==
  ASSUME MethodsInvariant, NEW c \in CallId, Step(c) \/ \E o, a : Begins(c, o, a)
  PROVE  RequestsFit'
<1> SUFFICES ASSUME NEW d \in CallId
             PROVE  /\ ~Made(d)' => request'[d] = Unset /\ before'[d] = {}
                                    /\ error'[d].name # "FgaApiNotFoundError"
                    /\ Made(d)' => /\ addressed'[d] \in Ids \X Ids
                                   /\ \/ request'[d] \in Refusals
                                      \/ Fits(d, invocation'[d], addressed'[d], request'[d])
                    /\ phase'[d] # "idle" \/ d \in lost' => Made(d)' /\ ~Refused(d)'
  BY DEF RequestsFit, Fits, OnModels, OnModel, OnAssertions, NoModelId, Refusals, Refusal
<1>1. /\ ~Made(d) => request[d] = Unset /\ before[d] = {} /\ error[d].name # "FgaApiNotFoundError"
      /\ Made(d) => /\ addressed[d] \in Ids \X Ids
                    /\ request[d] \in Refusals \/ Fits(d, invocation[d], addressed[d], request[d])
      /\ phase[d] # "idle" \/ d \in lost => Made(d) /\ ~Refused(d)
  BY DEF MethodsInvariant, RequestsFit
<1>2. CASE Step(c)
  <2>1. UNCHANGED callVars /\ Made(c) /\ ~Refused(c) /\ lost' \subseteq lost \cup {c}
        /\ (d # c => phase'[d] = phase[d])
    BY <1>2, Steady DEF Step
  <2>2. ~Made(d) => error'[d].name # "FgaApiNotFoundError"
    BY <1>1, <1>2, <2>1 DEF Step, Answers, Fails, Arrives, Moves
  <2> QED BY <1>1, <2>1, <2>2 DEF callVars, Made, Refused
<1>3. ASSUME NEW o, NEW a, Begins(c, o, a)
      PROVE  /\ ~Made(d)' => request'[d] = Unset /\ before'[d] = {}
                             /\ error'[d].name # "FgaApiNotFoundError"
             /\ Made(d)' => /\ addressed'[d] \in Ids \X Ids
                            /\ \/ request'[d] \in Refusals
                               \/ Fits(d, invocation'[d], addressed'[d], request'[d])
             /\ phase'[d] # "idle" \/ d \in lost' => Made(d)' /\ ~Refused(d)'
  <2>1. error' = error /\ lost' = lost /\ a \in Ids \X Ids
    BY <1>3 DEF Begins
  <2>2. CASE d = c
    BY <1>3, <2>1, <2>2, Beginning DEF Refused, Made
  <2>3. CASE d # c
    BY <1>1, <1>3, <2>1, <2>3, Beginning DEF Refused, Made
  <2> QED BY <2>2, <2>3
<1> QED BY <1>2, <1>3

\* What has settled stays settled, and no call settles before it is made.
LEMMA SettledBeforeStep ==
  ASSUME MethodsInvariant, NEW c \in CallId, Step(c) \/ \E o, a : Begins(c, o, a)
  PROVE  SettledBefore'
<1>1. before \in [CallId -> SUBSET CallId] /\ SettledBefore
  BY DEF MethodsInvariant, Types
<1>2. CASE Step(c)
  <2>1. /\ UNCHANGED callVars
        /\ \A d \in CallId : H!Settled(d) => phase'[d] = phase[d]
    BY <1>2, Steady DEF Step
  <2>2. \A d \in CallId : Settled(d) => Settled(d)'
    BY <2>1 DEF Settled, Refused, Made, callVars, H!Settled
  <2> QED BY <1>1, <2>1, <2>2 DEF SettledBefore, callVars
<1>3. ASSUME NEW o, NEW a, Begins(c, o, a) PROVE SettledBefore'
  <2>1. \A d \in CallId : Settled(d) => d # c /\ Settled(d)'
    BY <1>3, Beginning DEF Settled, Refused, Made, H!Settled
  <2>2. before' = [before EXCEPT ![c] = {d \in CallId : Settled(d)}]
    BY <1>3 DEF Begins
  <2> QED BY <1>1, <2>1, <2>2 DEF SettledBefore
<1> QED BY <1>2, <1>3

\* Models are only added.
LEMMA ModelsGrowStep ==
  ASSUME MethodsInvariant, NEW c \in CallId, Step(c) \/ \E o, a : Begins(c, o, a)
  PROVE  ModelsGrow'
<1>1. ModelsGrow /\ models \in [StoreId -> Seq(ModelId)] /\ from \in [CallId -> Nat]
  BY DEF MethodsInvariant, Types
<1>2. CASE Step(c)
  <2>1. UNCHANGED callVars
        /\ \A s \in StoreId : Len(models[s]) <= Len(models'[s]) /\ models'[s] \in Seq(ModelId)
    BY <1>2, Steady, Kept DEF Step
  <2>2. \A s \in StoreId : Len(models[s]) \in Nat /\ Len(models'[s]) \in Nat
    BY <1>1, <2>1
  <2> QED BY <1>1, <2>1, <2>2 DEF ModelsGrow, callVars, Made, AddressedStore
<1>3. ASSUME NEW o, NEW a, Begins(c, o, a) PROVE ModelsGrow'
  <2>1. UNCHANGED models /\ from'[c] = IF a[1] \in StoreId THEN Len(models[a[1]]) ELSE 0
    BY <1>1, <1>3 DEF Begins, serverVars
  <2>2. \A s \in StoreId : Len(models[s]) \in Nat
    BY <1>1
  <2> QED BY <1>1, <1>3, <2>1, <2>2, Beginning DEF ModelsGrow, Made, AddressedStore
<1> QED BY <1>2, <1>3

\* What an answered call has found, done and been told.
LEMMA AnsweredCall ==
  ASSUME MethodsInvariant, NEW c \in CallId, Answers(c)
  PROVE  LET method == invocation[c].method  s == AddressedStore(c)  ms == models[s]
         IN  /\ phase'[c] = "resolved"
             /\ method = "createStore" => MakesStore(c) /\ returned'[c] = NewStore
             /\ method = "deleteStore" => DeletesStore(c)
             /\ method = "writeAuthorizationModel" => MakesModel(c) /\ returned'[c] = NewModel
             /\ method = "writeAssertions" => Writes(c)
             /\ method \notin Changing => UNCHANGED serverVars
             /\ method \notin Collections => s \in live
             /\ OnModel(invocation[c], addressed[c]) \/ OnAssertions(invocation[c]) =>
                  AddressedModel(c) \in Range(ms)
             /\ method = "readLatestAuthorizationModel" =>
                  returned'[c] = IF ms = <<>> THEN Unset ELSE ms[Len(ms)]
<1> DEFINE o == invocation[c]  q == OnWire(c)  s == AddressedStore(c)  ms == models[s]
<1>1. Types /\ RequestsFit /\ Made(c) /\ ~Refused(c)
  BY Steady DEF MethodsInvariant
<1>2. /\ Fits(c, o, addressed[c], q)
      /\ o.method \notin Collections => s \in live
      /\ OnModel(o, addressed[c]) \/ OnAssertions(o) => AddressedModel(c) \in Range(ms)
  BY <1>1, Finding DEF Answers
<1>3. phase'[c] = "resolved" /\ returned'[c] = ResultOf(c, Response(q))
  BY DEF Answers, MethodsInvariant, Types, HP!LoopInvariant, HP!TypeOK
<1>4. /\ o.method = "createStore" => MakesStore(c)
      /\ o.method = "deleteStore" => DeletesStore(c)
      /\ o.method = "writeAuthorizationModel" => MakesModel(c)
      /\ o.method = "writeAssertions" => Writes(c)
      /\ o.method \notin Changing => UNCHANGED serverVars
  BY DEF Answers, Changes, Changing, MakesStore, DeletesStore, MakesModel, Writes
<1>5. ASSUME o.method = "createStore" PROVE returned'[c] = NewStore
  <2>1. q.path = <<"stores">> /\ q.method = "POST"
    BY <1>2, <1>5 DEF Fits, Collections
  <2>2. IsCollection(q) /\ ~IsModels(q) /\ ~IsAssertions(q)
    BY <2>1 DEF IsCollection, IsModels, IsAssertions, IsVerb, IsItem
  <2>3. Response(q) = NewStore
    BY <2>1, <2>2 DEF Response
  <2> QED BY <1>3, <1>5, <2>3 DEF ResultOf
<1>6. ASSUME o.method = "writeAuthorizationModel" PROVE returned'[c] = NewModel
  <2>1. q.path = <<"stores", s, "authorization-models">> /\ q.method = "POST"
    BY <1>2, <1>6 DEF Fits, OnModels, AddressedStore
  <2>2. ~IsCollection(q) /\ IsModels(q) /\ ~IsAssertions(q)
    BY <2>1 DEF IsCollection, IsModels, IsAssertions, IsVerb, IsItem
  <2>3. Response(q) = NewModel
    BY <2>1, <2>2 DEF Response
  <2> QED BY <1>3, <1>6, <2>3 DEF ResultOf
<1>7. ASSUME o.method = "readLatestAuthorizationModel"
      PROVE  returned'[c] = IF ms = <<>> THEN Unset ELSE ms[Len(ms)]
  <2>1. q.path = <<"stores", s, "authorization-models">> /\ q.method = "GET"
    BY <1>2, <1>7 DEF Fits, OnModels, AddressedStore
  <2>2. ~IsCollection(q) /\ IsModels(q) /\ ~IsAssertions(q)
    BY <2>1 DEF IsCollection, IsModels, IsAssertions, IsVerb, IsItem
  <2>3. Response(q) = Page(q)
    BY <2>1, <2>2 DEF Response
  <2>4. ms \in Seq(ModelId)
    BY <1>1, <1>2, <1>7 DEF Types, Collections
  <2>5. CASE ms = <<>>
    <3>1. Page(q) = <<>>
      BY <2>1, <2>4, <2>5 DEF Page
    <3> QED BY <1>3, <1>7, <2>3, <2>5, <3>1 DEF ResultOf
  <2>6. CASE ms # <<>>
    <3>1. PICK n \in Nat : n >= 1 /\ Page(q) = [k \in 1 .. n |-> ms[Len(ms) + 1 - k]]
      <4>1. Len(ms) \in Nat /\ Len(ms) >= 1
        BY <2>4, <2>6
      <4>2. Page(q) =
              [k \in 1 .. (IF <<"page_size", 1>> \in q.query /\ Len(ms) > 1 THEN 1
                          ELSE Len(ms)) |-> ms[Len(ms) + 1 - k]]
        BY <2>1 DEF Page
      <4> QED BY <4>1, <4>2
    <3>2. Page(q) # <<>> /\ Page(q)[1] = ms[Len(ms)]
      BY <2>4, <3>1
    <3> QED BY <1>3, <1>7, <2>3, <2>6, <3>2 DEF ResultOf
  <2> QED BY <2>5, <2>6
<1> QED BY <1>2, <1>3, <1>4, <1>5, <1>6, <1>7

\* What is there is what the calls have made.
LEMMA MadeByCallsStep ==
  ASSUME MethodsInvariant, NEW c \in CallId, Step(c) \/ \E o, a : Begins(c, o, a)
  PROVE  MadeByCalls'
<1>1. MadeByCalls /\ live \subseteq StoreId
  BY DEF MethodsInvariant, Types
<1>2. CASE Step(c)
  <2>1. /\ invocation' = invocation /\ Made(c)
        /\ \A d \in CallId :
             phase[d] = "resolved" => phase'[d] = "resolved" /\ returned'[d] = returned[d]
        /\ UNCHANGED serverVars \/ (Changes(c) /\ (c \in lost' \/ Answers(c)))
        /\ lost \subseteq lost'
    BY <1>2, Steady DEF Step, callVars, H!Settled
  <2>2. /\ DOMAIN madeBy \subseteq DOMAIN madeBy'
        /\ \A id \in DOMAIN madeBy : madeBy'[id] = madeBy[id]
    BY <1>2, Steady, Kept DEF Step
  <2> DEFINE MadeRight(id, d) ==
               /\ d \in CallId /\ invocation'[d] # Unset
               /\ \/ invocation'[d].method = "createStore" /\ id \in StoreId
                  \/ invocation'[d].method = "writeAuthorizationModel" /\ id \in ModelId
               /\ d \in lost' \/ (phase'[d] = "resolved" /\ returned'[d] = id)
  <2>3. ASSUME NEW id \in DOMAIN madeBy PROVE MadeRight(id, madeBy'[id])
    <3>1. PICK d \in CallId :
            /\ d = madeBy[id] /\ Made(d)
            /\ \/ invocation[d].method = "createStore" /\ id \in StoreId
               \/ invocation[d].method = "writeAuthorizationModel" /\ id \in ModelId
            /\ d \in lost \/ (Resolved(d) /\ returned[d] = id)
      BY <1>1 DEF MadeByCalls
    <3>2. MadeRight(id, d)
      BY <2>1, <3>1 DEF Made, Resolved
    <3>3. madeBy'[id] = d
      BY <2>2, <3>1
    <3> HIDE DEF MadeRight
    <3> QED BY <3>2, <3>3
  <2>4. ASSUME NEW id \in DOMAIN madeBy' PROVE MadeRight(id, madeBy'[id])
    <3>1. CASE id \in DOMAIN madeBy
      BY <2>3, <3>1
    <3>2. CASE id \notin DOMAIN madeBy
      <4>1. Changes(c) /\ (c \in lost' \/ Answers(c)) /\ ~UNCHANGED madeBy
        BY <2>1, <2>4, <3>2 DEF serverVars
      <4>2. CASE MakesStore(c)
        <5>1. id = NewStore /\ madeBy'[id] = c
          BY <2>4, <3>2, <4>2 DEF MakesStore, With
        <5>2. c \in lost' \/ (phase'[c] = "resolved" /\ returned'[c] = id)
          BY <4>1, <4>2, <5>1, AnsweredCall DEF MakesStore
        <5>3. MadeRight(id, c)
          BY <2>1, <4>2, <5>1, <5>2 DEF MakesStore, Made, Resolved
        <5> HIDE DEF MadeRight
        <5> QED BY <5>1, <5>3
      <4>3. CASE MakesModel(c)
        <5>1. id = NewModel /\ madeBy'[id] = c
          BY <2>4, <3>2, <4>3 DEF MakesModel, With
        <5>2. c \in lost' \/ (phase'[c] = "resolved" /\ returned'[c] = id)
          BY <4>1, <4>3, <5>1, AnsweredCall DEF MakesModel
        <5>3. MadeRight(id, c)
          BY <2>1, <4>3, <5>1, <5>2 DEF MakesModel, Made, Resolved
        <5> HIDE DEF MadeRight
        <5> QED BY <5>1, <5>3
      <4> QED BY <4>1, <4>2, <4>3 DEF Changes, DeletesStore, Writes
    <3> QED BY <3>1, <3>2
  <2>5. live' \subseteq DOMAIN FirstModels \cup DOMAIN madeBy'
    <3>1. \/ live' \subseteq live
          \/ live' = live \cup {NewStore} /\ madeBy' = With(madeBy, NewStore, c)
      BY <2>1 DEF Changes, MakesStore, DeletesStore, MakesModel, Writes, serverVars
    <3> QED BY <1>1, <2>2, <3>1 DEF MadeByCalls, With
  <2>6. ASSUME NEW a \in DOMAIN assertions'
        PROVE  assertions'[a] \in CallId /\ Made(assertions'[a])
    <3>1. assertions'[a] = c \/ (a \in DOMAIN assertions /\ assertions'[a] = assertions[a])
      <4>1. assertions' = assertions \/ assertions' = With(assertions, addressed[c], c)
        BY <2>1 DEF Changes, MakesStore, DeletesStore, MakesModel, Writes, serverVars
      <4> QED BY <2>6, <4>1 DEF With
    <3> QED BY <1>1, <2>1, <3>1 DEF MadeByCalls
  <2>7. \A id \in DOMAIN madeBy' : MadeRight(id, madeBy'[id])
    BY <2>4
  <2>8. \A a \in DOMAIN assertions' :
          assertions'[a] \in CallId /\ invocation'[assertions'[a]] # Unset
    BY <2>1, <2>6 DEF Made
  <2> QED BY <2>5, <2>7, <2>8 DEF MadeByCalls, Made, Resolved
<1>3. ASSUME NEW o, NEW a, Begins(c, o, a) PROVE MadeByCalls'
  <2>1. UNCHANGED <<serverVars, lost, returned>>
    BY <1>3 DEF Begins
  <2>2. \A d \in CallId : Made(d) => invocation'[d] = invocation[d] /\ phase'[d] = phase[d]
    <3>1. ~Made(c)
      BY <1>3 DEF Begins
    <3> QED BY <1>3, <3>1, Beginning
  <2> DEFINE MadeRight(id, d) ==
               /\ d \in CallId /\ invocation'[d] # Unset
               /\ \/ invocation'[d].method = "createStore" /\ id \in StoreId
                  \/ invocation'[d].method = "writeAuthorizationModel" /\ id \in ModelId
               /\ d \in lost' \/ (phase'[d] = "resolved" /\ returned'[d] = id)
  <2>3. ASSUME NEW id \in DOMAIN madeBy' PROVE MadeRight(id, madeBy'[id])
    <3>1. PICK d \in CallId :
            /\ d = madeBy[id] /\ Made(d)
            /\ \/ invocation[d].method = "createStore" /\ id \in StoreId
               \/ invocation[d].method = "writeAuthorizationModel" /\ id \in ModelId
            /\ d \in lost \/ (Resolved(d) /\ returned[d] = id)
      BY <1>1, <2>1 DEF MadeByCalls, serverVars
    <3>2. MadeRight(id, d)
      BY <2>1, <2>2, <3>1 DEF Resolved, Made
    <3>3. madeBy'[id] = d
      BY <2>1, <3>1 DEF serverVars
    <3> HIDE DEF MadeRight
    <3> QED BY <3>2, <3>3
  <2>4. \A b \in DOMAIN assertions' :
          assertions'[b] \in CallId /\ invocation'[assertions'[b]] # Unset
    BY <1>1, <2>1, <2>2 DEF MadeByCalls, serverVars, Made
  <2>5. live' \subseteq DOMAIN FirstModels \cup DOMAIN madeBy'
    BY <1>1, <2>1 DEF MadeByCalls, serverVars
  <2> QED BY <2>3, <2>4, <2>5 DEF MadeByCalls, Made, Resolved
<1> QED BY <1>2, <1>3

\* A fulfilled call's answer stays what it is.
LEMMA ReturnedIsMadeStep ==
  ASSUME MethodsInvariant, NEW c \in CallId, Step(c) \/ \E o, a : Begins(c, o, a)
  PROVE  ReturnedIsMade'
<1>1. ReturnedIsMade
  BY DEF MethodsInvariant
<1>2. CASE Step(c)
  <2>1. /\ UNCHANGED callVars
        /\ \A d \in CallId : H!Settled(d) => phase'[d] = phase[d] /\ returned'[d] = returned[d]
        /\ \A d \in CallId :
             phase'[d] = "resolved" => phase[d] = "resolved" \/ (d = c /\ Answers(c))
    BY <1>2, Steady DEF Step
  <2>2. /\ DOMAIN madeBy \subseteq DOMAIN madeBy'
        /\ \A id \in DOMAIN madeBy : madeBy'[id] = madeBy[id]
    BY <1>2, Steady, Kept DEF Step
  <2>3. ASSUME Answers(c), invocation[c].method \in {"createStore", "writeAuthorizationModel"}
        PROVE  returned'[c] \in DOMAIN madeBy' /\ madeBy'[returned'[c]] = c
    BY <2>3, AnsweredCall DEF MakesStore, MakesModel, With
  <2> QED BY <1>1, <2>1, <2>2, <2>3 DEF ReturnedIsMade, Resolved, H!Settled, callVars
<1>3. ASSUME NEW o, NEW a, Begins(c, o, a) PROVE ReturnedIsMade'
  <2>1. UNCHANGED <<serverVars, returned>>
    BY <1>3 DEF Begins
  <2> QED BY <1>1, <1>3, <2>1, Beginning DEF ReturnedIsMade, Resolved, serverVars
<1> QED BY <1>2, <1>3

\* A store found was there.
LEMMA FoundStoresStep ==
  ASSUME MethodsInvariant, NEW c \in CallId, Step(c) \/ \E o, a : Begins(c, o, a)
  PROVE  FoundStores'
<1>1. FoundStores /\ live \subseteq StoreId \cap (DOMAIN FirstModels \cup DOMAIN madeBy)
  BY DEF MethodsInvariant, Types, MadeByCalls
<1>2. CASE Step(c)
  <2>1. /\ UNCHANGED callVars
        /\ \A d \in CallId :
             phase'[d] = "resolved" => phase[d] = "resolved" \/ (d = c /\ Answers(c))
    BY <1>2, Steady DEF Step
  <2>2. DOMAIN madeBy \subseteq DOMAIN madeBy'
    BY <1>2, Steady, Kept DEF Step
  <2>3. Answers(c) /\ invocation[c].method \notin Collections => AddressedStore(c) \in live
    BY AnsweredCall
  <2> QED BY <1>1, <2>1, <2>2, <2>3 DEF FoundStores, Resolved, callVars, AddressedStore
<1>3. ASSUME NEW o, NEW a, Begins(c, o, a) PROVE FoundStores'
  <2>1. UNCHANGED serverVars
    BY <1>3 DEF Begins
  <2> QED BY <1>1, <1>3, <2>1, Beginning DEF FoundStores, Resolved, serverVars, AddressedStore
<1> QED BY <1>2, <1>3

\* A store is gone, once gone, for good; only those it was asked of delete it.
LEMMA DeletesStep ==
  ASSUME MethodsInvariant, NEW c \in CallId, Step(c) \/ \E o, a : Begins(c, o, a)
  PROVE  DeletesHitTheirStore'
<1>1. DeletesHitTheirStore /\ RequestsFit /\ Types /\ DOMAIN madeBy \subseteq StoreId \cup ModelId
  BY DEF MethodsInvariant, Types
<1>2. CASE Step(c)
  <2>1. /\ UNCHANGED callVars /\ Made(c)
        /\ \A d \in CallId :
             phase'[d] = "resolved" => phase[d] = "resolved" \/ (d = c /\ Answers(c))
        /\ UNCHANGED serverVars \/ Changes(c)
    BY <1>2, Steady DEF Step
  <2>2. ASSUME NEW d \in CallId, Made(d), NEW s, s = AddressedStore(d), s \notin live
        PROVE  s \notin live'
    <3>1. s \in Known
      <4>1. addressed[d] \in Ids \X Ids
        BY <1>1, <2>2 DEF RequestsFit
      <4>2. s \in Range(addressed[d])
        BY <2>2, <4>1 DEF Range, AddressedStore
      <4> QED BY <2>2, <4>2, KnownIds
    <3> QED BY <2>1, <2>2, <3>1
        DEF Changes, MakesStore, DeletesStore, MakesModel, Writes, serverVars
  <2>3. ASSUME NEW d \in CallId, Made(d), invocation[d].method = "deleteStore",
               phase'[d] = "resolved" \/ error'[d].name = "FgaApiNotFoundError"
        PROVE  AddressedStore(d) \notin live'
    <3>1. phase[d] = "resolved" \/ error[d].name = "FgaApiNotFoundError" =>
            AddressedStore(d) \notin live
      BY <1>1, <2>3 DEF DeletesHitTheirStore, Calls, Resolved
    <3>2. CASE phase[d] = "resolved" \/ error[d].name = "FgaApiNotFoundError"
      BY <2>2, <2>3, <3>1, <3>2
    <3>3. CASE d = c /\ Answers(c)
      BY <2>3, <3>3, AnsweredCall DEF DeletesStore
    <3>4. CASE d = c /\ ~Finds(OnWire(c)) /\ UNCHANGED serverVars
      <4>1. ~Refused(c)
        BY <1>2, Steady DEF Step
      <4> QED BY <1>1, <2>3, <3>4, <4>1, Finding DEF serverVars
    <3>5. error'[d].name = "FgaApiNotFoundError" =>
            error'[d] = error[d] \/ (d = c /\ ~Finds(OnWire(c)) /\ UNCHANGED serverVars)
      BY <1>2 DEF Step, Answers, Fails, Arrives, Moves
    <3> QED BY <2>1, <2>3, <3>2, <3>3, <3>4, <3>5
  <2>4. ASSUME NEW s \in StoreId \ live', s \in DOMAIN FirstModels \cup DOMAIN madeBy'
        PROVE  \E d \in CallId :
                 Made(d) /\ invocation[d].method = "deleteStore" /\ AddressedStore(d) = s
    <3>1. CASE s \in live
      BY <2>1, <2>4, <3>1 DEF Changes, MakesStore, DeletesStore, MakesModel, Writes, serverVars
    <3>2. CASE s \notin live
      <4>1. s \in DOMAIN FirstModels \cup DOMAIN madeBy
        BY <2>1, <2>4, ClientMethodsAssumption
        DEF Changes, MakesStore, DeletesStore, MakesModel, Writes, serverVars, With
      <4> QED BY <1>1, <2>4, <3>2, <4>1 DEF DeletesHitTheirStore, Calls
    <3> QED BY <3>1, <3>2
  <2> QED BY <2>1, <2>3, <2>4 DEF DeletesHitTheirStore, Calls, Resolved, callVars, Made,
      AddressedStore
<1>3. ASSUME NEW o, NEW a, Begins(c, o, a) PROVE DeletesHitTheirStore'
  <2>1. UNCHANGED <<serverVars, error>> /\ ~Made(c)
    BY <1>3 DEF Begins
  <2>2. \A d \in CallId : d # c => /\ Made(d)' = Made(d) /\ invocation'[d] = invocation[d]
                                  /\ phase'[d] = phase[d] /\ addressed'[d] = addressed[d]
    BY <1>3, Beginning DEF Made
  <2>3. phase'[c] # "resolved" /\ error[c].name # "FgaApiNotFoundError"
    BY <1>3, Beginning
  <2> QED BY <1>1, <2>1, <2>2, <2>3
          DEF DeletesHitTheirStore, Calls, Resolved, serverVars, AddressedStore
<1> QED BY <1>2, <1>3
\* What a call has made is where it was meant to be.
LEMMA CallsTouchStep ==
  ASSUME MethodsInvariant, NEW c \in CallId, Step(c) \/ \E o, a : Begins(c, o, a)
  PROVE  CallsTouchOnlyTheirStore'
<1>1. /\ CallsTouchOnlyTheirStore
      /\ \A id \in DOMAIN madeBy : madeBy[id] \in CallId /\ Made(madeBy[id])
      /\ \A a \in DOMAIN assertions : assertions[a] \in CallId /\ Made(assertions[a])
  BY DEF MethodsInvariant, MadeByCalls
<1>2. CASE Step(c)
  <2>1. addressed' = addressed /\ (UNCHANGED serverVars \/ Changes(c))
        /\ addressed[c] = <<AddressedStore(c), AddressedModel(c)>>
    BY <1>2, Steady DEF Step, callVars
  <2>2. /\ DOMAIN madeBy \subseteq DOMAIN madeBy'
        /\ \A id \in DOMAIN madeBy : madeBy'[id] = madeBy[id]
    BY <1>2, Steady, Kept DEF Step
  <2>3. ASSUME NEW s \in StoreId, NEW m \in Range(models'[s]), m \in DOMAIN madeBy'
        PROVE  addressed[madeBy'[m]][1] = s
    <3>1. CASE m \in Range(models[s])
      <4>1. m \in DOMAIN madeBy
        BY <2>1, <2>3, <3>1, KnownIds
        DEF Changes, MakesStore, DeletesStore, MakesModel, Writes, serverVars, With
      <4> QED BY <1>1, <2>2, <3>1, <4>1 DEF CallsTouchOnlyTheirStore, AddressedStore
    <3>2. CASE m \notin Range(models[s])
      <4>1. MakesModel(c)
        BY <2>1, <2>3, <3>2 DEF Changes, MakesStore, DeletesStore, Writes, serverVars
      <4>2. models \in [StoreId -> Seq(ModelId)] /\ NewModel \in ModelId
        BY <4>1 DEF MakesModel, MethodsInvariant, Types
      <4>3. s = AddressedStore(c)
        BY <2>3, <3>2, <4>1, <4>2 DEF MakesModel
      <4>4. m = NewModel
        <5>1. models'[s] = Append(models[s], NewModel) /\ models[s] \in Seq(ModelId)
          BY <4>1, <4>2, <4>3 DEF MakesModel
        <5>2. PICK k \in DOMAIN models'[s] : m = models'[s][k]
          BY <2>3 DEF Range
        <5>3. k \in 1 .. Len(models[s]) + 1
          BY <4>2, <5>1, <5>2
        <5>4. CASE k = Len(models[s]) + 1
          BY <4>2, <5>1, <5>2, <5>4
        <5>5. CASE k # Len(models[s]) + 1
          <6>1. k \in DOMAIN models[s] /\ m = models[s][k]
            BY <4>2, <5>1, <5>2, <5>3, <5>5
          <6> QED BY <3>2, <6>1 DEF Range
        <5> QED BY <5>4, <5>5
      <4>5. madeBy'[m] = c
        BY <4>1, <4>4 DEF MakesModel, With
      <4> QED BY <4>3, <4>5 DEF AddressedStore
    <3> QED BY <3>1, <3>2
  <2>4. ASSUME NEW a \in DOMAIN assertions' PROVE addressed[assertions'[a]] = a
    <3>1. assertions' = assertions \/ assertions' = With(assertions, addressed[c], c)
      BY <2>1 DEF Changes, MakesStore, DeletesStore, MakesModel, Writes, serverVars
    <3> QED BY <1>1, <2>4, <3>1 DEF With, CallsTouchOnlyTheirStore
  <2> QED BY <2>1, <2>3, <2>4 DEF CallsTouchOnlyTheirStore, AddressedStore
<1>3. ASSUME NEW o, NEW a, Begins(c, o, a) PROVE CallsTouchOnlyTheirStore'
  <2>1. UNCHANGED <<models, assertions, madeBy>> /\ ~Made(c)
    BY <1>3 DEF Begins, serverVars
  <2>2. \A d \in CallId : Made(d) => addressed'[d] = addressed[d]
    BY <1>3, <2>1, Beginning
  <2> QED BY <1>1, <2>1, <2>2 DEF CallsTouchOnlyTheirStore, AddressedStore
<1> QED BY <1>2, <1>3

\* The model a call has returned stays where it was, behind the first ones.
LEMMA LatestStep ==
  ASSUME MethodsInvariant, NEW c \in CallId, Step(c) \/ \E o, a : Begins(c, o, a)
  PROVE  LatestWasLatest'
<1>1. LatestWasLatest /\ FoundStores /\ ModelsGrow /\ models \in [StoreId -> Seq(ModelId)]
      /\ live \subseteq StoreId /\ from \in [CallId -> Nat]
  BY DEF MethodsInvariant, Types
<1>2. CASE Step(c)
  <2>1. /\ UNCHANGED callVars /\ Made(c)
        /\ \A d \in CallId : H!Settled(d) => phase'[d] = phase[d] /\ returned'[d] = returned[d]
        /\ \A d \in CallId :
             phase'[d] = "resolved" => phase[d] = "resolved" \/ (d = c /\ Answers(c))
    BY <1>2, Steady DEF Step
  <2>2. models' \in [StoreId -> Seq(ModelId)]
        /\ \A s \in StoreId : /\ Len(models[s]) <= Len(models'[s])
                              /\ \A k \in 1 .. Len(models[s]) : models'[s][k] = models[s][k]
    BY <1>2, Steady, Kept DEF Step
  <2>3. ASSUME NEW d \in CallId, Made(d), invocation[d].method = "readLatestAuthorizationModel",
               phase'[d] = "resolved", NEW s, s = AddressedStore(d)
        PROVE  \/ \E k \in from[d] .. Len(models'[s]) : k > 0 /\ returned'[d] = models'[s][k]
               \/ from[d] = 0 /\ returned'[d] = Unset
    <3>1. CASE phase[d] = "resolved"
      <4>1. s \in StoreId /\ returned'[d] = returned[d]
        BY <1>1, <2>1, <2>3, <3>1 DEF FoundStores, Resolved, H!Settled, Collections
      <4>2. \/ \E k \in from[d] .. Len(models[s]) : k > 0 /\ returned[d] = models[s][k]
            \/ from[d] = 0 /\ returned[d] = Unset
        BY <1>1, <2>3, <3>1 DEF LatestWasLatest, Calls, Resolved
      <4>3. Len(models[s]) \in Nat /\ Len(models'[s]) \in Nat /\ from[d] \in Nat
        BY <1>1, <2>2, <4>1
      <4>4. \A k \in from[d] .. Len(models[s]) : k > 0 =>
              k \in from[d] .. Len(models'[s]) /\ models'[s][k] = models[s][k]
        BY <2>2, <4>1, <4>3
      <4> QED BY <4>1, <4>2, <4>4
    <3>2. CASE d = c /\ Answers(c)
      <4>1. /\ s \in StoreId /\ models' = models
            /\ returned'[d] = IF models[s] = <<>> THEN Unset ELSE models[s][Len(models[s])]
        BY <1>1, <2>3, <3>2, AnsweredCall DEF Collections, Changing, serverVars
      <4>2. from[d] <= Len(models[s]) /\ models[s] \in Seq(ModelId) /\ from[d] \in Nat
        BY <1>1, <2>3, <4>1 DEF ModelsGrow
      <4>3. CASE models[s] = <<>>
        BY <4>1, <4>2, <4>3
      <4>4. CASE models[s] # <<>>
        BY <4>1, <4>2, <4>4
      <4> QED BY <4>3, <4>4
    <3> QED BY <2>1, <2>3, <3>1, <3>2
  <2> QED BY <2>1, <2>3 DEF LatestWasLatest, Calls, Resolved, Made, callVars, AddressedStore
<1>3. ASSUME NEW o, NEW a, Begins(c, o, a) PROVE LatestWasLatest'
  <2>1. UNCHANGED <<models, returned>>
    BY <1>3 DEF Begins, serverVars
  <2>2. phase'[c] # "resolved"
    BY <1>3, Beginning
  <2> QED BY <1>1, <1>3, <2>1, <2>2, Beginning, SMTT(30)
      DEF LatestWasLatest, Calls, Resolved, Made, AddressedStore
<1> QED BY <1>2, <1>3

\* Who writes assertions now has not been settled, or is written of as lost.
LEMMA AssertionsStep ==
  ASSUME MethodsInvariant, NEW c \in CallId, Step(c) \/ \E o, a : Begins(c, o, a)
  PROVE  AssertionsKeepCallOrder'
<1>1. AssertionsKeepCallOrder /\ SettledBefore /\ before \in [CallId -> SUBSET CallId]
  BY DEF MethodsInvariant, Types
<1>2. CASE Step(c)
  <2>1. /\ UNCHANGED callVars /\ Made(c) /\ ~Refused(c) /\ lost \subseteq lost'
        /\ \A d \in CallId :
             phase'[d] = "resolved" => phase[d] = "resolved" \/ (d = c /\ Answers(c))
        /\ UNCHANGED serverVars \/ (Changes(c) /\ (c \in lost' \/ Answers(c)))
    BY <1>2, Steady DEF Step
  <2>2. ASSUME NEW e \in CallId, NEW d \in CallId, Made(e), Made(d),
               invocation[e].method = "writeAssertions", invocation[d].method = "writeAssertions",
               d \in before[e], d \notin lost', phase'[e] = "resolved",
               addressed[e] = addressed[d]
        PROVE  AssertionsAt(addressed[e])' # d
    <3>1. d # e /\ Settled(d) /\ d \notin lost
      BY <1>1, <2>1, <2>2 DEF SettledBefore
    <3>2. CASE e = c /\ Answers(c)
      <4>1. assertions' = With(assertions, addressed[c], c)
        BY <2>2, <3>2, AnsweredCall DEF Writes
      <4> QED BY <2>1, <3>1, <3>2, <4>1 DEF AssertionsAt, With, callVars
    <3>3. CASE phase[e] = "resolved"
      <4>1. AssertionsAt(addressed[e]) # d
        BY <1>1, <2>2, <3>1, <3>3 DEF AssertionsKeepCallOrder, Calls, Resolved
      <4>2. CASE assertions' = assertions
        BY <2>1, <4>1, <4>2 DEF AssertionsAt, callVars
      <4>3. CASE assertions' # assertions
        <5>1. assertions' = With(assertions, addressed[c], c) /\ (c \in lost' \/ Answers(c))
          BY <2>1, <4>3 DEF Changes, MakesStore, DeletesStore, MakesModel, Writes, serverVars
        <5>2. c # d
          BY <2>1, <2>2, <3>1, <5>1 DEF Settled, H!Settled, Answers
        <5> QED BY <2>1, <4>1, <5>1, <5>2 DEF AssertionsAt, With, callVars
      <4> QED BY <4>2, <4>3
    <3> QED BY <2>1, <2>2, <3>2, <3>3
  <2> QED BY <2>1, <2>2 DEF AssertionsKeepCallOrder, Calls, Resolved, Made, callVars
<1>3. ASSUME NEW o, NEW a, Begins(c, o, a) PROVE AssertionsKeepCallOrder'
  <2>1. UNCHANGED <<assertions, lost>> /\ phase'[c] # "resolved" /\ ~Settled(c)
    BY <1>3, Beginning DEF Begins, serverVars
  <2>2. \A d \in CallId : d # c => /\ Made(d)' = Made(d) /\ invocation'[d] = invocation[d]
                                  /\ phase'[d] = phase[d] /\ addressed'[d] = addressed[d]
                                  /\ before'[d] = before[d] /\ c \notin before[d]
    BY <1>1, <1>3, <2>1, Beginning DEF Made, SettledBefore
  <2> QED BY <1>1, <2>1, <2>2 DEF AssertionsKeepCallOrder, Calls, Resolved, AssertionsAt
<1> QED BY <1>2, <1>3

\* What a call has found stays.
LEMMA FulfilledStep ==
  ASSUME MethodsInvariant, NEW c \in CallId, Step(c) \/ \E o, a : Begins(c, o, a)
  PROVE  FulfilledMeansFound'
<1> DEFINE Finders == {"checkValidApiConnection", "readAuthorizationModel",
                       "readAssertions", "writeAssertions"}
<1>1. /\ \A d \in CallId : Made(d) /\ invocation[d].method \in Finders /\ phase[d] = "resolved" =>
           /\ AddressedStore(d) \in DOMAIN FirstModels \cup DOMAIN madeBy
           /\ AddressedModel(d) \in {Unset, Empty} \cup Range(models[AddressedStore(d)])
           /\ AddressedStore(d) \in StoreId
      /\ live \subseteq StoreId /\ live \subseteq DOMAIN FirstModels \cup DOMAIN madeBy
  BY DEF MethodsInvariant, Types, MadeByCalls, FulfilledMeansFound, FoundStores, Calls, Resolved,
         Collections
<1>2. CASE Step(c)
  <2>1. /\ UNCHANGED callVars
        /\ \A d \in CallId :
             phase'[d] = "resolved" => phase[d] = "resolved" \/ (d = c /\ Answers(c))
    BY <1>2, Steady DEF Step
  <2>2. DOMAIN madeBy \subseteq DOMAIN madeBy'
        /\ \A s \in StoreId : Range(models[s]) \subseteq Range(models'[s])
    BY <1>2, Steady, Kept DEF Step
  <2>3. ASSUME NEW d \in CallId, Made(d), invocation[d].method \in Finders, phase'[d] = "resolved"
        PROVE  /\ AddressedStore(d) \in DOMAIN FirstModels \cup DOMAIN madeBy'
               /\ AddressedModel(d) \in {Unset, Empty} \cup Range(models'[AddressedStore(d)])
    <3>1. CASE phase[d] = "resolved"
      BY <1>1, <2>2, <2>3, <3>1
    <3>2. CASE d = c /\ Answers(c)
      <4>1. AddressedStore(d) \in live
        BY <2>3, <3>2, AnsweredCall DEF Collections
      <4>2. OnModel(invocation[d], addressed[d]) \/ OnAssertions(invocation[d]) =>
              AddressedModel(d) \in Range(models[AddressedStore(d)])
        BY <3>2, AnsweredCall
      <4>3. AddressedModel(d) \in {Unset, Empty} \cup Range(models[AddressedStore(d)])
        BY <2>3, <4>2 DEF OnModel, OnAssertions, NoModelId, AddressedModel
      <4> QED BY <1>1, <2>2, <4>1, <4>3
    <3> QED BY <2>1, <2>3, <3>1, <3>2
  <2> QED BY <2>1, <2>3 DEF FulfilledMeansFound, Calls, Resolved, Made, callVars, AddressedStore,
                            AddressedModel
<1>3. ASSUME NEW o, NEW a, Begins(c, o, a) PROVE FulfilledMeansFound'
  <2>1. UNCHANGED <<models, madeBy>> /\ phase'[c] # "resolved"
    BY <1>3, Beginning DEF Begins, serverVars
  <2>2. \A d \in CallId : d # c => /\ Made(d)' = Made(d) /\ invocation'[d] = invocation[d]
                                  /\ phase'[d] = phase[d] /\ addressed'[d] = addressed[d]
    BY <1>3, Beginning DEF Made
  <2> QED BY <1>1, <2>1, <2>2
          DEF FulfilledMeansFound, Calls, Resolved, AddressedStore, AddressedModel
<1> QED BY <1>2, <1>3

-----------------------------------------------------------------------------
\* The whole of it.

\* Between the steps of calls the application sets the client's ids, or nothing happens.
LEMMA InvariantSets ==
  ASSUME MethodsInvariant, HP!LoopInvariant', Sets
  PROVE  MethodsInvariant'
<1> USE DEF MethodsInvariant, Sets, callVars, serverVars
<1>1. Types'
  BY DEF Types
<1>2. RequestsFit'
  BY DEF RequestsFit, Fits, OnModels, OnModel, OnAssertions, NoModelId, Made, Refused
<1>3. MadeByCalls' /\ ReturnedIsMade' /\ FoundStores' /\ ModelsGrow' /\ SettledBefore'
  BY DEF MadeByCalls, ReturnedIsMade, FoundStores, ModelsGrow, SettledBefore, AddressedStore,
         Made, Resolved, Settled, Refused, H!Settled
<1>4. DeletesHitTheirStore' /\ CallsTouchOnlyTheirStore' /\ AssertionsKeepCallOrder'
  BY DEF DeletesHitTheirStore, CallsTouchOnlyTheirStore, AssertionsKeepCallOrder,
         AssertionsAt, Calls, AddressedStore, Made, Resolved
<1>5. LatestWasLatest' /\ FulfilledMeansFound'
  BY DEF LatestWasLatest, FulfilledMeansFound, Calls, AddressedStore, AddressedModel, Made,
         Resolved
<1> QED BY <1>1, <1>2, <1>3, <1>4, <1>5

\* Every step keeps the invariant.
LEMMA InvariantStep ==
  ASSUME MethodsInvariant, [Next]_vars
  PROVE  MethodsInvariant'
<1>1. HP!LoopInvariant'
  BY LoopsInvariant DEF MethodsInvariant
<1>2. ASSUME NEW c \in CallId, Step(c) \/ \E o, a : Begins(c, o, a) PROVE MethodsInvariant'
  BY <1>1, <1>2, TypesStep, RequestsFitStep, MadeByCallsStep, ReturnedIsMadeStep, FoundStoresStep,
     ModelsGrowStep, SettledBeforeStep, DeletesStep, CallsTouchStep, LatestStep, AssertionsStep,
     FulfilledStep
  DEF MethodsInvariant
<1>3. Sets \/ \E c \in CallId : Step(c) \/ \E o, a : Begins(c, o, a)
  BY StepIs DEF MethodsInvariant, Step
<1> QED BY <1>1, <1>2, <1>3, InvariantSets

\* The invariant of the methods, their loops and the server.
THEOREM MethodsCorrect == Spec => []MethodsInvariant
<1> QED BY InvariantInit, InvariantStep, PTL DEF Spec

\* Only usable ids get into a path.
LEMMA UsablePaths ==
  ASSUME NEW c \in CallId, NEW o \in Invocation, NEW a, NEW q, Fits(c, o, a, q)
  PROVE  q.method \in {"GET", "POST", "PUT", "DELETE"} /\ IdsAreUsable(q.path)
<1>1. \/ o.method \in Collections \/ o.method \in {"getStore", "deleteStore"} \/ OnModels(o, a)
      \/ OnModel(o, a) \/ OnAssertions(o) \/ o.method \in OnVerbs
  BY DEF Invocation, Method, Collections, OnModels, OnModel, OnAssertions, OnVerbs
<1>2. q.method \in {"GET", "POST", "PUT", "DELETE"}
  BY <1>1 DEF Fits
<1>3. a[1] \in WellFormed \/ q.path = <<"stores">>
  BY DEF Fits
<1>4. \/ q.path = <<"stores">> \/ q.path = <<"stores", a[1]>>
      \/ \E x : q.path = <<"stores", a[1], x>>
      \/ q.path = <<"stores", a[1], "authorization-models", a[2]>> /\ a[2] \in WellFormed
      \/ q.path = <<"stores", a[1], "assertions", a[2]>> /\ a[2] \in WellFormed \cup {Empty}
  BY <1>1 DEF Fits
<1>5. CASE q.path = <<"stores">>
  <2>1. ~(Len(q.path) > 1) /\ ~(Len(q.path) > 3)
    BY <1>5
  <2> QED BY <1>2, <2>1 DEF IdsAreUsable
<1>6. CASE q.path = <<"stores", a[1]>>
  <2>1. ~(Len(q.path) > 3) /\ q.path[2] = a[1] /\ q.path # <<"stores">>
    BY <1>6
  <2> QED BY <1>2, <1>3, <2>1 DEF IdsAreUsable
<1>7. ASSUME NEW x, q.path = <<"stores", a[1], x>> PROVE IdsAreUsable(q.path)
  <2>1. ~(Len(q.path) > 3) /\ q.path[2] = a[1] /\ q.path # <<"stores">>
    BY <1>7
  <2> QED BY <1>2, <1>3, <2>1 DEF IdsAreUsable
<1>8. CASE q.path = <<"stores", a[1], "authorization-models", a[2]>> /\ a[2] \in WellFormed
  <2>1. q.path[2] = a[1] /\ q.path[4] = a[2] /\ q.path # <<"stores">>
    BY <1>8
  <2> QED BY <1>2, <1>3, <1>8, <2>1 DEF IdsAreUsable
<1>9. CASE q.path = <<"stores", a[1], "assertions", a[2]>> /\ a[2] \in WellFormed \cup {Empty}
  <2>1. q.path[2] = a[1] /\ q.path[3] = "assertions" /\ q.path[4] = a[2] /\ q.path # <<"stores">>
    BY <1>9
  <2> QED BY <1>2, <1>3, <1>9, <2>1 DEF IdsAreUsable
<1> QED BY <1>2, <1>4, <1>5, <1>6, <1>7, <1>8, <1>9

\* Every variable stays in its range, and no id that is missing or malformed gets into the
\* path of a request, but for an empty model id (client.ts:281-301, validation.ts:8-31).
THEOREM MethodsTypeCorrect == Spec => []TypeOK
<1>1. ASSUME MethodsInvariant PROVE TypeOK
  <2> USE <1>1 DEF MethodsInvariant
  <2>1. H!TypeOK
    BY DEF HP!LoopInvariant, HP!TypeOK, H!TypeOK, HP!Phase, H!Phase,
           HP!Answered, H!Answered, HP!ErrorObject, H!ErrorObject, HP!NoError, H!NoError,
           HP!ErrorClass, H!ErrorClass, HP!Superclass, H!Superclass
  <2>2. ASSUME NEW c \in CallId
        PROVE  /\ ~Made(c) => request[c] = Unset
               /\ Refused(c) =>
                    request[c].thrown.class \in {"FgaValidationError", "FgaRequiredParamError"}
               /\ Made(c) =>
                    request[c].method \in IF Refused(c) THEN {"none"}
                                         ELSE {"GET", "POST", "PUT", "DELETE"}
               /\ iterationCount[c] > 0 => Made(c) /\ ~Refused(c)
               /\ Made(c) /\ ~Refused(c) => IdsAreUsable(request[c].path)
    <3>1. ~Made(c) => request[c] = Unset
      BY DEF RequestsFit
    <3>2. iterationCount[c] > 0 => Made(c) /\ ~Refused(c)
      BY DEF RequestsFit, HP!LoopInvariant, HP!TypeOK, HP!NotYetSent
    <3>3. ASSUME Made(c) PROVE invocation[c] \in Invocation
      BY <3>3 DEF Types, Made
    <3>4. CASE Made(c) /\ request[c] \in Refusals
      BY <3>1, <3>2, <3>4 DEF Refusals, Refusal, Refused, ErrorOf, NoError
    <3>5. CASE Made(c) /\ Fits(c, invocation[c], addressed[c], request[c])
      BY <3>1, <3>2, <3>3, <3>5, UsablePaths DEF Fits, Refused
    <3> QED BY <3>1, <3>2, <3>4, <3>5 DEF RequestsFit, Refused
  <2>3. Range(assertions) \subseteq CallId /\ Range(madeBy) \subseteq CallId
    BY DEF MadeByCalls, Range
  <2> QED BY <2>1, <2>2, <2>3 DEF Types, TypeOK
<1> QED BY <1>1, MethodsCorrect, PTL

\* A store that a deleteStore was fulfilled for, or refused for as missing, is gone, and
\* only deleteStores for it take a store away, whatever is retried, lost or late
\* (client.ts:376-378, api.ts:249-274).
THEOREM DeletesAreRight == Spec => []DeletesHitTheirStore
<1> QED BY MethodsCorrect, PTL DEF MethodsInvariant

\* Models and assertions are in the store, and with the model, their call was made for,
\* although the client's ids may have been set to others (client.ts:281-301).
THEOREM CallsStayInTheirStore == Spec => []CallsTouchOnlyTheirStore
<1> QED BY MethodsCorrect, PTL DEF MethodsInvariant

\* readLatestAuthorizationModel returns a model that was the latest during the call
\* (client.ts:436-443).
THEOREM LatestIsRight == Spec => []LatestWasLatest
<1> QED BY MethodsCorrect, PTL DEF MethodsInvariant

\* Assertions of a call that had settled do not replace those of a later one, unless they
\* were given up (client.ts:936-947, common.ts:272).
THEOREM AssertionsInOrder == Spec => []AssertionsKeepCallOrder
<1> QED BY MethodsCorrect, PTL DEF MethodsInvariant

\* A fulfilled call that names a model was about a model of its store (client.ts:314-320,
\* 420-426, 922-947).
THEOREM FulfilledIsFound == Spec => []FulfilledMeansFound
<1> QED BY MethodsCorrect, PTL DEF MethodsInvariant

\* A call makes what it returns and, unless an attempt of it had no answer, nothing else,
\* however often it was retried (client.ts:352, 407, common.ts:245-274).
THEOREM MadeThingsAreReturned == Spec => []MadeIsReturned
<1>1. ASSUME MethodsInvariant, NEW c \in CallId
      PROVE  LET told == IF Resolved(c)
                            /\ invocation[c].method \in {"createStore", "writeAuthorizationModel"}
                         THEN {returned[c]} ELSE {}
             IN  told \subseteq MadeBy(c) /\ (c \notin lost => MadeBy(c) = told)
  <2>1. ASSUME Resolved(c), invocation[c].method \in {"createStore", "writeAuthorizationModel"}
        PROVE  returned[c] \in MadeBy(c)
    BY <1>1, <2>1 DEF MethodsInvariant, ReturnedIsMade, MadeBy
  <2>2. ASSUME c \notin lost, NEW id \in MadeBy(c)
        PROVE  /\ Resolved(c) /\ returned[c] = id
               /\ invocation[c].method \in {"createStore", "writeAuthorizationModel"}
    BY <1>1, <2>2 DEF MethodsInvariant, MadeByCalls, MadeBy
  <2> QED BY <2>1, <2>2
<1>2. MethodsInvariant => MadeIsReturned
  BY <1>1 DEF MadeIsReturned
<1> QED BY <1>2, MethodsCorrect, PTL
=============================================================================
