---------------------------- MODULE ClientMethods ----------------------------
(***************************************************************************)
(* The methods of OpenFgaClient that make one API call each (src/client.ts *)
(* 281-486, 650-662, 815-849, 897-947): which ids they take, from their    *)
(* options or from the client's fields, what they refuse, which request of *)
(* OpenFgaApi they make of it, and what they make of the answer.           *)
(*                                                                         *)
(* Calls overlap, and the application may set client.storeId and           *)
(* client.authorizationModelId at any time.  Every request goes through    *)
(* the retry loop (HttpRequest) to a server that keeps stores, their       *)
(* models and their assertions, over the network of BulkWrite: an attempt  *)
(* may be served, be served and its answer lost, never arrive, or be given *)
(* up by the client (timeout) and reach the server later.                  *)
(***************************************************************************)
EXTENDS OpenFgaApi, Sequences, FiniteSets, Functions

CONSTANTS
  CallId,        \* the calls; a call also stands for the body it was given
  Programs,    \* what the calls may be together: to each a method and its options
  StoreId, ModelId, \* well-formed ids, those of stores and those of models ...
  Malformed,   \* ... and those that are no ULID
  ClientStoreIds, ClientModelIds, \* the values the client's fields may take
  FirstModels, \* the stores there are at first, each with its models in order
  MaxChanges,  \* bound: how often the application sets a field of the client
  Rejections,  \* failures the server or a gateway answers without acting
  TokenErrors, RetryParams,
  RetryMaxAllowedNumber, DefaultMinWaitInMs, MaxBackoffTime,
  RetryHeaderMaxAllowableDuration

WellFormed == StoreId \cup ModelId
Ids == WellFormed \cup Malformed \cup {Unset, Empty}

Method ==
  {"listStores", "createStore", "getStore", "deleteStore",
   "readAuthorizationModels", "writeAuthorizationModel", "readAuthorizationModel",
   "readLatestAuthorizationModel", "checkValidApiConnection", "readChanges", "read",
   "write", "check", "batchCheck", "expand", "listObjects", "listUsers",
   "readAssertions", "writeAssertions"}

Invocation == [method : Method, storeId : Ids, authorizationModelId : Ids]

ASSUME ClientMethodsAssumption ==
  /\ Programs \subseteq [CallId -> Invocation]
  /\ ClientStoreIds \cup ClientModelIds \subseteq Ids
  /\ DOMAIN FirstModels \subseteq StoreId /\ Range(FirstModels) \subseteq Seq(ModelId)
  /\ MaxChanges \in Nat
  /\ StoreId \cap ModelId = {}
  /\ {Unset, Empty} \cap (WellFormed \cup Malformed \cup CallId) = {}
  /\ Unset \notin Invocation

VARIABLES
  storeId, authorizationModelId, \* the client's fields
  changes,    \* how often they have been set
  invocation, \* what was called, Unset before
  request,    \* what the parameter creator made of it, Unset before
  returned,   \* what the promise is fulfilled with, Unset before
  \* the server
  live,       \* the stores that are not deleted
  models,     \* the models of every store, the latest last
  assertions, \* by store and model, where there are any: the call they are of
  late,       \* calls with an attempt given up that may still arrive
  \* history
  madeBy,     \* by store or model: the call that made it, if one has
  lost,       \* calls an attempt of which had no answer
  addressed,  \* the ids each call was made for
  from,       \* how many models its store had when the call was made
  before,     \* the calls that had settled by then
  \* the retry loops
  configured, phase, overridden, maxRetry, minWaitInMs, iterationCount, answer,
  delay, hinted, error

loopVars   == <<configured, phase, overridden, maxRetry, minWaitInMs,
                iterationCount, answer, delay, hinted, error>>
clientVars == <<storeId, authorizationModelId, changes>>
serverVars == <<live, models, assertions, madeBy>>
callVars   == <<invocation, request, addressed, from, before>>
vars       == <<clientVars, callVars, returned, serverVars, late, lost, loopVars>>

NetworkError == [axios |-> TRUE, status |-> 0, retryAfter |-> 0]
NotFound     == [axios |-> TRUE, status |-> 404, retryAfter |-> 0]
Invalid      == [axios |-> TRUE, status |-> 400, retryAfter |-> 0]
Failures     == Rejections \cup {NetworkError, NotFound, Invalid}

H == INSTANCE HttpRequest WITH Request <- CallId

ASSUME LoopAssumption == H!ParamsAssumption /\ H!FailuresAssumption /\ H!LimitsAssumption

\* Of what answers an attempt only the server knows what there is; a token issuer's 404
\* reaches the application under another name (RenamedExchangeError of SdkErrors).
ASSUME NotFoundAssumption ==
  /\ \A err \in Rejections : err.status # 404
  /\ \A e \in TokenErrors : e.name # "FgaApiNotFoundError"

-----------------------------------------------------------------------------
\* Ids

\* a || b
Or(a, b) == IF a \in {Unset, Empty} THEN b ELSE a

\* Mutants: the client's own id comes first; the format of an id is not looked at.
StoreIdOfClient(o) == Or(storeId, o.storeId)
NeverThrows(o)     == FALSE

\* getStoreId and getAuthorizationModelId: what they return and when they throw.
StoreIdOf(o)     == Or(o.storeId, storeId)
ThrowsOnStore(o) == StoreIdOf(o) \in {Unset, Empty} \cup Malformed
ModelIdOf(o)     == Or(o.authorizationModelId, authorizationModelId)
ThrowsOnModel(o) == ModelIdOf(o) \in Malformed

WithStore(o, Request(_)) ==
  IF ThrowsOnStore(o) THEN Refusal("FgaValidationError") ELSE Request(StoreIdOf(o))
WithModel(o, Request(_)) ==
  IF ThrowsOnModel(o) THEN Refusal("FgaValidationError") ELSE Request(ModelIdOf(o))
WithIds(o, Request(_, _)) ==
  WithStore(o, LAMBDA s : WithModel(o, LAMBDA m : Request(s, m)))

\* A body of which only the model id it names matters.
Naming(id) == [authorization_model_id |-> id]

-----------------------------------------------------------------------------
\* The methods: the request each makes for a call c with options o.

ReadAuthorizationModels(o, pageSize) ==
  WithStore(o, LAMBDA s : readAuthorizationModels(s, pageSize, Unset))

\* The id is looked for first; an empty one counts as missing here and only here.
ReadAuthorizationModel(o) ==
  WithModel(o, LAMBDA m :
    IF m \in {Unset, Empty} THEN Refusal("FgaRequiredParamError")
    ELSE WithStore(o, LAMBDA s : readAuthorizationModel(s, m)))

ReadLatestAuthorizationModel(o) == ReadAuthorizationModels(o, 1)

\* Mutant: the latest model is read, whatever the model id.
CheckLatestOnly(o) == ReadLatestAuthorizationModel(o)

CheckValidApiConnection(o) ==
  WithModel(o, LAMBDA m : IF m \in {Unset, Empty} THEN ReadLatestAuthorizationModel(o)
                          ELSE ReadAuthorizationModel(o))

WriteAssertions(o, c) == WithIds(o, LAMBDA s, m : writeAssertions(s, m, c))

ReadAssertions(o) == WithIds(o, LAMBDA s, m : readAssertions(s, m))

\* write looks at the model id before the store id.
Write(o) == WithModel(o, LAMBDA m : WithStore(o, LAMBDA s : write(s, Naming(m))))

\* batchCheck with checks for one batch: the id of the options goes out as it is.
BatchCheck(o) == WithStore(o, LAMBDA s : batchCheck(s, Naming(o.authorizationModelId)))

RequestOf(c, o) ==
  CASE o.method = "listStores"              -> listStores(Unset, Unset, Unset)
    [] o.method = "createStore"             -> createStore(c)
    [] o.method = "getStore"                -> WithStore(o, LAMBDA s : getStore(s))
    [] o.method = "deleteStore"             -> WithStore(o, LAMBDA s : deleteStore(s))
    [] o.method = "readAuthorizationModels" -> ReadAuthorizationModels(o, Unset)
    [] o.method = "writeAuthorizationModel" ->
         WithStore(o, LAMBDA s : writeAuthorizationModel(s, c))
    [] o.method = "readAuthorizationModel"  -> ReadAuthorizationModel(o)
    [] o.method = "readLatestAuthorizationModel" -> ReadLatestAuthorizationModel(o)
    [] o.method = "checkValidApiConnection" -> CheckValidApiConnection(o)
    [] o.method = "readChanges" ->
         WithStore(o, LAMBDA s : readChanges(s, Unset, Unset, Unset, Unset))
    [] o.method = "read"        -> WithStore(o, LAMBDA s : read(s, Naming(Unset)))
    [] o.method = "write"       -> Write(o)
    [] o.method = "check"       -> WithIds(o, LAMBDA s, m : check(s, Naming(m)))
    [] o.method = "batchCheck"  -> BatchCheck(o)
    [] o.method = "expand"      -> WithIds(o, LAMBDA s, m : expand(s, Naming(m)))
    [] o.method = "listObjects" -> WithIds(o, LAMBDA s, m : listObjects(s, Naming(m)))
    [] o.method = "listUsers"   -> WithIds(o, LAMBDA s, m : listUsers(s, Naming(m)))
    [] o.method = "readAssertions"  -> ReadAssertions(o)
    [] o.method = "writeAssertions" -> WriteAssertions(o, c)

\* What the promise is fulfilled with: the answer; of the page of models the first
\* one, undefined if there is none; or nothing.
ResultOf(c, response) ==
  CASE invocation[c].method = "checkValidApiConnection" -> Unset
    [] invocation[c].method = "readLatestAuthorizationModel" ->
         IF response = <<>> THEN Unset ELSE response[1]
    [] OTHER -> response

Made(c)     == invocation[c] # Unset
Refused(c)  == Made(c) /\ request[c].thrown # NoError
Settled(c)  == Refused(c) \/ H!Settled(c)
Resolved(c) == phase[c] = "resolved"

-----------------------------------------------------------------------------
\* The server.  A request q is told by its method and its path.

IsCollection(q)    == Len(q.path) = 1
IsStore(q)         == Len(q.path) = 2
IsVerb(q)          == Len(q.path) = 3
IsItem(q)          == Len(q.path) = 4
IsModels(q)        == IsVerb(q) /\ q.path[3] = "authorization-models"
IsAssertions(q)    == IsItem(q) /\ q.path[3] = "assertions"

\* The id of what is made is a ULID nobody has named before.
AllModels == UNION {Range(models[s]) : s \in StoreId}
Named     == UNION {Range(addressed[c]) : c \in {d \in CallId : Made(d)}}
Known     == DOMAIN FirstModels \cup AllModels \cup DOMAIN madeBy \cup Named
NewStore == CHOOSE id \in StoreId : id \notin Known
NewModel == CHOOSE id \in ModelId : id \notin Known

\* Bounds: how many stores and models can be made.
StoreIdsLeft == \E id \in StoreId : id \notin Known
ModelIdsLeft == \E id \in ModelId : id \notin Known

\* Is there what the path names?
Finds(q) ==
  /\ q.path # <<>>
  /\ ~IsCollection(q) => q.path[2] \in live
  /\ IsItem(q) => q.path[4] \in Range(models[q.path[2]])

\* Does the model exist that the body names?
Accepts(q) ==
  q.method = "POST" /\ IsVerb(q) /\ ~IsModels(q) =>
    q.data.authorization_model_id
      \in {Unset, Empty} \cup Range(models[q.path[2]])

\* A page of models, the latest first; without page_size there is room for all.
Page(q) ==
  LET ms == models[q.path[2]]
      n  == IF <<"page_size", 1>> \in q.query /\ Len(ms) > 1 THEN 1 ELSE Len(ms)
  IN  [k \in 1 .. n |-> ms[Len(ms) + 1 - k]]

AssertionsAt(a) == IF a \in DOMAIN assertions THEN assertions[a] ELSE Unset

\* What is answered to a request that is carried out.
Response(q) ==
  CASE IsCollection(q) /\ q.method = "POST"    -> NewStore
    [] IsModels(q) /\ q.method = "POST"        -> NewModel
    [] IsModels(q) /\ q.method = "GET"         -> Page(q)
    [] IsAssertions(q) /\ q.method = "GET"     -> AssertionsAt(<<q.path[2], q.path[4]>>)
    [] OTHER                                   -> Unset

With(f, x, v) == [y \in DOMAIN f \cup {x} |-> IF y = x THEN v ELSE f[y]]

\* What carrying out a request of call c changes.
Apply(c, q) ==
  IF ~Finds(q) \/ ~Accepts(q) \/ q.method = "GET" THEN UNCHANGED serverVars
  ELSE
    \/ /\ IsCollection(q) /\ StoreIdsLeft
       /\ live'   = live \cup {NewStore}
       /\ madeBy' = With(madeBy, NewStore, c)
       /\ UNCHANGED <<models, assertions>>
    \/ /\ IsStore(q)
       /\ live' = live \ {q.path[2]}
       /\ UNCHANGED <<models, assertions, madeBy>>
    \/ /\ IsModels(q) /\ ModelIdsLeft
       /\ models' = [models EXCEPT ![q.path[2]] = Append(@, NewModel)]
       /\ madeBy' = With(madeBy, NewModel, c)
       /\ UNCHANGED <<live, assertions>>
    \/ /\ IsAssertions(q)
       /\ assertions' = With(assertions, <<q.path[2], q.path[4]>>, q.data)
       /\ UNCHANGED <<live, models, madeBy>>
    \/ /\ IsVerb(q) /\ ~IsModels(q)
       /\ UNCHANGED serverVars

-----------------------------------------------------------------------------
Init ==
  /\ storeId \in ClientStoreIds /\ authorizationModelId \in ClientModelIds
  /\ changes = 0
  /\ invocation = [c \in CallId |-> Unset]
  /\ request    = [c \in CallId |-> Unset]
  /\ returned   = [c \in CallId |-> Unset]
  /\ live       = DOMAIN FirstModels
  /\ models     = [s \in StoreId |-> IF s \in live THEN FirstModels[s] ELSE <<>>]
  /\ assertions = <<>>
  /\ late = {}
  /\ madeBy     = <<>>
  /\ lost = {}
  /\ addressed  = [c \in CallId |-> Unset]
  /\ from       = [c \in CallId |-> 0]
  /\ before     = [c \in CallId |-> {}]
  /\ H!Init

\* The application sets a field of the client.
SetStoreId ==
  /\ changes < MaxChanges
  /\ storeId' \in ClientStoreIds \ {storeId}
  /\ changes' = changes + 1
  /\ UNCHANGED <<authorizationModelId, callVars, returned, serverVars, late, lost, loopVars>>
SetAuthorizationModelId ==
  /\ changes < MaxChanges
  /\ authorizationModelId' \in ClientModelIds \ {authorizationModelId}
  /\ changes' = changes + 1
  /\ UNCHANGED <<storeId, callVars, returned, serverVars, late, lost, loopVars>>

\* What call c may be, given the calls that have been made.
Possible(c) ==
  IF Made(c) THEN {}
  ELSE {p[c] : p \in {p \in Programs : \A d \in CallId : Made(d) => p[d] = invocation[d]}}

\* A method is called: its request is made, or it throws.
Invoke(c, o) ==
  LET q == RequestOf(c, o)
      s == IF o.storeId \in {Unset, Empty} THEN storeId ELSE o.storeId
      m == IF o.authorizationModelId \in {Unset, Empty} THEN authorizationModelId
           ELSE o.authorizationModelId
  IN  /\ invocation' = [invocation EXCEPT ![c] = o]
      /\ request'    = [request EXCEPT ![c] = q]
      /\ addressed'  = [addressed EXCEPT ![c] = <<s, m>>]
      /\ from'       = [from EXCEPT ![c] = IF s \in StoreId THEN Len(models[s]) ELSE 0]
      /\ before'     = [before EXCEPT ![c] = {d \in CallId : Settled(d)}]
      /\ IF q.thrown = NoError THEN H!Call(c, Unset) ELSE UNCHANGED loopVars
      /\ UNCHANGED <<clientVars, returned, serverVars, late, lost>>

LoopStep(c) ==
  /\ H!Authorize(c) \/ H!Wake(c)
  /\ UNCHANGED <<clientVars, callVars, returned, serverVars, late, lost>>

-----------------------------------------------------------------------------
\* The requests on the network

\* Mutant: the request is made anew for every attempt.
OnWireNow(c) == RequestOf(c, invocation[c])

\* What an attempt puts on the wire: the object made when the method was called.
OnWire(c) == request[c]

AttemptFails(c, err) == H!Throw(c, err) \/ H!Sleep(c, err)

\* An attempt is served and answered.
Serve(c) ==
  LET q == OnWire(c)
  IN  /\ Apply(c, q)
      /\ IF Finds(q) /\ Accepts(q)
         THEN /\ H!Succeed(c)
              /\ returned' = [returned EXCEPT ![c] = ResultOf(c, Response(q))]
         ELSE /\ AttemptFails(c, IF Finds(q) THEN Invalid ELSE NotFound)
              /\ UNCHANGED returned
      /\ UNCHANGED <<clientVars, callVars, late, lost>>

\* It is served and the answer lost.
LoseAnswer(c) ==
  /\ Apply(c, OnWire(c))
  /\ AttemptFails(c, NetworkError)
  /\ lost' = lost \cup {c}
  /\ UNCHANGED <<clientVars, callVars, returned, late>>

\* It is turned away.
TurnAway(c) ==
  /\ \E err \in Rejections : AttemptFails(c, err)
  /\ UNCHANGED <<clientVars, callVars, returned, serverVars, late, lost>>

\* It is lost, or given up by the client and still on its way.
LoseAttempt(c) ==
  /\ AttemptFails(c, NetworkError)
  /\ lost' = lost \cup {c}
  /\ late' \in {late, late \cup {c}}
  /\ UNCHANGED <<clientVars, callVars, returned, serverVars>>

\* It arrives after all; nobody waits for the answer.
ArriveLate(c) ==
  /\ c \in late
  /\ late' = late \ {c}
  /\ Apply(c, OnWire(c))
  /\ UNCHANGED <<clientVars, callVars, returned, lost, loopVars>>

Attempt(c) ==
  phase[c] = "sending" /\ (Serve(c) \/ LoseAnswer(c) \/ TurnAway(c) \/ LoseAttempt(c))

Next ==
  \/ SetStoreId \/ SetAuthorizationModelId
  \/ \E c \in CallId :
       \/ \E o \in Possible(c) : Invoke(c, o)
       \/ LoopStep(c) \/ Attempt(c) \/ ArriveLate(c)

Spec == Init /\ [][Next]_vars
-----------------------------------------------------------------------------
Calls(method) == {c \in CallId : Made(c) /\ invocation[c].method = method}
MadeBy(c)     == {id \in DOMAIN madeBy : madeBy[id] = c}
AddressedStore(c) == addressed[c][1]
AddressedModel(c) == addressed[c][2]

\* The one unusable id that may be in a path is an empty model id of an assertions call:
\* getAuthorizationModelId lets it pass, assertParamExists takes it for a value.
IdsAreUsable(path) ==
  /\ Len(path) > 1 => path[2] \in WellFormed
  /\ Len(path) > 3 =>
       path[4] \in WellFormed \cup (IF path[3] = "assertions" THEN {Empty} ELSE {})

\* Every variable stays in its range (the client's fields, client.ts:262-263, and the
\* requests of api.ts); no id that is missing or malformed gets into the path of a
\* request, but for an empty model id (client.ts:281-301, validation.ts:8-31).
TypeOK ==
  /\ storeId \in ClientStoreIds /\ authorizationModelId \in ClientModelIds
  /\ changes \in 0 .. MaxChanges
  /\ invocation \in [CallId -> Invocation \cup {Unset}]
  /\ \A c \in CallId :
       /\ ~Made(c) => request[c] = Unset
       /\ Refused(c) =>
            request[c].thrown.class \in {"FgaValidationError", "FgaRequiredParamError"}
       /\ Made(c) =>
            request[c].method \in IF Refused(c) THEN {"none"} ELSE {"GET", "POST", "PUT", "DELETE"}
       /\ iterationCount[c] > 0 => Made(c) /\ ~Refused(c)
       /\ Made(c) /\ ~Refused(c) => IdsAreUsable(request[c].path)
  /\ live \subseteq StoreId
  /\ models \in [StoreId -> Seq(ModelId)]
  /\ DOMAIN assertions \subseteq StoreId \X ModelId /\ Range(assertions) \subseteq CallId
  /\ late \subseteq lost /\ lost \subseteq CallId
  /\ DOMAIN madeBy \subseteq StoreId \cup ModelId /\ Range(madeBy) \subseteq CallId
  /\ H!TypeOK

\* deleteStore means what it says whatever was retried: when it is fulfilled, or refused
\* because there is no such store, the store the call was made for is gone, and a store
\* is gone only if a deleteStore was made for it (client.ts:376-378, api.ts:249-274).
DeletesHitTheirStore ==
  /\ \A c \in Calls("deleteStore") :
       Resolved(c) \/ error[c].name = "FgaApiNotFoundError" => AddressedStore(c) \notin live
  /\ \A s \in StoreId \ live :
       s \in DOMAIN FirstModels \cup DOMAIN madeBy =>
         \E c \in Calls("deleteStore") : AddressedStore(c) = s

\* A store or a model is made without the application's being told of it only by a call
\* some attempt of which had no answer; every other call makes what it returns and
\* nothing else, however often it was retried (client.ts:352, 407, common.ts:245-274).
MadeIsReturned ==
  \A c \in CallId :
    LET told == IF Resolved(c)
                   /\ invocation[c].method \in {"createStore", "writeAuthorizationModel"}
                THEN {returned[c]} ELSE {}
    IN  told \subseteq MadeBy(c) /\ (c \notin lost => MadeBy(c) = told)

\* Models and assertions end up in the store, and with the model, that the call was made
\* for, also those of later attempts and of late ones, although the application may have
\* set the client's ids to others meanwhile (client.ts:281-301, common.ts:290-298).
CallsTouchOnlyTheirStore ==
  /\ \A s \in StoreId : \A m \in Range(models[s]) :
       m \in DOMAIN madeBy => AddressedStore(madeBy[m]) = s
  /\ \A a \in DOMAIN assertions : addressed[assertions[a]] = a

\* readLatestAuthorizationModel returns a model that was the latest of its store at some
\* time of the call, or nothing if the store had none when the call was made
\* (client.ts:436-443).
LatestWasLatest ==
  \A c \in Calls("readLatestAuthorizationModel") :
    Resolved(c) =>
      LET ms == models[AddressedStore(c)]
      IN  \/ \E k \in from[c] .. Len(ms) : k > 0 /\ returned[c] = ms[k]
          \/ from[c] = 0 /\ returned[c] = Unset

\* Assertions written one after the other stay in that order: those of a call that had
\* settled before another one was made never replace the other's, unless an attempt of
\* the first was given up and may have arrived late (client.ts:936-947, common.ts:272).
AssertionsKeepCallOrder ==
  \A c, d \in Calls("writeAssertions") :
    /\ d \in before[c] /\ d \notin lost
    /\ Resolved(c) /\ addressed[c] = addressed[d]
    => AssertionsAt(addressed[c]) # d

\* A call that names a model and is fulfilled was about a model of its store: the model
\* of its options, or else the client's at the time of the call.  For
\* checkValidApiConnection this is the whole point (client.ts:314-320, 420-426, 922-947).
FulfilledMeansFound ==
  \A c \in Calls("checkValidApiConnection") \cup Calls("readAuthorizationModel")
           \cup Calls("readAssertions") \cup Calls("writeAssertions") :
    Resolved(c) =>
      /\ AddressedStore(c) \in DOMAIN FirstModels \cup DOMAIN madeBy
      /\ AddressedModel(c) \in {Unset, Empty} \cup Range(models[AddressedStore(c)])
=============================================================================
