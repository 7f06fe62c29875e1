---------------------------- MODULE ApiCallProofs ----------------------------
(***************************************************************************)
(* Theorems about ApiCall, for every number of calls, requests and headers *)
(* objects, every scenario and every lifetime.  What the token cache does  *)
(* inside it is known from CredentialsProofs.                              *)
(***************************************************************************)
EXTENDS ApiCall, FiniteSetTheorems, TLAPS

KP == INSTANCE CredentialsProofs
        WITH Caller <- Request, Failures <- IssuerFailures, MaxRetry <- ExchangeRetries
HP == INSTANCE HttpRequestProofs
        WITH configured <- conf.retryParams, RetryMaxAllowedNumber <- RetryLimit,
             Failures <- Failures \cup {Unauthorized401}, TokenErrors <- ErrorObject

-----------------------------------------------------------------------------
\* The cache.  K and KP are the same module: what one does the other does.
LEMMA SameInit == K!Init => KP!Init
<1> QED BY DEF K!Init, KP!Init, K!NoError, KP!NoError

LEMMA SameSteps ==
  ASSUME NEW r \in Request
  PROVE  /\ K!UseCache(r) => KP!UseCache(r)
         /\ K!StartRefresh(r) => KP!StartRefresh(r)
         /\ K!SendExchange(r) => KP!SendExchange(r)
         /\ K!BuildFails(r) => KP!BuildFails(r)
         /\ K!Issue(r) => KP!Issue(r)
         /\ K!Receive(r) => KP!Receive(r)
<1> USE DEF K!cache, KP!cache, K!CachedTokenIsLive, KP!CachedTokenIsLive
<1>1. K!UseCache(r) => KP!UseCache(r)
  BY DEF K!UseCache, KP!UseCache
<1>2. K!StartRefresh(r) => KP!StartRefresh(r)
  BY DEF K!StartRefresh, KP!StartRefresh
<1>3. K!SendExchange(r) => KP!SendExchange(r)
  BY DEF K!SendExchange, KP!SendExchange
<1>4. K!BuildFails(r) => KP!BuildFails(r)
  BY DEF K!BuildFails, KP!BuildFails, K!ErrorOf, KP!ErrorOf
<1>5. K!Issue(r) => KP!Issue(r)
  BY DEF K!Issue, KP!Issue
<1>6. K!Receive(r) => KP!Receive(r)
  BY DEF K!Receive, KP!Receive, K!Receipt, KP!Receipt, K!ExpiryOnReceipt, KP!ExpiryOnReceipt,
         K!ReturnedToken, KP!ReturnedToken, K!Refreshing, KP!Refreshing
<1> QED BY <1>1, <1>2, <1>3, <1>4, <1>5, <1>6

LEMMA SameFailures ==
  ASSUME NEW r \in Request, NEW err \in IssuerFailures
  PROVE  /\ K!Retry(r, err) => KP!Retry(r, err)
         /\ K!ExchangeFails(r, err) => KP!ExchangeFails(r, err)
<1> USE DEF K!cache, KP!cache, K!CheckIfRetryableError, KP!CheckIfRetryableError,
            K!MayBeRetried, KP!MayBeRetried, K!IsNetworkError, KP!IsNetworkError,
            K!IsRetryableStatus, KP!IsRetryableStatus
<1>1. K!Retry(r, err) => KP!Retry(r, err)
  BY DEF K!Retry, KP!Retry
<1>2. K!RenamedExchangeError(K!ErrorOf(K!ErrorClassOf(err)))
        = KP!RenamedExchangeError(KP!ErrorOf(KP!ErrorClassOf(err)))
  BY DEF K!RenamedExchangeError, KP!RenamedExchangeError, K!ErrorOf, KP!ErrorOf,
         K!ErrorClassOf, KP!ErrorClassOf, K!InstanceOf, KP!InstanceOf, K!Superclass,
             KP!Superclass,
         K!ErrorClass, KP!ErrorClass
<1>3. K!ExchangeFails(r, err) => KP!ExchangeFails(r, err)
  BY <1>2 DEF K!ExchangeFails, KP!ExchangeFails
<1> QED BY <1>1, <1>3

\* Every step of a call is one of the cache, or leaves it alone.
LEMMA CacheStep == [Next]_vars => [KP!Next]_KP!vars
<1> SUFFICES ASSUME [Next]_vars PROVE [KP!Next]_KP!vars
  OBVIOUS
<1>1. CASE UNCHANGED tokenVars
  BY <1>1 DEF tokenVars, KP!vars
<1>2. CASE K!Tick
  BY <1>2 DEF K!Tick, KP!Tick, K!cache, KP!cache, KP!Next
<1>3. ASSUME NEW r \in Request,
             \/ K!UseCache(r) \/ K!StartRefresh(r) \/ K!SendExchange(r) \/ K!BuildFails(r)
             \/ K!Issue(r) \/ K!Receive(r)
             \/ \E err \in IssuerFailures : K!Retry(r, err) \/ K!ExchangeFails(r, err)
      PROVE  KP!Next
  BY <1>3, SameSteps, SameFailures DEF KP!Next, KP!Exchange
<1>4. CASE Next
  <2>1. CASE Construct \/ \E w \in writes : Write(w)
    BY <2>1, <1>1 DEF Construct, Write
  <2>2. CASE Tick
    BY <2>2, <1>2 DEF Tick
  <2>3. ASSUME NEW r \in Request, Launch(r) \/ Attempt(r) \/ Wake(r) PROVE UNCHANGED tokenVars
    BY <2>3 DEF Launch, Attempt, Wake
  <2>4. ASSUME NEW r \in Request, Authorize(r) PROVE [KP!Next]_KP!vars
    <3>1. CASE WithoutExchange(r)
      BY <3>1, <1>1 DEF WithoutExchange
    <3>2. CASE ~WithoutExchange(r)
      BY <2>4, <3>2, <1>3 DEF Authorize, WithCachedToken, ExchangeStep, WithNewToken, TokenFails
    <3> QED BY <3>1, <3>2
  <2> QED BY <1>1, <1>4, <2>1, <2>2, <2>3, <2>4 DEF Next
<1>5. CASE UNCHANGED vars
  BY <1>1, <1>5 DEF vars
<1> QED BY <1>4, <1>5

\* The invariant of the cache holds inside a call.
LEMMA CacheInvariant ==
  /\ Init => KP!TokenInvariant
  /\ KP!TokenInvariant /\ [Next]_vars => KP!TokenInvariant'
<1> USE TokenAssumption DEF K!CredentialsAssumption, K!UnsetAssumption, K!Token, KP!Token,
                            K!Failure, KP!Failure, K!Answered, KP!Answered
<1>1. Init => KP!TokenInvariant
  BY SameInit, KP!TokenInvariantInit DEF Init
<1>2. KP!TokenInvariant /\ [Next]_vars => KP!TokenInvariant'
  BY CacheStep, KP!TokenInvariantStep
<1> QED BY <1>1, <1>2

\* A request that was handed a token stays so.
LEMMA ServedStays ==
  ASSUME KP!TokenInvariant, [Next]_vars, NEW r \in Request, pc[r] = "served"
  PROVE  pc'[r] = "served"
<1>1. DOMAIN pc = Request
  BY DEF KP!TokenInvariant, KP!TypeOK
<1>2. [KP!Next]_KP!vars
  BY CacheStep
<1> QED BY <1>1, <1>2 DEF KP!Next, KP!vars, KP!Tick, KP!UseCache, KP!StartRefresh,
             KP!SendExchange, KP!BuildFails, KP!Exchange, KP!Issue, KP!Receive, KP!Retry,
             KP!ExchangeFails

-----------------------------------------------------------------------------
\* The invariant of the calls: what the configuration keeps of its parameters, what
\* the headers objects hold, and what a request knows at each place of its code.
ConfInvariant ==
  /\ scenario \in Scenarios /\ writes \subseteq scenario.writes
  /\ DOMAIN conf = DOMAIN ConfigurationOf(scenario.params)
  /\ conf.credentials = ConfigurationOf(scenario.params).credentials
  /\ conf.apiUrl \in ValuesGiven("apiUrl") /\ conf.apiHost \in ValuesGiven("apiHost")
  /\ client = "built" => ClientError(scenario.params) = NoError

HeaderNames == {"clientMethod", "bulkRequestId", "authorization"}

\* Whom the id in a headers object is from: the application, or a call given the object.
\* Without a source of random numbers it may be the fixed one.
IdsOf(x) ==
  {Unset, x} \cup {k \in CallId : ObjectOf(k) = x}
    \cup (IF scenario.randomness THEN {} ELSE {Fallback})

HeadersInvariant ==
  /\ DOMAIN headers = CallId \cup Object /\ begun \subseteq CallId
  /\ \A x \in CallId \cup Object :
       /\ DOMAIN headers[x] = HeaderNames
       /\ headers[x].authorization =
            (IF x \in Object THEN scenario.headers[x].authorization ELSE Unset)
       /\ headers[x].bulkRequestId \in IdsOf(x)
  /\ \A k \in begun :
       /\ IdOf(k) # Unset => headers[ObjectOf(k)].bulkRequestId # Unset
       /\ NameOf(Method(k)) # Unset => headers[ObjectOf(k)].clientMethod # Unset

\* A header a request was made with is still in the object it was copied from.
CopiesInvariant ==
  \A r \in Request : phase[r] # "idle" =>
    LET k == CallOf(r)
    IN  /\ k \in begun
        /\ args[r].bulkRequestId # Unset => args[r].bulkRequestId = headers[ObjectOf(k)].bulkRequestId
        /\ args[r].clientMethod # Unset => args[r].clientMethod = headers[ObjectOf(k)].clientMethod
        /\ IdOf(k) # Unset => args[r].bulkRequestId # Unset
        /\ NameOf(Method(k)) # Unset => args[r].clientMethod # Unset

\* What the validation has made sure of.
PathIsValid ==
  /\ IsWellFormedUriString(GetBasePath(conf))
  /\ ~(conf.apiUrl = Unset /\ ~Truthy(conf.apiHost))

\* A request that waits for its token.
Waits(r) ==
  /\ args[r].authorization = Given(r).authorization
  /\ PathIsValid \/ r \in exposed

RequestInvariant ==
  /\ DOMAIN phase = Request /\ DOMAIN args = Request /\ DOMAIN url = Request
  /\ DOMAIN refusedAt = Request
  /\ \A r \in Request :
       /\ phase[r] = "idle" => args[r] = Unset
       /\ phase[r] # "idle" => client = "built" /\ DOMAIN args[r] = HeaderNames
       /\ phase[r] \in {"idle", "authorizing"} => url[r] = Unset /\ refusedAt[r] = Unset
       /\ phase[r] = "authorizing" => Waits(r)

\* The token a request was, or is being, sent with.
Departed(r) == Sent(r) \/ phase[r] \in {"sending", "sleeping"}
SentInvariant ==
  \A r \in Request : Departed(r) =>
    /\ CarriesLiveToken(r)
    /\ UsesClientCredentials /\ Given(r).authorization = Unset =>
         pc[r] = "served" /\ handed[r].at \in Nat /\ handed[r].at <= now

CallInvariant ==
  /\ KP!TokenInvariant
  /\ ConfInvariant
  /\ HeadersInvariant
  /\ CopiesInvariant
  /\ RequestInvariant
  /\ SentInvariant
  /\ RefusedOnlyForEndedToken
  /\ UrlWasValidated

-----------------------------------------------------------------------------
\* The initial states.

LEMMA ScenarioTypes ==
  ASSUME NEW s \in Scenarios
  PROVE  /\ s.object \in [CallId -> Object \cup {Unset}]
         /\ s.callOf \in [Request -> CallId \cup {Unset}]
         /\ \A x \in Object : DOMAIN s.headers[x] = HeaderNames
                /\ s.headers[x].bulkRequestId \in {x, Unset}
                               /\ s.headers[x].authorization \in {x, Unset}
<1> QED BY ScenariosAssumption DEF Headers, HeaderNames

LEMMA CallInvariantInit == Init => CallInvariant
<1> SUFFICES ASSUME Init PROVE CallInvariant
  OBVIOUS
<1>0. scenario \in Scenarios /\ phase = [r \in Request |-> "idle"]
  BY DEF Init, H!Init
<1>1. KP!TokenInvariant
  BY CacheInvariant
<1>2. ConfInvariant
  BY <1>0 DEF Init, ConfInvariant, ConfigurationOf, ValuesGiven
<1>3. HeadersInvariant
  <2>1. DOMAIN headers = CallId \cup Object /\ begun = {}
    BY DEF Init
  <2>2. ASSUME NEW x \in CallId \cup Object
        PROVE  /\ DOMAIN headers[x] = HeaderNames
               /\ headers[x].authorization =
                    (IF x \in Object THEN scenario.headers[x].authorization ELSE Unset)
               /\ headers[x].bulkRequestId \in IdsOf(x)
    <3>1. CASE x \in Object
      BY <1>0, <3>1, ScenarioTypes DEF Init, IdsOf
    <3>2. CASE x \notin Object
      BY <3>2 DEF Init, NoHeaders, HeaderNames, IdsOf
    <3> QED BY <3>1, <3>2
  <2> QED BY <2>1, <2>2 DEF HeadersInvariant
<1>4. CopiesInvariant
  BY <1>0 DEF CopiesInvariant
<1>5. RequestInvariant
  BY <1>0 DEF Init, RequestInvariant
<1>6. SentInvariant /\ RefusedOnlyForEndedToken /\ UrlWasValidated
  BY <1>0 DEF Init, SentInvariant, RefusedOnlyForEndedToken, UrlWasValidated, Sent, Departed
<1> QED BY <1>1, <1>2, <1>3, <1>4, <1>5, <1>6 DEF CallInvariant

-----------------------------------------------------------------------------
\* What a step can do, as far as the invariant is concerned.

\* The request leaves.
First(r) == WithoutExchange(r) \/ WithCachedToken(r) \/ WithNewToken(r)

RefusesToken(r) ==
  /\ phase[r] = "sending" /\ HasEnded(args[r].authorization)
  /\ refusedAt' = [refusedAt EXCEPT ![r] = now]
  /\ UNCHANGED now

\* It is past its wait for a token, or the wait goes on.
Later ==
  /\ UNCHANGED <<clientVars, headerVars, args, url, exposed, handed, receipts>>
  /\ now' = now \/ now' = now + 1
  /\ DOMAIN phase' = DOMAIN phase
  /\ \A q \in Request :
       phase'[q] # phase[q] =>
         /\ phase[q] # "idle" /\ phase'[q] \notin {"idle", "authorizing"}
         /\ phase'[q] \in {"sending", "sleeping"} => phase[q] \in {"sending", "sleeping"}
  /\ UNCHANGED refusedAt \/ \E r \in Request : RefusesToken(r)

LEMMA Steps ==
  ASSUME RequestInvariant, [Next]_vars
  PROVE  \/ Construct \/ Later
         \/ \E w \in writes : Write(w)
         \/ \E r \in Request : Launch(r) \/ First(r)
<1>0. DOMAIN phase = Request
  BY DEF RequestInvariant
<1>1. ASSUME Tick PROVE Later
  BY <1>1 DEF Tick, K!Tick, Later, loopVars
<1>2. ASSUME NEW r \in Request, ExchangeStep(r) PROVE Later
  BY <1>2 DEF ExchangeStep, K!StartRefresh, K!SendExchange, K!Issue, K!Retry, K!cache, Later,
              loopVars
<1>3. ASSUME NEW r \in Request, TokenFails(r) PROVE Later
  <2>1. UNCHANGED <<handed, receipts, now>>
    BY <1>3 DEF TokenFails, K!BuildFails, K!ExchangeFails
  <2> QED BY <1>0, <1>3, <2>1 DEF TokenFails, H!Unauthorized, Later, clientVars
<1>4. ASSUME NEW r \in Request, Attempt(r) PROVE Later
  <2>1. UNCHANGED <<clientVars, headerVars, args, url, exposed, handed, receipts, now>>
    BY <1>4 DEF Attempt, Served, Refused, tokenVars, clientVars
  <2>2. /\ phase[r] = "sending" /\ DOMAIN phase' = DOMAIN phase
        /\ \E p \in {"rejected", "resolved", "sleeping"} : phase' = [phase EXCEPT ![r] = p]
    BY <1>0, <1>4 DEF Attempt, Served, Refused, H!Succeed, H!Throw, H!Sleep
  <2>3. UNCHANGED refusedAt \/ RefusesToken(r)
    BY <1>4, <2>1 DEF Attempt, Served, Refused, RefusesToken
  <2> QED BY <1>0, <2>1, <2>2, <2>3 DEF Later
<1>5. ASSUME NEW r \in Request, Wake(r) PROVE Later
  BY <1>0, <1>5 DEF Wake, H!Wake, Later, clientVars, tokenVars
<1>6. ASSUME UNCHANGED vars PROVE Later
  BY <1>6 DEF vars, Later, clientVars, tokenVars, loopVars
<1> QED BY <1>1, <1>2, <1>3, <1>4, <1>5, <1>6 DEF Next, Authorize, First

\* What every step of a request that leaves has in common.
LEMMA FirstSends ==
  ASSUME NEW r \in Request, First(r), RequestInvariant
  PROVE  /\ UNCHANGED <<scenario, client, conf, writes, headers, begun, exposed, refusedAt, now>>
         /\ phase[r] = "authorizing" /\ phase' = [phase EXCEPT ![r] = "sending"]
         /\ url' = [url EXCEPT ![r] = GetBasePath(conf)]
         /\ DOMAIN args' = DOMAIN args
         /\ \A q \in Request \ {r} : args'[q] = args[q]
         /\ DOMAIN args'[r] = HeaderNames
         /\ args'[r].clientMethod = args[r].clientMethod
         /\ args'[r].bulkRequestId = args[r].bulkRequestId
<1>1. PICK token : SendFirst(r, token)
  BY DEF First, WithoutExchange, WithCachedToken, WithNewToken
<1>2. phase[r] = "authorizing" /\ DOMAIN args = Request /\ DOMAIN args[r] = HeaderNames
  BY DEF First, WithoutExchange, WithCachedToken, WithNewToken, RequestInvariant
<1>3. UNCHANGED now
  BY DEF First, WithoutExchange, WithCachedToken, WithNewToken, tokenVars, K!UseCache, K!Receive
<1>4. args' = [args EXCEPT ![r].authorization = SetHeaderIfNotSet(@, token)]
  BY <1>1 DEF SendFirst, PutToken
<1>5. /\ DOMAIN args' = DOMAIN args
      /\ \A q \in Request \ {r} : args'[q] = args[q]
      /\ args'[r] = [args[r] EXCEPT !.authorization = SetHeaderIfNotSet(@, token)]
  BY <1>2, <1>4
<1>6. /\ DOMAIN args'[r] = HeaderNames
      /\ args'[r].clientMethod = args[r].clientMethod
      /\ args'[r].bulkRequestId = args[r].bulkRequestId
  BY <1>2, <1>5 DEF HeaderNames
<1> QED BY <1>1, <1>2, <1>3, <1>5, <1>6 DEF SendFirst, PutToken, H!Authorized

-----------------------------------------------------------------------------
\* The configuration.
LEMMA AuthKept ==
  ASSUME UNCHANGED scenario, conf'.credentials = conf.credentials
  PROVE  /\ auth' = auth /\ UsesClientCredentials' = UsesClientCredentials
         /\ \A r \in Request : Given(r)' = Given(r) /\ CallOf(r)' = CallOf(r)
         /\ \A k : ObjectOf(k)' = ObjectOf(k) /\ Method(k)' = Method(k) /\ IdOf(k)' = IdOf(k)
<1> QED BY DEF auth, UsesClientCredentials, Given, CallOf, ObjectOf, Method, IdOf, BulkId

LEMMA WriteKeeps ==
  ASSUME ConfInvariant, NEW w \in writes, Write(w)
  PROVE  /\ DOMAIN conf' = DOMAIN conf /\ conf'.credentials = conf.credentials
         /\ w \in scenario.writes
         /\ \A m \in BasePathMember : conf'[m] = IF m = w.member THEN w.value ELSE conf[m]
<1>1. /\ w \in scenario.writes
      /\ w.member \in BasePathMember \cup {"telemetry", "baseOptions"}
      /\ conf' = [conf EXCEPT ![w.member] = w.value]
  BY ScenariosAssumption DEF ConfInvariant, Write
<1>2. BasePathMember \cup {"credentials"} \subseteq DOMAIN conf
  BY DEF ConfInvariant, ConfigurationOf, BasePathMember
<1>3. "credentials" \notin BasePathMember
  BY DEF BasePathMember
<1> QED BY <1>1, <1>2, <1>3

\* What the application has given stays given.
LEMMA ValuesGrow ==
  ASSUME UNCHANGED scenario, writes' \subseteq writes, NEW m
  PROVE  ValuesGiven(m) \subseteq ValuesGiven(m)'
<1> QED BY DEF ValuesGiven

\* Every step leaves the scenario and the credentials as they are.
LEMMA ConfKept ==
  ASSUME ConfInvariant, RequestInvariant, [Next]_vars
  PROVE  UNCHANGED scenario /\ writes' \subseteq writes /\ conf'.credentials = conf.credentials
<1>1. CASE Construct
  BY <1>1 DEF Construct
<1>2. CASE Later
  BY <1>2 DEF Later, clientVars
<1>3. ASSUME NEW w \in writes, Write(w)
      PROVE  UNCHANGED scenario /\ writes' \subseteq writes
                 /\ conf'.credentials = conf.credentials
  BY <1>3, WriteKeeps DEF Write
<1>4. ASSUME NEW r \in Request, Launch(r) PROVE UNCHANGED <<scenario, writes, conf>>
  BY <1>4 DEF Launch
<1>5. ASSUME NEW r \in Request, First(r) PROVE UNCHANGED <<scenario, writes, conf>>
  BY <1>5, FirstSends
<1> QED BY <1>1, <1>2, <1>3, <1>4, <1>5, Steps

LEMMA ConfStep ==
  ASSUME ConfInvariant, RequestInvariant, [Next]_vars
  PROVE  ConfInvariant'
<1> USE DEF ConfInvariant
<1>1. CASE Construct
  BY <1>1 DEF Construct, ValuesGiven
<1>2. CASE Later
  BY <1>2 DEF Later, clientVars, ValuesGiven
<1>3. ASSUME NEW w \in writes, Write(w) PROVE ConfInvariant'
  <2>1. /\ scenario' = scenario /\ writes' = writes \ {w} /\ client' = client
        /\ w \in scenario'.writes \ writes'
    BY <1>3, WriteKeeps DEF Write
  <2>2. ASSUME NEW m \in BasePathMember, conf[m] \in ValuesGiven(m)
        PROVE  conf'[m] \in ValuesGiven(m)'
    <3>1. CASE m = w.member
      <4>1. conf'[m] = w.value
        BY <1>3, <3>1, WriteKeeps
      <4> QED BY <2>1, <3>1, <4>1 DEF ValuesGiven
    <3>2. CASE m # w.member
      <4>1. conf'[m] = conf[m] /\ writes' \subseteq writes
        BY <1>3, <2>1, <3>2, WriteKeeps
      <4> QED BY <2>1, <2>2, <4>1, ValuesGrow
    <3> QED BY <3>1, <3>2
  <2>3. conf'.apiUrl \in ValuesGiven("apiUrl")' /\ conf'.apiHost \in ValuesGiven("apiHost")'
    BY <2>2 DEF BasePathMember
  <2> QED BY <1>3, <2>1, <2>3, WriteKeeps
<1>4. ASSUME NEW r \in Request, Launch(r) PROVE ConfInvariant'
  BY <1>4 DEF Launch, ValuesGiven
<1>5. ASSUME NEW r \in Request, First(r) PROVE ConfInvariant'
  BY <1>5, FirstSends DEF ValuesGiven
<1> QED BY <1>1, <1>2, <1>3, <1>4, <1>5, Steps

-----------------------------------------------------------------------------
\* The headers objects and the copies of them.
LEMMA CallsAndObjects ==
  ASSUME ConfInvariant, NEW k \in CallId
  PROVE  ObjectOf(k) \in CallId \cup Object
<1> QED BY ScenarioTypes DEF ConfInvariant, ObjectOf

\* A name or an id that is there stays; an id that is put there is that of the call.
LEMMA StampSets ==
  ASSUME ConfInvariant, HeadersInvariant, NEW k \in CallId
  PROVE  /\ DOMAIN Stamp(k) = CallId \cup Object
         /\ \A x \in CallId \cup Object :
              /\ DOMAIN Stamp(k)[x] = HeaderNames
              /\ Stamp(k)[x].authorization = headers[x].authorization
              /\ Stamp(k)[x].bulkRequestId \in
                   {headers[x].bulkRequestId} \cup (IF x = ObjectOf(k) THEN {IdOf(k)} ELSE {})
              /\ headers[x].bulkRequestId # Unset => Stamp(k)[x].bulkRequestId = headers[x].bulkRequestId
              /\ headers[x].clientMethod # Unset => Stamp(k)[x].clientMethod = headers[x].clientMethod
         /\ IdOf(k) # Unset => Stamp(k)[ObjectOf(k)].bulkRequestId # Unset
         /\ NameOf(Method(k)) # Unset => Stamp(k)[ObjectOf(k)].clientMethod # Unset
<1> DEFINE o == ObjectOf(k)
           name == SetHeaderIfNotSet(headers[o].clientMethod, NameOf(Method(k)))
           id == SetHeaderIfNotSet(headers[o].bulkRequestId, IdOf(k))
<1>1. o \in CallId \cup Object /\ DOMAIN headers = CallId \cup Object
  BY CallsAndObjects DEF HeadersInvariant
<1>2. \A x \in CallId \cup Object : DOMAIN headers[x] = HeaderNames
  BY DEF HeadersInvariant
<1>3. DOMAIN Stamp(k) = CallId \cup Object
  BY <1>1 DEF Stamp
<1>4. \A x \in CallId \cup Object : x # o => Stamp(k)[x] = headers[x]
  BY <1>1 DEF Stamp
<1>5. /\ DOMAIN Stamp(k)[o] = HeaderNames
      /\ Stamp(k)[o].authorization = headers[o].authorization
      /\ Stamp(k)[o].bulkRequestId = id /\ Stamp(k)[o].clientMethod = name
  BY <1>1, <1>2 DEF Stamp, HeaderNames
<1>6. /\ id \in {headers[o].bulkRequestId, IdOf(k)}
      /\ headers[o].bulkRequestId # Unset => id = headers[o].bulkRequestId
      /\ headers[o].clientMethod # Unset => name = headers[o].clientMethod
      /\ IdOf(k) # Unset => id # Unset
      /\ NameOf(Method(k)) # Unset => name # Unset
  BY DEF SetHeaderIfNotSet
<1> HIDE DEF o, name, id
<1> QED BY <1>2, <1>3, <1>4, <1>5, <1>6 DEF o

\* What a request is made with.
LEMMA Launches ==
  ASSUME ConfInvariant, HeadersInvariant, RequestInvariant, NEW r \in Request, Launch(r)
  PROVE  /\ UNCHANGED <<scenario, client, conf, writes, url, exposed, refusedAt, tokenVars>>
         /\ phase[r] = "idle" /\ client = "built" /\ CallOf(r) \in CallId
         /\ begun' = begun \cup {CallOf(r)}
         /\ (headers' = headers /\ CallOf(r) \in begun) \/ headers' = Stamp(CallOf(r))
         /\ DOMAIN args' = Request /\ args'[r] = headers'[ObjectOf(CallOf(r))]
         /\ \A q \in Request \ {r} : args'[q] = args[q] /\ phase'[q] = phase[q]
         /\ DOMAIN phase' = Request /\ phase'[r] \in {"authorizing", "rejected"}
         /\ phase'[r] = "authorizing" => RequestError = NoError
<1>1. CallOf(r) \in CallId
  BY ScenarioTypes DEF ConfInvariant, Launch, CallOf
<1>2. DOMAIN args = Request /\ DOMAIN phase = Request
  BY DEF RequestInvariant
<1>3. /\ DOMAIN phase' = Request /\ phase'[r] \in {"authorizing", "rejected"}
      /\ \A q \in Request \ {r} : phase'[q] = phase[q]
      /\ phase'[r] = "authorizing" => RequestError = NoError
  BY <1>2 DEF Launch, H!Call
<1> QED BY <1>1, <1>2, <1>3 DEF Launch

LEMMA HeadersStep ==
  ASSUME ConfInvariant, HeadersInvariant, RequestInvariant, [Next]_vars
  PROVE  HeadersInvariant'
<1>0. \A k : ObjectOf(k)' = ObjectOf(k) /\ Method(k)' = Method(k) /\ IdOf(k)' = IdOf(k)
  BY ConfKept, AuthKept
<1>1. ASSUME UNCHANGED <<headers, begun>> PROVE HeadersInvariant'
  BY <1>0, <1>1, ConfKept DEF HeadersInvariant, IdsOf
<1>2. ASSUME NEW r \in Request, Launch(r) PROVE HeadersInvariant'
  <2> DEFINE k == CallOf(r)
  <2>1. k \in CallId /\ begun' = begun \cup {k}
        /\ ((headers' = headers /\ k \in begun) \/ headers' = Stamp(k))
    BY <1>2, Launches
  <2>2. CASE headers' = headers /\ k \in begun
    <3>1. begun' = begun
      BY <2>1, <2>2
    <3> QED BY <1>1, <2>2, <3>1
  <2>3. CASE headers' = Stamp(k)
    <3>1. DOMAIN headers' = CallId \cup Object /\ begun' \subseteq CallId
      BY <2>1, <2>3, StampSets DEF HeadersInvariant
    <3>2. ASSUME NEW x \in CallId \cup Object
          PROVE  /\ DOMAIN headers'[x] = HeaderNames
                 /\ headers'[x].authorization =
                      (IF x \in Object THEN scenario'.headers[x].authorization ELSE Unset)
                 /\ headers'[x].bulkRequestId \in IdsOf(x)'
      <4>1. /\ DOMAIN headers'[x] = HeaderNames
            /\ headers'[x].authorization = headers[x].authorization
            /\ headers'[x].bulkRequestId \in
                 {headers[x].bulkRequestId} \cup (IF x = ObjectOf(k) THEN {IdOf(k)} ELSE {})
        BY <2>1, <2>3, StampSets
      <4>2. headers[x].bulkRequestId \in IdsOf(x) /\ IdsOf(x)' = IdsOf(x)
        BY <1>0, ConfKept DEF HeadersInvariant, IdsOf
      <4>3. x = ObjectOf(k) => IdOf(k) \in IdsOf(x)
        BY <2>1 DEF IdOf, BulkId, IdsOf
      <4>4. headers[x].authorization =
              (IF x \in Object THEN scenario'.headers[x].authorization ELSE Unset)
        BY ConfKept DEF HeadersInvariant
      <4> HIDE DEF k
      <4>5. headers'[x].bulkRequestId \in IdsOf(x)'
        BY <4>1, <4>2, <4>3
      <4> QED BY <4>1, <4>4, <4>5
    <3>3. ASSUME NEW j \in begun'
          PROVE  /\ IdOf(j)' # Unset => headers'[ObjectOf(j)'].bulkRequestId # Unset
                 /\ NameOf(Method(j)') # Unset => headers'[ObjectOf(j)'].clientMethod # Unset
      <4>1. IdOf(j)' = IdOf(j) /\ Method(j)' = Method(j) /\ ObjectOf(j)' = ObjectOf(j)
        BY <1>0
      <4>2. CASE j = k
        BY <2>1, <2>3, <4>1, <4>2, StampSets
      <4>3. CASE j \in begun
        <5>1. j \in CallId /\ ObjectOf(j) \in CallId \cup Object
          BY <4>3, CallsAndObjects DEF HeadersInvariant
        <5>2. /\ IdOf(j) # Unset => headers[ObjectOf(j)].bulkRequestId # Unset
              /\ NameOf(Method(j)) # Unset => headers[ObjectOf(j)].clientMethod # Unset
          BY <4>3 DEF HeadersInvariant
        <5> QED BY <2>1, <2>3, <4>1, <5>1, <5>2, StampSets
      <4> QED BY <2>1, <4>2, <4>3
    <3> QED BY <3>1, <3>2, <3>3 DEF HeadersInvariant, NameOf
  <2> QED BY <2>1, <2>2, <2>3
<1>3. ASSUME NEW r \in Request, First(r) PROVE HeadersInvariant'
  BY <1>1, <1>3, FirstSends
<1> QED BY <1>1, <1>2, <1>3, Steps DEF Construct, Later, headerVars, Write

\* A copy keeps its header: it is still in the object.
LEMMA CopiesStep ==
  ASSUME ConfInvariant, HeadersInvariant, RequestInvariant, CopiesInvariant, [Next]_vars
  PROVE  CopiesInvariant'
<1>0. /\ \A k : ObjectOf(k)' = ObjectOf(k) /\ Method(k)' = Method(k) /\ IdOf(k)' = IdOf(k)
      /\ \A r \in Request : CallOf(r)' = CallOf(r)
  BY ConfKept, AuthKept
<1>1. ASSUME UNCHANGED <<headers, begun, args>>,
             \A q \in Request : phase[q] = "idle" => phase'[q] = "idle"
      PROVE  CopiesInvariant'
  BY <1>0, <1>1 DEF CopiesInvariant
<1>2. ASSUME NEW r \in Request, Launch(r) PROVE CopiesInvariant'
  <2> DEFINE k == CallOf(r)
  <2>1. /\ k \in CallId /\ begun' = begun \cup {k}
        /\ ((headers' = headers /\ k \in begun) \/ headers' = Stamp(k))
        /\ args'[r] = headers'[ObjectOf(k)]
        /\ \A q \in Request \ {r} : args'[q] = args[q] /\ phase'[q] = phase[q]
    BY <1>2, Launches
  <2>2. /\ IdOf(k) # Unset => headers'[ObjectOf(k)].bulkRequestId # Unset
        /\ NameOf(Method(k)) # Unset => headers'[ObjectOf(k)].clientMethod # Unset
    BY <2>1, StampSets DEF HeadersInvariant
  <2>3. ASSUME NEW q \in Request \ {r}, phase[q] # "idle"
        PROVE  LET j == CallOf(q)
               IN /\ j \in begun'
                  /\ args'[q].bulkRequestId # Unset =>
                         args'[q].bulkRequestId = headers'[ObjectOf(j)].bulkRequestId
                  /\ args'[q].clientMethod # Unset => args'[q].clientMethod = headers'[ObjectOf(j)].clientMethod
                  /\ IdOf(j) # Unset => args'[q].bulkRequestId # Unset
                  /\ NameOf(Method(j)) # Unset => args'[q].clientMethod # Unset
    <3> DEFINE o == ObjectOf(CallOf(q))
    <3>1. /\ CallOf(q) \in begun
          /\ args[q].bulkRequestId # Unset => args[q].bulkRequestId = headers[o].bulkRequestId
          /\ args[q].clientMethod # Unset => args[q].clientMethod = headers[o].clientMethod
          /\ IdOf(CallOf(q)) # Unset => args[q].bulkRequestId # Unset
          /\ NameOf(Method(CallOf(q))) # Unset => args[q].clientMethod # Unset
      BY <2>3 DEF CopiesInvariant
    <3>2. o \in CallId \cup Object
      BY <3>1, CallsAndObjects DEF HeadersInvariant
    <3>3. /\ headers[o].bulkRequestId # Unset => headers'[o].bulkRequestId = headers[o].bulkRequestId
          /\ headers[o].clientMethod # Unset => headers'[o].clientMethod = headers[o].clientMethod
      BY <2>1, <3>2, StampSets
    <3>4. args'[q] = args[q]
      BY <2>1
    <3> QED BY <2>1, <3>1, <3>3, <3>4
  <2>4. ASSUME NEW q \in Request, phase'[q] # "idle"
        PROVE  LET j == CallOf(q)
               IN /\ j \in begun'
                  /\ args'[q].bulkRequestId # Unset =>
                         args'[q].bulkRequestId = headers'[ObjectOf(j)].bulkRequestId
                  /\ args'[q].clientMethod # Unset => args'[q].clientMethod = headers'[ObjectOf(j)].clientMethod
                  /\ IdOf(j) # Unset => args'[q].bulkRequestId # Unset
                  /\ NameOf(Method(j)) # Unset => args'[q].clientMethod # Unset
    <3>1. CASE q = r
      BY <2>1, <2>2, <3>1
    <3>2. CASE q # r
      BY <2>1, <2>3, <2>4, <3>2
    <3> QED BY <3>1, <3>2
  <2> HIDE DEF k
  <2> QED BY <1>0, <2>4 DEF CopiesInvariant, NameOf
<1>3. ASSUME NEW r \in Request, First(r) PROVE CopiesInvariant'
  <2>1. /\ UNCHANGED <<headers, begun>> /\ phase[r] = "authorizing"
        /\ \A q \in Request : phase[q] = "idle" => phase'[q] = "idle"
        /\ \A q \in Request : /\ args'[q].bulkRequestId = args[q].bulkRequestId
                              /\ args'[q].clientMethod = args[q].clientMethod
    BY <1>3, FirstSends DEF RequestInvariant
  <2> QED BY <1>0, <2>1 DEF CopiesInvariant
<1>4. CASE Later
  BY <1>1, <1>4 DEF Later, headerVars
<1>5. CASE Construct \/ \E w \in writes : Write(w)
  BY <1>1, <1>5 DEF Construct, Write, headerVars, loopVars
<1> QED BY <1>2, <1>3, <1>4, <1>5, Steps

-----------------------------------------------------------------------------
\* What the requests know.
LEMMA Validated ==
  ASSUME RequestError = NoError
  PROVE  PathIsValid
<1> QED BY DEF RequestError, ClientConfigurationError, ConfigurationError, ErrorOf, NoError,
               PathIsValid, Missing

LEMMA LaunchedHeaders ==
  ASSUME ConfInvariant, HeadersInvariant, RequestInvariant, NEW r \in Request, Launch(r)
  PROVE  /\ DOMAIN args'[r] = HeaderNames
         /\ args'[r].authorization = Given(r).authorization
<1> DEFINE k == CallOf(r)
           o == ObjectOf(k)
<1>1. /\ k \in CallId /\ (headers' = headers \/ headers' = Stamp(k))
      /\ args'[r] = headers'[o]
  BY Launches
<1>2. o \in CallId \cup Object
  BY <1>1, CallsAndObjects
<1>3. DOMAIN headers'[o] = HeaderNames /\ headers'[o].authorization = headers[o].authorization
  BY <1>1, <1>2, StampSets DEF HeadersInvariant
<1>4. headers[o].authorization =
        (IF o \in Object THEN scenario.headers[o].authorization ELSE Unset)
  BY <1>2 DEF HeadersInvariant
<1>5. Given(r).authorization =
        (IF o \in Object THEN scenario.headers[o].authorization ELSE Unset)
  <2>1. scenario.object[k] \in Object \cup {Unset}
    BY <1>1, ScenarioTypes DEF ConfInvariant
  <2>2. CallOf(r) = k
    OBVIOUS
  <2> HIDE DEF k
  <2> QED BY <1>1, <2>1, <2>2, ObjectAssumption DEF ObjectOf, Given, NoHeaders
<1> QED BY <1>1, <1>3, <1>4, <1>5

LEMMA RequestStep ==
  ASSUME ConfInvariant, HeadersInvariant, RequestInvariant, [Next]_vars
  PROVE  RequestInvariant'
<1>0. \A r \in Request : Given(r)' = Given(r)
  BY ConfKept, AuthKept
<1> DEFINE Knows(r) ==
      /\ phase[r] = "idle" => args[r] = Unset
      /\ phase[r] # "idle" => client = "built" /\ DOMAIN args[r] = HeaderNames
      /\ phase[r] \in {"idle", "authorizing"} => url[r] = Unset /\ refusedAt[r] = Unset
      /\ phase[r] = "authorizing" => Waits(r)
<1>1. /\ DOMAIN phase = Request /\ DOMAIN args = Request /\ DOMAIN url = Request
      /\ DOMAIN refusedAt = Request /\ \A r \in Request : Knows(r)
  BY DEF RequestInvariant
<1>2. CASE Construct
  <2>1. client = "none" /\ UNCHANGED <<scenario, conf, args, url, exposed, refusedAt, phase>>
    BY <1>2 DEF Construct, loopVars
  <2>2. \A r \in Request : phase[r] = "idle"
    BY <1>1, <2>1
  <2> QED BY <1>1, <2>1, <2>2 DEF RequestInvariant
<1>3. ASSUME NEW w \in writes, Write(w) PROVE RequestInvariant'
  <2>1. /\ UNCHANGED <<client, args, url, refusedAt, phase>> /\ exposed \subseteq exposed'
        /\ w.member \in BasePathMember => {r \in Request :
               phase[r] = "authorizing"} \subseteq exposed'
    BY <1>3 DEF Write, loopVars
  <2>2. w.member \notin BasePathMember => PathIsValid' = PathIsValid
    <3>1. ASSUME w.member \notin BasePathMember
          PROVE  UNCHANGED <<conf.apiUrl, conf.apiScheme, conf.apiHost>>
      BY <1>3, <3>1, WriteKeeps DEF BasePathMember
    <3> QED BY <3>1 DEF PathIsValid, GetBasePath
  <2>3. ASSUME NEW r \in Request, phase'[r] = "authorizing" PROVE Waits(r)'
    BY <1>0, <1>1, <2>1, <2>2, <2>3 DEF Waits, PathIsValid
  <2> QED BY <1>1, <2>1, <2>3 DEF RequestInvariant
<1>4. ASSUME NEW r \in Request, Launch(r) PROVE RequestInvariant'
  <2>1. /\ UNCHANGED <<client, conf, url, exposed, refusedAt>> /\ client = "built"
        /\ DOMAIN phase' = Request /\ DOMAIN args' = Request
        /\ \A q \in Request \ {r} : args'[q] = args[q] /\ phase'[q] = phase[q]
        /\ phase[r] = "idle" /\ phase'[r] \in {"authorizing", "rejected"}
        /\ phase'[r] = "authorizing" => PathIsValid
    BY <1>4, Launches, Validated
  <2>2. DOMAIN args'[r] = HeaderNames /\ args'[r].authorization = Given(r).authorization
    BY <1>4, LaunchedHeaders
  <2>3. \A q \in Request \ {r} : Knows(q)'
    BY <1>0, <1>1, <2>1 DEF Waits, PathIsValid
  <2>4. Knows(r)'
    <3>1. url'[r] = Unset /\ refusedAt'[r] = Unset
      BY <1>1, <2>1
    <3>2. phase'[r] = "authorizing" => Waits(r)'
      BY <1>0, <2>1, <2>2 DEF Waits, PathIsValid
    <3> QED BY <2>1, <2>2, <3>1, <3>2
  <2>5. \A q \in Request : Knows(q)'
    BY <2>3, <2>4
  <2> HIDE DEF Knows
  <2>6. DOMAIN url' = Request /\ DOMAIN refusedAt' = Request
    BY <1>1, <2>1
  <2> QED BY <2>1, <2>5, <2>6 DEF RequestInvariant, Knows
<1>5. ASSUME NEW r \in Request, First(r) PROVE RequestInvariant'
  <2>1. /\ UNCHANGED <<client, conf, exposed, refusedAt>>
        /\ phase[r] = "authorizing" /\ phase' = [phase EXCEPT ![r] = "sending"]
        /\ url' = [url EXCEPT ![r] = GetBasePath(conf)]
        /\ DOMAIN args' = Request /\ DOMAIN args'[r] = HeaderNames
        /\ \A q \in Request \ {r} : args'[q] = args[q]
    BY <1>1, <1>5, FirstSends
  <2>2. /\ DOMAIN phase' = Request /\ DOMAIN url' = Request
        /\ \A q \in Request \ {r} : phase'[q] = phase[q] /\ url'[q] = url[q]
        /\ phase'[r] = "sending"
    BY <1>1, <2>1
  <2>3. \A q \in Request \ {r} : Knows(q)'
    BY <1>0, <1>1, <2>1, <2>2 DEF Waits, PathIsValid
  <2>4. Knows(r)'
    BY <1>1, <2>1, <2>2
  <2>5. \A q \in Request : Knows(q)'
    BY <2>3, <2>4
  <2> HIDE DEF Knows
  <2>6. DOMAIN refusedAt' = Request
    BY <1>1, <2>1
  <2> QED BY <2>1, <2>2, <2>5, <2>6 DEF RequestInvariant, Knows
<1>6. CASE Later
  <2>1. /\ UNCHANGED <<client, conf, args, url, exposed>> /\ DOMAIN phase' = Request
        /\ \A q \in Request : phase'[q] # phase[q] =>
             phase[q] # "idle" /\ phase'[q] \notin {"idle", "authorizing"}
    BY <1>1, <1>6 DEF Later, clientVars
  <2>2. DOMAIN refusedAt' = Request
        /\ \A q \in Request : phase[q] \in {"idle", "authorizing"} => refusedAt'[q] = refusedAt[q]
    BY <1>1, <1>6 DEF Later, RefusesToken
  <2>3. \A q \in Request : Knows(q)'
    BY <1>0, <1>1, <2>1, <2>2 DEF Waits, PathIsValid
  <2> QED BY <1>1, <2>1, <2>2, <2>3 DEF RequestInvariant
<1> QED BY <1>2, <1>3, <1>4, <1>5, <1>6, Steps

-----------------------------------------------------------------------------
\* The token of a request.
LEMMA ClockAndReceipts ==
  ASSUME KP!TokenInvariant
  PROVE  /\ now \in Nat
         /\ receipts \in Seq(KP!Receipts)
         /\ DOMAIN handed = Request
         /\ \A i \in DOMAIN receipts :
              /\ receipts[i].at \in Nat /\ receipts[i].token \in K!Token
              /\ receipts[i].token.issuedAt \in Nat /\ receipts[i].token.life \in Nat
<1>1. KP!TypeOK
  BY DEF KP!TokenInvariant
<1>2. now \in Nat /\ receipts \in Seq(KP!Receipts) /\ DOMAIN handed = Request
  BY <1>1, TokenAssumption DEF K!CredentialsAssumption, KP!TypeOK
<1>3. \A i \in DOMAIN receipts : receipts[i] \in KP!Receipts
  BY <1>2
<1>4. ASSUME NEW i \in DOMAIN receipts
      PROVE  /\ receipts[i].at \in Nat /\ receipts[i].token \in K!Token
             /\ receipts[i].token.issuedAt \in Nat /\ receipts[i].token.life \in Nat
  <2>1. receipts[i].at \in 0 .. MaxTime /\ receipts[i].token \in KP!Token
    BY <1>3, <1>4 DEF KP!Receipts
  <2>2. receipts[i].token \in K!Token
    BY <2>1 DEF KP!Token, K!Token
  <2>3. Lifetimes \subseteq Nat /\ MaxTime \in Nat
    BY TokenAssumption DEF K!CredentialsAssumption
  <2>4. ASSUME NEW t \in K!Token PROVE t.issuedAt \in Nat /\ t.life \in Nat
    BY <2>3 DEF K!Token
  <2>5. receipts[i].at \in Nat
    BY <2>1, <2>3
  <2> QED BY <2>2, <2>4, <2>5
<1> QED BY <1>2, <1>4

\* What the request that leaves is handed, and what the cache has received.
LEMMA FirstHandsOut ==
  ASSUME KP!TokenInvariant, RequestInvariant, NEW r \in Request, First(r)
  PROVE  /\ \A q \in Request \ {r} : handed'[q] = handed[q]
         /\ \A i \in DOMAIN receipts : i \in DOMAIN receipts' /\ receipts'[i] = receipts[i]
         /\ UsesClientCredentials =>
              /\ pc'[r] = "served" /\ handed'[r].at = now
              /\ \E i \in DOMAIN receipts' :
                   /\ receipts'[i].token = handed'[r].token
                   /\ \/ now < receipts'[i].at + receipts'[i].token.life
                      \/ now = receipts'[i].at
<1>0. /\ receipts \in Seq(KP!Receipts) /\ DOMAIN handed = Request /\ DOMAIN pc = Request
  BY ClockAndReceipts DEF KP!TokenInvariant, KP!TypeOK
<1>1. CASE WithoutExchange(r)
  BY <1>1 DEF WithoutExchange, tokenVars
<1>2. CASE WithCachedToken(r)
  <2>1. /\ handed' = [handed EXCEPT ![r] = [token |-> accessToken, at |-> now]]
        /\ receipts' = receipts /\ accessToken # Unset /\ accessTokenExpiryDate > now
    BY <1>2 DEF WithCachedToken, K!UseCache, K!CachedTokenIsLive
  <2>2. KP!CacheIsLastReceipt
    BY DEF KP!TokenInvariant
  <2>3. receipts # <<>>
    BY <2>1, <2>2 DEF KP!CacheIsLastReceipt
  <2>4. /\ Len(receipts) \in DOMAIN receipts
        /\ accessToken = receipts[Len(receipts)].token
        /\ accessTokenExpiryDate = receipts[Len(receipts)].at + receipts[Len(receipts)].token.life
    BY <1>0, <2>2, <2>3 DEF KP!CacheIsLastReceipt
  <2>5. now \in Nat /\ receipts[Len(receipts)].at \in Nat
        /\ receipts[Len(receipts)].token.life \in Nat
    BY <2>4, ClockAndReceipts
  <2>6. now < receipts[Len(receipts)].at + receipts[Len(receipts)].token.life
    BY <2>1, <2>4, <2>5
  <2>7. handed'[r].at = now /\ handed'[r].token = accessToken
    BY <1>0, <2>1
  <2>8. pc'[r] = "served"
    BY <1>0, <1>2 DEF WithCachedToken, K!UseCache
  <2> QED BY <1>0, <2>1, <2>4, <2>6, <2>7, <2>8
<1>3. CASE WithNewToken(r)
  <2>1. /\ handed' = [handed EXCEPT ![r] = [token |-> wire[r], at |-> now]]
        /\ receipts' = Append(receipts, K!Receipt(r))
    BY <1>3 DEF WithNewToken, K!Receive, K!ReturnedToken
  <2>2. K!Receipt(r).token = wire[r] /\ K!Receipt(r).at = now
    BY DEF K!Receipt
  <2>3. /\ Len(receipts) + 1 \in DOMAIN receipts'
        /\ receipts'[Len(receipts) + 1] = K!Receipt(r)
        /\ \A i \in DOMAIN receipts : i \in DOMAIN receipts' /\ receipts'[i] = receipts[i]
    BY <1>0, <2>1
  <2>4. handed'[r].at = now /\ handed'[r].token = wire[r]
        /\ \A q \in Request \ {r} : handed'[q] = handed[q]
    BY <1>0, <2>1
  <2>5. pc'[r] = "served"
    BY <1>0, <1>3 DEF WithNewToken, K!Receive
  <2> QED BY <2>2, <2>3, <2>4, <2>5
<1> QED BY <1>1, <1>2, <1>3 DEF First

\* The header the request that leaves goes out with.
LEMMA FirstAuthorizes ==
  ASSUME RequestInvariant, NEW r \in Request, First(r)
  PROVE  /\ Given(r).authorization # Unset => args'[r].authorization = Given(r).authorization
         /\ Given(r).authorization = Unset =>
              args'[r].authorization =
                IF UsesClientCredentials THEN handed'[r].token
                ELSE IF auth = Unset \/ auth.method = "none" THEN Unset ELSE auth.config.token
<1>1. phase[r] = "authorizing"
  BY DEF First, WithoutExchange, WithCachedToken, WithNewToken
<1>2. /\ args[r].authorization = Given(r).authorization
      /\ "authorization" \in DOMAIN args[r] /\ DOMAIN args = Request
  BY <1>1 DEF RequestInvariant, Waits, HeaderNames
<1> DEFINE token == IF UsesClientCredentials THEN handed'[r].token
                    ELSE IF auth = Unset \/ auth.method = "none" THEN Unset ELSE auth.config.token
<1>3. args' = [args EXCEPT ![r].authorization = SetHeaderIfNotSet(@, token)]
  BY DEF First, WithoutExchange, WithCachedToken, WithNewToken, SendFirst, PutToken
<1> HIDE DEF token
<1>4. args'[r].authorization = SetHeaderIfNotSet(args[r].authorization, token)
  BY <1>2, <1>3
<1> QED BY <1>2, <1>4 DEF SetHeaderIfNotSet, token

\* The API token of the configuration is the one the client was given.
LEMMA ApiTokenIsGiven ==
  ASSUME ConfInvariant, ~UsesClientCredentials, auth # Unset, auth.method # "none"
  PROVE  auth.config.token = scenario.params.credentials.config.token
<1> DEFINE given == scenario.params.credentials
           c == CredentialsOf(given)
<1>1. conf.credentials = c
  BY DEF ConfInvariant, ConfigurationOf
<1>2. c # Unset /\ given # Unset
  BY <1>1 DEF auth, InitConfig, CredentialsOf
<1>3. CASE given.method = "api_token"
  <2>1. c = [method |-> "api_token",
             config |-> [token             |-> given.config.token,
                         headerName        |-> "Authorization",
                         headerValuePrefix |-> "Bearer"]]
    BY <1>2, <1>3 DEF CredentialsOf
  <2>2. InitConfig(c).config.token = given.config.token
    BY <2>1 DEF InitConfig
  <2> QED BY <1>1, <2>2 DEF auth
<1>4. CASE given.method = "client_credentials"
  <2>1. c = given /\ InitConfig(c) = given
    BY <1>2, <1>4 DEF CredentialsOf, InitConfig
  <2> QED BY <1>1, <1>2, <1>4, <2>1 DEF auth, UsesClientCredentials
<1>5. CASE given.method # "api_token" /\ given.method # "client_credentials"
  <2>1. c = [method |-> "none", config |-> Unset]
    BY <1>2, <1>5 DEF CredentialsOf
  <2>2. InitConfig(c).method = "none"
    BY <2>1 DEF InitConfig
  <2> QED BY <1>1, <2>2 DEF auth
<1> QED BY <1>3, <1>4, <1>5

\* What is known of a request's token stays known while the clock runs and the cache
\* receives other tokens.
LEMMA StillSent ==
  ASSUME ConfInvariant, KP!TokenInvariant, SentInvariant,
         UNCHANGED scenario, conf'.credentials = conf.credentials,
         now' = now \/ now' = now + 1,
         \A i \in DOMAIN receipts : i \in DOMAIN receipts' /\ receipts'[i] = receipts[i],
         NEW q \in Request, Departed(q),
         args'[q] = args[q], handed'[q] = handed[q],
         pc[q] = "served" => pc'[q] = "served"
  PROVE  /\ CarriesLiveToken(q)'
         /\ (UsesClientCredentials /\ Given(q).authorization = Unset)' =>
              pc'[q] = "served" /\ handed'[q].at \in Nat /\ handed'[q].at <= now'
<1>1. /\ auth' = auth /\ UsesClientCredentials' = UsesClientCredentials
      /\ Given(q)' = Given(q)
  BY AuthKept
<1>2. CarriesLiveToken(q)
  BY DEF SentInvariant
<1>3. CarriesLiveToken(q)'
  BY <1>1, <1>2 DEF CarriesLiveToken
<1>4. UsesClientCredentials /\ Given(q).authorization = Unset =>
        pc[q] = "served" /\ handed[q].at \in Nat /\ handed[q].at <= now
  BY DEF SentInvariant
<1>5. now \in Nat
  BY ClockAndReceipts
<1> QED BY <1>1, <1>3, <1>4, <1>5

LEMMA SentStep ==
  ASSUME ConfInvariant, HeadersInvariant, RequestInvariant, KP!TokenInvariant, SentInvariant,
         [Next]_vars
  PROVE  SentInvariant'
<1> DEFINE Known(q) ==
      /\ CarriesLiveToken(q)
      /\ UsesClientCredentials /\ Given(q).authorization = Unset =>
           pc[q] = "served" /\ handed[q].at \in Nat /\ handed[q].at <= now
<1>0. /\ UNCHANGED scenario /\ conf'.credentials = conf.credentials
      /\ auth' = auth /\ UsesClientCredentials' = UsesClientCredentials
      /\ \A q \in Request : Given(q)' = Given(q)
  BY ConfKept, AuthKept
<1>1. ASSUME UNCHANGED <<args, url, handed, receipts>>, now' = now \/ now' = now + 1,
             \A q \in Request : phase'[q] \in {"sending", "sleeping"} =>
                phase[q] \in {"sending", "sleeping"}
      PROVE  SentInvariant'
  <2>1. \A q \in Request : Departed(q)' => Departed(q)
    BY <1>1 DEF Departed, Sent
  <2>2. ASSUME NEW q \in Request, Departed(q) PROVE Known(q)'
    BY <1>0, <1>1, <2>2, StillSent, ServedStays
  <2> QED BY <2>1, <2>2 DEF SentInvariant
<1>2. CASE Construct \/ \E w \in writes : Write(w)
  BY <1>1, <1>2 DEF Construct, Write, tokenVars, loopVars
<1>3. CASE Later
  BY <1>1, <1>3 DEF Later
<1>4. ASSUME NEW r \in Request, Launch(r) PROVE SentInvariant'
  <2>1. /\ UNCHANGED <<url, handed, receipts, now>>
        /\ phase[r] = "idle" /\ phase'[r] \in {"authorizing", "rejected"}
        /\ \A q \in Request \ {r} : args'[q] = args[q] /\ phase'[q] = phase[q]
    BY <1>4, Launches DEF tokenVars
  <2>2. url[r] = Unset
    BY <2>1 DEF RequestInvariant
  <2>3. ~Departed(r)' /\ \A q \in Request \ {r} : Departed(q)' => Departed(q)
    BY <2>1, <2>2 DEF Departed, Sent
  <2>4. ASSUME NEW q \in Request \ {r}, Departed(q) PROVE Known(q)'
    BY <1>0, <2>1, <2>4, StillSent, ServedStays
  <2>5. \A q \in Request : Departed(q)' => Known(q)'
    BY <2>3, <2>4
  <2> HIDE DEF Known
  <2> QED BY <2>5 DEF SentInvariant, Known
<1>5. ASSUME NEW r \in Request, First(r) PROVE SentInvariant'
  <2>1. /\ phase[r] = "authorizing" /\ phase' = [phase EXCEPT ![r] = "sending"]
        /\ url' = [url EXCEPT ![r] = GetBasePath(conf)] /\ now' = now
        /\ \A q \in Request \ {r} : args'[q] = args[q]
    BY <1>5, FirstSends
  <2>2. /\ \A q \in Request \ {r} : handed'[q] = handed[q]
        /\ \A i \in DOMAIN receipts : i \in DOMAIN receipts' /\ receipts'[i] = receipts[i]
    BY <1>5, FirstHandsOut
  <2>3. \A q \in Request \ {r} : Departed(q)' => Departed(q)
    BY <2>1 DEF Departed, Sent, RequestInvariant
  <2>4. ASSUME NEW q \in Request \ {r}, Departed(q) PROVE Known(q)'
    BY <1>0, <2>1, <2>2, <2>4, StillSent, ServedStays
  <2>5. Known(r)'
    <3>1. CASE Given(r).authorization # Unset
      BY <1>0, <1>5, <3>1, FirstAuthorizes DEF CarriesLiveToken
    <3>2. CASE Given(r).authorization = Unset /\ ~UsesClientCredentials
      <4>1. args'[r].authorization =
              IF auth = Unset \/ auth.method = "none" THEN Unset ELSE auth.config.token
        BY <1>5, <3>2, FirstAuthorizes
      <4>2. args'[r].authorization =
              IF auth = Unset \/ auth.method = "none" THEN Unset
              ELSE scenario.params.credentials.config.token
        BY <3>2, <4>1, ApiTokenIsGiven
      <4> QED BY <1>0, <3>2, <4>2 DEF CarriesLiveToken
    <3>3. CASE Given(r).authorization = Unset /\ UsesClientCredentials
      <4>1. args'[r].authorization = handed'[r].token
        BY <1>5, <3>3, FirstAuthorizes
      <4>2. /\ pc'[r] = "served" /\ handed'[r].at = now
            /\ \E i \in DOMAIN receipts' :
                 /\ receipts'[i].token = handed'[r].token
                 /\ \/ now < receipts'[i].at + receipts'[i].token.life
                    \/ now = receipts'[i].at
        BY <1>5, <3>3, FirstHandsOut
      <4>3. CarriesLiveToken(r)'
        BY <1>0, <3>3, <4>1, <4>2 DEF CarriesLiveToken
      <4>4. now \in Nat
        BY ClockAndReceipts
      <4> QED BY <2>1, <4>2, <4>3, <4>4
    <3> QED BY <3>1, <3>2, <3>3
  <2>6. \A q \in Request : Departed(q)' => Known(q)'
    BY <2>3, <2>4, <2>5
  <2> HIDE DEF Known
  <2> QED BY <2>6 DEF SentInvariant, Known
<1> QED BY <1>2, <1>3, <1>4, <1>5, Steps

-----------------------------------------------------------------------------
\* A refusal: the token is one of the issuer's, so the request was handed it.
LEMMA RefusalIsExplained ==
  ASSUME ConfInvariant, HeadersInvariant, KP!TokenInvariant, SentInvariant,
         NEW r \in Request, CallOf(r) \in CallId, RefusesToken(r)
  PROVE  \E i \in DOMAIN receipts :
           /\ receipts[i].token = args[r].authorization
           /\ \/ receipts[i].at > receipts[i].token.issuedAt
              \/ now > handed[r].at
              \/ receipts[i].token.life = 0 /\ receipts[i].token.by = r
<1> DEFINE t == args[r].authorization
<1>1. /\ phase[r] = "sending" /\ UsesClientCredentials
      /\ t \in K!Token /\ t.issuedAt + t.life <= now
  BY DEF RefusesToken, HasEnded, K!IssuerExpiry
<1>2. CarriesLiveToken(r)
  BY <1>1 DEF SentInvariant, Departed
<1>3. Given(r).authorization = Unset
  <2>1. Given(r).authorization \in Object \cup {Unset}
    BY ScenarioTypes DEF ConfInvariant, Given, NoHeaders
  <2>2. Given(r).authorization # Unset => t = Given(r).authorization
    BY <1>2 DEF CarriesLiveToken
  <2> HIDE DEF t
  <2> QED BY <1>1, <2>1, <2>2, ObjectAssumption
<1>4. pc[r] = "served" /\ handed[r].at \in Nat /\ handed[r].at <= now
  BY <1>1, <1>3 DEF SentInvariant, Departed
<1>5. PICK i \in DOMAIN receipts :
        /\ receipts[i].token = t /\ handed[r].token = t
        /\ \/ handed[r].at < receipts[i].at + receipts[i].token.life
           \/ handed[r].at = receipts[i].at
  BY <1>1, <1>2, <1>3 DEF CarriesLiveToken
<1>6. /\ now \in Nat /\ receipts[i].at \in Nat
      /\ receipts[i].token.issuedAt \in Nat /\ receipts[i].token.life \in Nat
  BY ClockAndReceipts
<1> HIDE DEF t
<1>7. t.life = 0 => t.by = r
  BY <1>4, <1>5 DEF KP!TokenInvariant, KP!UselessAnswerStaysWithItsCaller
<1>8. \/ receipts[i].at > receipts[i].token.issuedAt
      \/ now > handed[r].at
      \/ receipts[i].token.life = 0
  BY <1>1, <1>4, <1>5, <1>6
<1> QED BY <1>5, <1>7, <1>8 DEF t

LEMMA RefusedStep ==
  ASSUME CallInvariant, [Next]_vars
  PROVE  RefusedOnlyForEndedToken'
<1> USE DEF CallInvariant
<1> DEFINE Explained(q) ==
      refusedAt[q] # Unset =>
        \E i \in DOMAIN receipts :
          /\ receipts[i].token = args[q].authorization
          /\ \/ receipts[i].at > receipts[i].token.issuedAt
             \/ refusedAt[q] > handed[q].at
             \/ receipts[i].token.life = 0 /\ receipts[i].token.by = q
<1>1. \A q \in Request : Explained(q)
  BY DEF RefusedOnlyForEndedToken
<1>2. ASSUME UNCHANGED <<args, handed, receipts, refusedAt>>
      PROVE  RefusedOnlyForEndedToken'
  BY <1>1, <1>2 DEF RefusedOnlyForEndedToken
<1>3. CASE Construct \/ \E w \in writes : Write(w)
  BY <1>2, <1>3 DEF Construct, Write, tokenVars
<1>4. CASE Later
  <2>1. UNCHANGED <<args, handed, receipts>>
    BY <1>4 DEF Later
  <2>2. ASSUME NEW r \in Request, RefusesToken(r) PROVE RefusedOnlyForEndedToken'
    <3>1. CallOf(r) \in CallId
      BY <2>2 DEF RefusesToken, CopiesInvariant, HeadersInvariant
    <3>2. DOMAIN refusedAt = Request /\ refusedAt' = [refusedAt EXCEPT ![r] = now]
      BY <2>2 DEF RefusesToken, RequestInvariant
    <3>3. refusedAt'[r] = now /\ \A q \in Request \ {r} : refusedAt'[q] = refusedAt[q]
      BY <3>2
    <3>4. Explained(r)'
      BY <2>1, <2>2, <3>1, <3>3, RefusalIsExplained
    <3>5. \A q \in Request \ {r} : Explained(q)'
      BY <1>1, <2>1, <3>3
    <3>6. \A q \in Request : Explained(q)'
      BY <3>4, <3>5
    <3> QED BY <3>6 DEF RefusedOnlyForEndedToken
  <2> QED BY <1>2, <1>4, <2>1, <2>2 DEF Later
<1>5. ASSUME NEW r \in Request, Launch(r) \/ First(r) PROVE RefusedOnlyForEndedToken'
  <2>1. /\ refusedAt' = refusedAt /\ phase[r] \in {"idle", "authorizing"}
        /\ \A q \in Request \ {r} : args'[q] = args[q] /\ handed'[q] = handed[q]
        /\ \A i \in DOMAIN receipts : i \in DOMAIN receipts' /\ receipts'[i] = receipts[i]
    BY <1>5, Launches, FirstSends, FirstHandsOut DEF tokenVars
  <2>2. refusedAt'[r] = Unset
    BY <2>1 DEF RequestInvariant
  <2>3. \A q \in Request : Explained(q)'
    BY <1>1, <2>1, <2>2
  <2> QED BY <2>3 DEF RefusedOnlyForEndedToken
<1> QED BY <1>3, <1>4, <1>5, Steps

-----------------------------------------------------------------------------
\* The base path: how its host can be "undefined" when it is read.
LEMMA BasePath ==
  ASSUME ConfInvariant, GetBasePath(conf).host = Undefined
  PROVE  /\ Unset \in ValuesGiven("apiHost")
         /\ Empty \in ValuesGiven("apiUrl") \/ (Unset \in ValuesGiven("apiUrl") /\ ~PathIsValid)
<1>1. NamesHost(conf.apiUrl) /\ conf.apiHost # Undefined
  BY ScenariosAssumption DEF ConfInvariant, ValuesGiven
<1>2. ~Truthy(conf.apiUrl)
  BY <1>1 DEF NamesHost, GetBasePath
<1>3. AsText(conf.apiHost) = Undefined
  BY <1>2 DEF GetBasePath, Url
<1>4. conf.apiHost = Unset
  BY <1>1, <1>3 DEF AsText
<1>5. conf.apiUrl \in {Unset, Empty}
  BY <1>2 DEF Truthy
<1>6. conf.apiUrl = Unset => ~PathIsValid
  BY <1>4 DEF PathIsValid, Truthy
<1> QED BY <1>4, <1>5, <1>6 DEF ConfInvariant

LEMMA UrlStep ==
  ASSUME CallInvariant, [Next]_vars
  PROVE  UrlWasValidated'
<1> USE DEF CallInvariant
<1> DEFINE Valid(q) ==
      /\ IsWellFormedUriString(url[q]) \/ q \in exposed
      /\ url[q].host = Undefined =>
           /\ Unset \in ValuesGiven("apiHost")
           /\ Empty \in ValuesGiven("apiUrl")
                \/ (Unset \in ValuesGiven("apiUrl") /\ q \in exposed)
<1>1. \A q \in Request : Sent(q) => Valid(q)
  BY DEF UrlWasValidated
<1>7. /\ ValuesGiven("apiUrl") \subseteq ValuesGiven("apiUrl")'
      /\ ValuesGiven("apiHost") \subseteq ValuesGiven("apiHost")'
  BY ConfKept, ValuesGrow
<1>2. ASSUME url' = url, exposed \subseteq exposed' PROVE UrlWasValidated'
  <2>1. \A q \in Request : Sent(q)' => Valid(q)'
    BY <1>1, <1>2, <1>7 DEF Sent
  <2> QED BY <2>1 DEF UrlWasValidated
<1>3. CASE Construct \/ \E w \in writes : Write(w)
  BY <1>2, <1>3 DEF Construct, Write
<1>4. CASE Later
  BY <1>2, <1>4 DEF Later
<1>5. ASSUME NEW r \in Request, Launch(r) PROVE UrlWasValidated'
  BY <1>2, <1>5, Launches
<1>6. ASSUME NEW r \in Request, First(r) PROVE UrlWasValidated'
  <2>1. /\ phase[r] = "authorizing" /\ exposed' = exposed /\ DOMAIN url = Request
        /\ url' = [url EXCEPT ![r] = GetBasePath(conf)]
    BY <1>6, FirstSends DEF RequestInvariant
  <2>2. Waits(r)
    BY <2>1 DEF RequestInvariant
  <2>3. Valid(r)'
    <3>1. url'[r] = GetBasePath(conf)
      BY <2>1
    <3>2. IsWellFormedUriString(url'[r]) \/ r \in exposed'
      BY <2>1, <2>2, <3>1 DEF Waits, PathIsValid
    <3>3. ASSUME url'[r].host = Undefined
          PROVE  /\ Unset \in ValuesGiven("apiHost")'
                 /\ \/ Empty \in ValuesGiven("apiUrl")'
                    \/ Unset \in ValuesGiven("apiUrl")' /\ r \in exposed'
      BY <1>7, <2>1, <2>2, <3>1, <3>3, BasePath DEF Waits
    <3> QED BY <3>2, <3>3
  <2>4. \A q \in Request \ {r} : url'[q] = url[q]
    BY <2>1
  <2>5. \A q \in Request : Sent(q)' => Valid(q)'
    BY <1>1, <1>7, <2>1, <2>3, <2>4 DEF Sent
  <2> QED BY <2>5 DEF UrlWasValidated
<1> QED BY <1>3, <1>4, <1>5, <1>6, Steps

-----------------------------------------------------------------------------
\* The theorems.

\* The invariant of the calls holds in every state of every run
\* (client.ts:507-884, common.ts:280-347).
THEOREM SpecImpliesCallInvariant == Spec => []CallInvariant
<1>1. CallInvariant /\ [Next]_vars => CallInvariant'
  <2> SUFFICES ASSUME CallInvariant, [Next]_vars PROVE CallInvariant'
    OBVIOUS
  <2>1. /\ KP!TokenInvariant /\ ConfInvariant /\ HeadersInvariant /\ CopiesInvariant
        /\ RequestInvariant /\ SentInvariant
    BY DEF CallInvariant
  <2>2. KP!TokenInvariant'
    BY <2>1, CacheInvariant
  <2>3. ConfInvariant' /\ HeadersInvariant' /\ CopiesInvariant' /\ RequestInvariant'
    BY <2>1, ConfStep, HeadersStep, CopiesStep, RequestStep
  <2>4. SentInvariant'
    BY <2>1, SentStep
  <2>5. RefusedOnlyForEndedToken' /\ UrlWasValidated'
    BY RefusedStep, UrlStep
  <2> QED BY <2>2, <2>3, <2>4, <2>5 DEF CallInvariant
<1> QED BY CallInvariantInit, <1>1, PTL DEF Spec

\* Every request goes out with the header the application gave it, or with what the
\* credentials give: a token that was live when the request was handed it
\* (common.ts:40-45, 290).
THEOREM LiveTokens == Spec => []RequestsCarryLiveTokens
<1>1. CallInvariant => RequestsCarryLiveTokens
  BY DEF CallInvariant, SentInvariant, Departed, RequestsCarryLiveTokens
<1> QED BY SpecImpliesCallInvariant, <1>1, PTL

\* A token is refused only if time passed on its way to the client, or since the
\* request was handed it, or if the issuer's answer to this very request held none
\* (common.ts:290-298, credentials.ts:137, 169).
THEOREM RefusalsAreLate == Spec => []RefusedOnlyForEndedToken
<1>1. CallInvariant => RefusedOnlyForEndedToken
  BY DEF CallInvariant
<1> QED BY SpecImpliesCallInvariant, <1>1, PTL

\* A request goes to a base path that was validated, unless the application wrote to it
\* while the request waited; and to the host "undefined" only if an empty apiUrl was ever
\* set, or undefined during that wait (common.ts:281, 292; configuration.ts:171-175, 195-200).
THEOREM SentWhereValidated == Spec => []UrlWasValidated
<1>1. CallInvariant => UrlWasValidated
  BY DEF CallInvariant
<1> QED BY SpecImpliesCallInvariant, <1>1, PTL

\* Whom an id is from: two objects never hold the same one, but for the fixed one.
LEMMA IdsTellObjectsApart ==
  ASSUME ConfInvariant, NEW j \in CallId, NEW k \in CallId,
         NEW id \in IdsOf(ObjectOf(j)), id \in IdsOf(ObjectOf(k)), id # Unset
  PROVE  ObjectOf(j) = ObjectOf(k) \/ (~scenario.randomness /\ id = Fallback)
<1> SUFFICES ASSUME scenario.randomness \/ id # Fallback PROVE ObjectOf(j) = ObjectOf(k)
  OBVIOUS
<1>1. /\ scenario.object[j] \in Object \cup {Unset}
      /\ scenario.object[k] \in Object \cup {Unset}
  BY ScenarioTypes DEF ConfInvariant
<1>2. /\ id = ObjectOf(j) \/ (id \in CallId /\ ObjectOf(id) = ObjectOf(j))
      /\ id = ObjectOf(k) \/ (id \in CallId /\ ObjectOf(id) = ObjectOf(k))
  BY DEF IdsOf
<1>3. ASSUME NEW c \in {j, k}, id = ObjectOf(c), id \in CallId PROVE ObjectOf(id) = ObjectOf(c)
  <2>1. id = c
    BY <1>1, <1>3, ObjectAssumption DEF ObjectOf
  <2> QED BY <2>1
<1> QED BY <1>2, <1>3

\* What the copies say of the calls.
LEMMA CopiesKeepTheIds == CallInvariant => BulkCallsKeepTheirId
<1> SUFFICES ASSUME CallInvariant PROVE BulkCallsKeepTheirId
  OBVIOUS
<1> USE DEF CallInvariant
<1>1. ASSUME NEW r \in Request, Made(r)
      PROVE  /\ CallOf(r) \in begun /\ CallOf(r) \in CallId
             /\ args[r].bulkRequestId # Unset =>
                  args[r].bulkRequestId = headers[ObjectOf(CallOf(r))].bulkRequestId
             /\ args[r].clientMethod # Unset =>
                  args[r].clientMethod = headers[ObjectOf(CallOf(r))].clientMethod
             /\ IdOf(CallOf(r)) # Unset => args[r].bulkRequestId # Unset
             /\ NameOf(Method(CallOf(r))) # Unset => args[r].clientMethod # Unset
             /\ headers[ObjectOf(CallOf(r))].bulkRequestId \in IdsOf(ObjectOf(CallOf(r)))
  <2>1. phase[r] # "idle"
    BY <1>1 DEF RequestInvariant, Made
  <2>2. CallOf(r) \in begun /\ CallOf(r) \in CallId
    BY <2>1 DEF CopiesInvariant, HeadersInvariant
  <2>3. ObjectOf(CallOf(r)) \in CallId \cup Object
    BY <2>2, CallsAndObjects
  <2> QED BY <2>1, <2>2, <2>3 DEF CopiesInvariant, HeadersInvariant
<1>2. ASSUME NEW r \in Request, NEW s \in Request, Made(r), Made(s)
      PROVE  /\ CallOf(r) = CallOf(s) => args[r].bulkRequestId = args[s].bulkRequestId
             /\ CallOf(r) = CallOf(s) /\ NameOf(Method(CallOf(r))) # Unset
                  => args[r].clientMethod = args[s].clientMethod
             /\ args[r].bulkRequestId = args[s].bulkRequestId /\ args[r].bulkRequestId # Unset
                  => \/ ObjectOf(CallOf(r)) = ObjectOf(CallOf(s))
                     \/ ~scenario.randomness /\ args[r].bulkRequestId = Fallback
             /\ Method(CallOf(r)) \in BulkMethod => args[r].bulkRequestId # Unset
  <2>1. ASSUME r # s, CallOf(r) = CallOf(s) PROVE IdOf(CallOf(r)) # Unset
    <3>1. CallOf(r) \in CallId
      BY <1>1, <1>2
    <3>2. Method(CallOf(r)) \in BulkMethod
      BY <2>1, <3>1, ScenariosAssumption, ObjectAssumption DEF ConfInvariant, CallOf, Method
    <3> QED BY <3>1, <3>2, ObjectAssumption DEF IdOf, BulkId
  <2>2. CallOf(r) = CallOf(s) => args[r].bulkRequestId = args[s].bulkRequestId
    <3>1. CASE r = s
      BY <3>1
    <3>2. ASSUME r # s, CallOf(r) = CallOf(s) PROVE args[r].bulkRequestId = args[s].bulkRequestId
      <4>1. args[r].bulkRequestId # Unset /\ args[s].bulkRequestId # Unset
        BY <1>1, <1>2, <2>1, <3>2
      <4> QED BY <1>1, <1>2, <3>2, <4>1
    <3> QED BY <3>1, <3>2
  <2>3. ASSUME CallOf(r) = CallOf(s), NameOf(Method(CallOf(r))) # Unset
        PROVE  args[r].clientMethod = args[s].clientMethod
    <3>1. args[r].clientMethod # Unset /\ args[s].clientMethod # Unset
      BY <1>1, <1>2, <2>3
    <3> QED BY <1>1, <1>2, <2>3, <3>1
  <2>4. ASSUME args[r].bulkRequestId = args[s].bulkRequestId, args[r].bulkRequestId # Unset
        PROVE  \/ ObjectOf(CallOf(r)) = ObjectOf(CallOf(s))
               \/ ~scenario.randomness /\ args[r].bulkRequestId = Fallback
    <3>1. /\ CallOf(r) \in CallId /\ CallOf(s) \in CallId
          /\ args[r].bulkRequestId \in IdsOf(ObjectOf(CallOf(r)))
          /\ args[r].bulkRequestId \in IdsOf(ObjectOf(CallOf(s)))
      BY <1>1, <1>2, <2>4
    <3> QED BY <2>4, <3>1, IdsTellObjectsApart
  <2>5. Method(CallOf(r)) \in BulkMethod => args[r].bulkRequestId # Unset
    BY <1>1, <1>2, ObjectAssumption DEF IdOf, BulkId
  <2> QED BY <2>2, <2>3, <2>4, <2>5
<1> QED BY <1>2 DEF BulkCallsKeepTheirId

\* The requests of a bulk call share one id, which no call with another headers object
\* has as long as there is a source of random numbers, and the requests of a call that
\* names itself one name (client.ts:545-546, 677-679, 735, 862-864,
\* generate-random-id.ts:22-24).
THEOREM OneIdForABulkCall == Spec => []BulkCallsKeepTheirId
<1> QED BY SpecImpliesCallInvariant, CopiesKeepTheIds, PTL
-----------------------------------------------------------------------------
\* The retry loops.  H and HP are the same module: what one does the other does.
\* Two steps of a call are none of the loop's: a configuration that is refused, and
\* an answer that is not delivered because measuring it throws.

LEMMA SameLoopInit == H!Init => HP!Init
<1> QED BY DEF H!Init, HP!Init, H!NoError, HP!NoError, H!IsValid, HP!IsValid, H!MaxRetryOf,
              HP!MaxRetryOf

LEMMA SameLoopSteps ==
  ASSUME NEW r \in Request
  PROVE  /\ H!Call(r, Unset) => HP!Call(r, Unset)
         /\ H!Authorized(r) => HP!Authorized(r)
         /\ \A e \in ErrorObject : H!Unauthorized(r, e) => HP!Unauthorized(r, e)
         /\ H!Succeed(r) => HP!Succeed(r)
         /\ H!Wake(r) => HP!Wake(r)
<1>1. H!Call(r, Unset) => HP!Call(r, Unset)
  BY DEF H!Call, HP!Call, H!IsValid, HP!IsValid, H!MaxRetryOf, HP!MaxRetryOf, H!MinWaitOf,
         HP!MinWaitOf
<1>2. H!Authorized(r) => HP!Authorized(r)
  BY DEF H!Authorized, HP!Authorized
<1>3. \A e \in ErrorObject : H!Unauthorized(r, e) => HP!Unauthorized(r, e)
  BY DEF H!Unauthorized, HP!Unauthorized
<1>4. H!Succeed(r) => HP!Succeed(r)
  BY DEF H!Succeed, HP!Succeed, H!Answered, HP!Answered
<1>5. H!Wake(r) => HP!Wake(r)
  BY DEF H!Wake, HP!Wake, H!LoopsAgain, HP!LoopsAgain
<1> QED BY <1>1, <1>2, <1>3, <1>4, <1>5

LEMMA SameLoopFailures ==
  ASSUME NEW r \in Request, NEW err
  PROVE  /\ H!Throw(r, err) => HP!Throw(r, err)
         /\ H!Sleep(r, err) => HP!Sleep(r, err)
<1> USE DEF H!CheckIfRetryableError, HP!CheckIfRetryableError, H!MayBeRetried, HP!MayBeRetried,
            H!IsNetworkError, HP!IsNetworkError, H!IsRetryableStatus, HP!IsRetryableStatus
<1>1. H!ErrorOf(H!ErrorClassOf(err)) = HP!ErrorOf(HP!ErrorClassOf(err))
  BY DEF H!ErrorOf, HP!ErrorOf, H!ErrorClassOf, HP!ErrorClassOf
<1>2. H!Throw(r, err) => HP!Throw(r, err)
  BY <1>1 DEF H!Throw, HP!Throw
<1>3. /\ H!HasHint(err) = HP!HasHint(err)
      /\ H!Delays(err, iterationCount[r], minWaitInMs[r])
           = HP!Delays(err, iterationCount[r], minWaitInMs[r])
  BY DEF H!HasHint, HP!HasHint, H!IsValidRetryDelay, HP!IsValidRetryDelay, H!Delays, HP!Delays,
         H!Backoff, HP!Backoff, H!Lesser, HP!Lesser
<1>4. H!Sleep(r, err) => HP!Sleep(r, err)
  <2> SUFFICES ASSUME H!Sleep(r, err) PROVE HP!Sleep(r, err)
    OBVIOUS
  <2>1. HP!CheckIfRetryableError(err, iterationCount[r], maxRetry[r])
    <3>1. H!CheckIfRetryableError(err, iterationCount[r], maxRetry[r])
      BY Zenon DEF H!Sleep
    <3> QED BY <3>1
  <2>2. \E d \in HP!Delays(err, iterationCount[r], minWaitInMs[r]) :
          delay' = [delay EXCEPT ![r] = d]
    <3>1. PICK d \in H!Delays(err, iterationCount[r], minWaitInMs[r]) :
            delay' = [delay EXCEPT ![r] = d]
      BY Zenon DEF H!Sleep
    <3> QED BY <1>3, <3>1
  <2>3. hinted' = [hinted EXCEPT ![r] = HP!HasHint(err)]
    BY <1>3, Zenon DEF H!Sleep
  <2> QED BY <2>1, <2>2, <2>3, Zenon DEF H!Sleep, HP!Sleep
<1> QED BY <1>2, <1>4

\* What the configuration keeps for the loop.
LEMMA RetryParamsKept ==
  ASSUME ConfInvariant, RequestInvariant, [Next]_vars
  PROVE  conf'.retryParams = conf.retryParams
<1>1. CASE Construct
  BY <1>1 DEF Construct
<1>2. CASE Later
  BY <1>2 DEF Later, clientVars
<1>3. ASSUME NEW w \in writes, Write(w) PROVE conf'.retryParams = conf.retryParams
  <2>1. w.member \in BasePathMember \cup {"telemetry", "baseOptions"}
        /\ conf' = [conf EXCEPT ![w.member] = w.value]
    BY <1>3, ScenariosAssumption DEF ConfInvariant, Write
  <2> QED BY <2>1 DEF ConfInvariant, ConfigurationOf, BasePathMember
<1>4. ASSUME NEW r \in Request, Launch(r) PROVE UNCHANGED conf
  BY <1>4 DEF Launch
<1>5. ASSUME NEW r \in Request, First(r) PROVE UNCHANGED conf
  BY <1>5, FirstSends
<1> QED BY <1>1, <1>2, <1>3, <1>4, <1>5, Steps

\* The configuration is refused as the request is made.
IsRefused(r) ==
  /\ phase[r] = "idle" /\ RequestError # NoError
  /\ phase' = [phase EXCEPT ![r] = "rejected"]
  /\ error' = [error EXCEPT ![r] = RequestError]
  /\ UNCHANGED <<overridden, maxRetry, minWaitInMs, iterationCount, answer, delay, hinted>>

\* The request was served, and measuring it throws.
IsNotDelivered(r) ==
  /\ phase[r] = "sending" /\ MeasuringThrows
  /\ phase'  = [phase EXCEPT ![r] = "rejected"]
  /\ answer' = [answer EXCEPT ![r] = Answered]
  /\ error'  = [error EXCEPT ![r] = ErrorOf("Error")]
  /\ UNCHANGED <<overridden, maxRetry, minWaitInMs, iterationCount, delay, hinted>>

LEMMA LoopStep ==
  ASSUME ConfInvariant, RequestInvariant, KP!TokenInvariant, [Next]_vars
  PROVE  \/ [HP!Next]_HP!vars
         \/ \E r \in Request : IsRefused(r) \/ IsNotDelivered(r)
<1>0. conf'.retryParams = conf.retryParams
  BY RetryParamsKept
<1>1. ASSUME UNCHANGED loopVars PROVE UNCHANGED HP!vars
  BY <1>0, <1>1 DEF loopVars, HP!vars
<1>2. CASE Construct \/ Tick \/ (\E w \in writes : Write(w)) \/ UNCHANGED vars
  BY <1>1, <1>2 DEF Construct, Tick, Write, vars
<1>3. ASSUME NEW r \in Request, Launch(r) PROVE HP!Next \/ IsRefused(r)
  <2>1. CASE RequestError = NoError
    BY <1>3, <2>1, SameLoopSteps DEF Launch, HP!Next
  <2>2. CASE RequestError # NoError
    BY <1>3, <2>2 DEF Launch, IsRefused
  <2> QED BY <2>1, <2>2
<1>4. ASSUME NEW r \in Request, First(r) PROVE HP!Next
  <2>1. H!Authorized(r)
    BY <1>4 DEF First, WithoutExchange, WithCachedToken, WithNewToken, SendFirst
  <2> QED BY <2>1, SameLoopSteps DEF HP!Next, HP!Authorize
<1>5. ASSUME NEW r \in Request, ExchangeStep(r) PROVE UNCHANGED HP!vars
  BY <1>1, <1>5 DEF ExchangeStep
<1>6. ASSUME NEW r \in Request, TokenFails(r) PROVE HP!Next
  <2>1. failure'[r] \in ErrorObject
    <3>1. DOMAIN failure = Request
      BY DEF KP!TokenInvariant, KP!TypeOK
    <3>2. ErrorOf("Error") \in ErrorObject
      BY DEF ErrorOf, ErrorObject, ErrorClass, Superclass
    <3>3. CASE K!BuildFails(r)
      BY <3>1, <3>2, <3>3 DEF K!BuildFails, K!ErrorOf, ErrorOf
    <3>4. ASSUME NEW err \in IssuerFailures, K!ExchangeFails(r, err)
          PROVE  failure'[r] \in ErrorObject
      <4>1. KP!ExchangeFails(r, err)
        BY <3>4, SameFailures
      <4>2. failure'[r] = KP!RenamedExchangeError(KP!ErrorOf(KP!ErrorClassOf(err)))
        BY <3>1, <4>1 DEF KP!ExchangeFails
      <4>3. KP!ErrorObject = ErrorObject
        BY DEF KP!ErrorObject, ErrorObject, KP!ErrorClass, ErrorClass, KP!Superclass, Superclass
      <4> USE TokenAssumption DEF K!CredentialsAssumption, K!UnsetAssumption, K!Token, KP!Token,
                K!Failure, KP!Failure, K!Answered, KP!Answered
      <4>4. KP!RenamedExchangeError(KP!ErrorOf(KP!ErrorClassOf(err))) \in KP!ErrorObject
        BY KP!ExchangeErrorType
      <4> QED BY <4>2, <4>3, <4>4
    <3> QED BY <1>6, <3>3, <3>4 DEF TokenFails
  <2>2. H!Unauthorized(r, failure'[r])
    BY <1>6 DEF TokenFails
  <2> QED BY <2>1, <2>2, SameLoopSteps DEF HP!Next, HP!Authorize
<1>7. ASSUME NEW r \in Request, Attempt(r) PROVE HP!Next \/ IsNotDelivered(r)
  <2>1. CASE Served(r)
    BY <1>7, <2>1, SameLoopSteps DEF Attempt, Served, IsNotDelivered, HP!Next, HP!Answer
  <2>2. CASE Refused(r)
    BY <2>2, SameLoopFailures DEF Refused, HP!Next, HP!Answer
  <2>3. ASSUME NEW err \in Failures, H!Throw(r, err) \/ H!Sleep(r, err) PROVE HP!Next
    BY <2>3, SameLoopFailures DEF HP!Next, HP!Answer
  <2> QED BY <1>7, <2>1, <2>2, <2>3 DEF Attempt
<1>8. ASSUME NEW r \in Request, Wake(r) PROVE HP!Next
  BY <1>8, SameLoopSteps DEF Wake, HP!Next
<1> QED BY <1>2, <1>3, <1>4, <1>5, <1>6, <1>7, <1>8 DEF Next, Authorize, First

LEMMA LoopHolds ==
  /\ Init => HP!LoopInvariant
  /\ CallInvariant /\ HP!LoopInvariant /\ [Next]_vars => HP!LoopInvariant'
<1> USE LoopAssumption DEF H!ParamsAssumption, H!FailuresAssumption, H!LimitsAssumption,
        H!Failure, HP!Failure, H!Answered, HP!Answered, H!ErrorObject, HP!ErrorObject,
            ErrorObject,
        H!ErrorClass, HP!ErrorClass, ErrorClass, H!Superclass, HP!Superclass, Superclass
<1>1. Init => HP!LoopInvariant
  BY SameLoopInit, HP!LoopInvariantInit DEF Init
<1>2. HP!LoopInvariant /\ [HP!Next]_HP!vars => HP!LoopInvariant'
  BY HP!LoopInvariantStep
<1>3. ASSUME CallInvariant, HP!LoopInvariant, [Next]_vars,
             NEW r \in Request, IsRefused(r) \/ IsNotDelivered(r)
      PROVE  HP!LoopInvariant'
  <2>1. conf'.retryParams = conf.retryParams
    BY <1>3, RetryParamsKept DEF CallInvariant
  <2> USE DEF HP!LoopInvariant, HP!TypeOK, HP!Phase
  <2>2. RequestError \in ErrorObject \cup {NoError} /\ ErrorOf("Error") \in ErrorObject
    BY DEF RequestError, ClientConfigurationError, ConfigurationError, ErrorOf
  <2>3. CASE IsRefused(r)
    BY <1>3, <2>1, <2>2, <2>3 DEF IsRefused, HP!NotYetSent, HP!WhileSending, HP!WhileSleeping,
         HP!OnceResolved, HP!OnceRejected, HP!LimitRead, HP!NoError, NoError
  <2>4. CASE IsNotDelivered(r)
    <3>1. ~HP!MayBeRetried(Answered)
      BY DEF HP!MayBeRetried, HP!IsNetworkError, HP!IsRetryableStatus, Answered
    <3>2. HP!TypeOK'
      BY <1>3, <2>1, <2>2, <2>4 DEF IsNotDelivered, Answered
    <3>3. HP!OnceRejected'
      BY <1>3, <2>4, <3>1 DEF IsNotDelivered, HP!OnceRejected, HP!WhileSending
    <3>4. HP!NotYetSent' /\ HP!WhileSending' /\ HP!WhileSleeping' /\ HP!OnceResolved'
      <4>1. /\ phase'[r] = "rejected" /\ UNCHANGED <<iterationCount, maxRetry>>
            /\ \A q \in Request \ {r} : phase'[q] = phase[q] /\ answer'[q] = answer[q]
        BY <1>3, <2>4 DEF IsNotDelivered
      <4>2. \A q \in Request : phase'[q] # "rejected" =>
              /\ phase'[q] = phase[q] /\ answer'[q] = answer[q]
              /\ iterationCount'[q] = iterationCount[q] /\ maxRetry'[q] = maxRetry[q]
        BY <4>1
      <4>3. HP!NotYetSent /\ HP!WhileSending /\ HP!WhileSleeping /\ HP!OnceResolved
        BY <1>3
      <4> QED BY <4>2, <4>3
              DEF HP!NotYetSent, HP!WhileSending, HP!WhileSleeping, HP!OnceResolved
    <3>5. HP!LimitRead'
      BY <1>3, <2>4 DEF IsNotDelivered, HP!LimitRead
    <3> QED BY <3>2, <3>3, <3>4, <3>5
  <2> QED BY <1>3, <2>3, <2>4
<1>4. CallInvariant /\ HP!LoopInvariant /\ [Next]_vars => HP!LoopInvariant'
  BY <1>2, <1>3, LoopStep DEF CallInvariant
<1> QED BY <1>1, <1>4
-----------------------------------------------------------------------------
\* What is left of the types.
TypesInvariant ==
  /\ client \in {"none", "built", "refused"}
  /\ \A x \in CallId \cup Object :
       headers[x].clientMethod \in
         {ClientMethod[m] : m \in DOMAIN ClientMethod} \cup {Unset}
           \cup (IF x \in Object THEN {scenario.headers[x].clientMethod} ELSE {})
  /\ exposed \subseteq Request
  /\ refusedAt \in [Request -> 0 .. MaxTime \cup {Unset}]

LEMMA TypesInit == Init => TypesInvariant
<1> SUFFICES ASSUME Init PROVE TypesInvariant
  OBVIOUS
<1>1. \A x \in CallId \cup Object :
        headers[x].clientMethod =
          IF x \in Object THEN scenario.headers[x].clientMethod ELSE Unset
  BY DEF Init, NoHeaders
<1>2. /\ client = "none" /\ exposed = {} /\ refusedAt = [r \in Request |-> Unset]
  BY DEF Init
<1> QED BY <1>1, <1>2 DEF TypesInvariant

LEMMA TypesStep ==
  ASSUME CallInvariant, TypesInvariant, [Next]_vars
  PROVE  TypesInvariant'
<1> USE DEF CallInvariant
<1> DEFINE Names(x) ==
      {ClientMethod[m] : m \in DOMAIN ClientMethod} \cup {Unset}
        \cup (IF x \in Object THEN {scenario.headers[x].clientMethod} ELSE {})
<1>0. /\ client \in {"none", "built", "refused"}
      /\ \A x \in CallId \cup Object : headers[x].clientMethod \in Names(x)
      /\ exposed \subseteq Request
      /\ refusedAt \in [Request -> 0 .. MaxTime \cup {Unset}]
  BY DEF TypesInvariant
<1>1. scenario' = scenario
  BY ConfKept
<1>2. client' \in {"none", "built", "refused"}
  <2>1. client' = client \/ Construct
    BY Steps, Launches, FirstSends DEF Later, clientVars, Write
  <2> QED BY <1>0, <2>1 DEF Construct
<1>3. exposed' \subseteq Request
  <2>1. exposed' = exposed \/ \E w \in writes : Write(w)
    BY Steps, Launches, FirstSends DEF Later, Construct
  <2> QED BY <1>0, <2>1 DEF Write
<1>4. refusedAt' \in [Request -> 0 .. MaxTime \cup {Unset}]
  <2>1. refusedAt' = refusedAt \/ \E r \in Request : RefusesToken(r)
    BY Steps, Launches, FirstSends DEF Later, Construct, Write
  <2>2. now \in 0 .. MaxTime
    BY DEF KP!TokenInvariant, KP!TypeOK
  <2> QED BY <1>0, <2>1, <2>2 DEF RefusesToken
<1>5. ASSUME NEW x \in CallId \cup Object PROVE headers'[x].clientMethod \in Names(x)
  <2>1. CASE headers' = headers
    BY <1>0, <2>1
  <2>2. ASSUME NEW r \in Request, CallOf(r) \in CallId, headers' = Stamp(CallOf(r))
        PROVE  headers'[x].clientMethod \in Names(x)
    <3> DEFINE o == ObjectOf(CallOf(r))
               name == NameOf(Method(CallOf(r)))
    <3>1. DOMAIN headers = CallId \cup Object /\ DOMAIN headers[o] = HeaderNames
          /\ o \in CallId \cup Object
      BY <2>2, CallsAndObjects DEF HeadersInvariant
    <3>2. name \in {ClientMethod[m] : m \in DOMAIN ClientMethod} \cup {Unset}
      BY DEF NameOf
    <3>3. x # o => headers'[x] = headers[x]
      BY <2>2, <3>1 DEF Stamp
    <3>4. headers'[o].clientMethod \in {headers[o].clientMethod, name}
      BY <2>2, <3>1 DEF Stamp, SetHeaderIfNotSet, HeaderNames
    <3> HIDE DEF o, name
    <3> QED BY <1>0, <3>2, <3>3, <3>4
  <2>3. headers' = headers
        \/ \E r \in Request : CallOf(r) \in CallId /\ headers' = Stamp(CallOf(r))
    BY Steps, Launches, FirstSends DEF Later, headerVars, Construct, Write
  <2> QED BY <2>1, <2>2, <2>3
<1> QED BY <1>1, <1>2, <1>3, <1>4, <1>5 DEF TypesInvariant

-----------------------------------------------------------------------------
\* Telemetry: what a call and an exchange record.

LEMMA MergedAttributes ==
  ASSUME NEW f, NEW g
  PROVE  /\ DOMAIN (f ++ g) = DOMAIN f \cup DOMAIN g
         /\ \A n \in DOMAIN f : (f ++ g)[n] = f[n]
         /\ \A n \in DOMAIN g : n \notin DOMAIN f => (f ++ g)[n] = g[n]
<1> QED BY DEF ++

LEMMA OneAttribute ==
  ASSUME NEW name, NEW value
  PROVE  /\ DOMAIN Attribute(name, value) = {name}
         /\ DOMAIN IfSet(name, value) \subseteq {name}
         /\ DOMAIN IfPositive(name, value) \subseteq {name}
         /\ \A n \in DOMAIN IfPositive(name, value) : IfPositive(name, value)[n] = value
<1> QED BY DEF Attribute, IfSet, IfPositive, NoAttributes

\* The attribute a retry count is given in.
Count == "http.request.resend_count"

\* Attributes that are valid, with the number of retries n where there is one.
Counts(attributes, n) ==
  /\ DOMAIN attributes \subseteq ValidAttributes
  /\ Count \in DOMAIN attributes => attributes[Count] = n

LEMMA MergedCounts ==
  ASSUME NEW f, NEW g, NEW n, Counts(f, n), Counts(g, n)
  PROVE  Counts(f ++ g, n)
<1> DEFINE h == f ++ g
<1>1. /\ DOMAIN h = DOMAIN f \cup DOMAIN g
      /\ \A x \in DOMAIN f : h[x] = f[x]
      /\ \A x \in DOMAIN g : x \notin DOMAIN f => h[x] = g[x]
  BY MergedAttributes
<1> HIDE DEF h
<1>2. Counts(h, n)
  BY <1>1 DEF Counts
<1> QED BY <1>2 DEF h

LEMMA ValidCounts ==
  ASSUME NEW name \in ValidAttributes \ {Count}, NEW value, NEW n
  PROVE  Counts(Attribute(name, value), n) /\ Counts(IfSet(name, value), n)
         /\ Counts(IfPositive(name, value), n)
<1>1. ASSUME NEW f, DOMAIN f \subseteq {name} PROVE Counts(f, n)
  BY <1>1 DEF Counts
<1>2. /\ DOMAIN Attribute(name, value) \subseteq {name}
      /\ DOMAIN IfSet(name, value) \subseteq {name}
      /\ DOMAIN IfPositive(name, value) \subseteq {name}
  BY OneAttribute
<1> QED BY <1>1, <1>2

LEMMA MethodCounts ==
  ASSUME NEW fgaMethod, NEW storeId, NEW body, NEW n
  PROVE  Counts(MethodAttributes(fgaMethod, storeId, body), n)
<1> USE ValidCounts DEF ValidAttributes, DefaultAttributes, Count
<1>1. Counts(NoAttributes, n)
  BY DEF NoAttributes, Counts
<1>2. Counts(FromRequestBody(body), n)
  <2>1. /\ Counts(IfSet("fga-client.request.model_id", body.authorization_model_id), n)
        /\ Counts(IfSet("fga-client.user", body.user), n)
        /\ Counts(IfPositive("fga-client.request.batch_check_size", body.checks), n)
    OBVIOUS
  <2> QED BY <1>1, <2>1, MergedCounts DEF FromRequestBody
<1>3. Counts(Attribute("fga-client.request.method", fgaMethod), n)
  OBVIOUS
<1>4. \A v : Counts(Attribute("fga-client.request.store_id", v), n)
  OBVIOUS
<1> QED BY <1>1, <1>2, <1>3, <1>4, MergedCounts DEF MethodAttributes

LEMMA RequestCounts ==
  ASSUME NEW userAgent, NEW fgaMethod, NEW httpMethod, NEW to, NEW n, NEW attributes,
         Counts(attributes, n)
  PROVE  Counts(FromRequest(userAgent, fgaMethod, httpMethod, to, n, attributes), n)
<1>1. /\ Counts(IfSet("fga-client.request.method", fgaMethod), n)
      /\ Counts(IfSet("user_agent.original", userAgent), n)
      /\ Counts(IfSet("http.request.method", httpMethod), n)
      /\ Counts(Attribute("http.host", to.host), n)
      /\ Counts(Attribute("url.scheme", to.scheme), n)
      /\ Counts(Attribute("url.full", to), n)
      /\ Counts(Attribute("http.client.request.duration", "measured"), n)
  BY ValidCounts DEF ValidAttributes, DefaultAttributes, Count
<1>2. Counts(IfPositive("http.request.resend_count", n), n)
  <2> DEFINE f == IfPositive(Count, n)
  <2>1. DOMAIN f \subseteq {Count} /\ \A x \in DOMAIN f : f[x] = n
    BY OneAttribute
  <2>2. Count \in ValidAttributes
    BY DEF Count, ValidAttributes, DefaultAttributes
  <2> HIDE DEF f
  <2>3. Counts(f, n)
    BY <2>1, <2>2 DEF Counts
  <2> QED BY <2>3 DEF f, Count
<1> QED BY <1>1, <1>2, MergedCounts DEF FromRequest

LEMMA ResponseCounts ==
  ASSUME NEW status, NEW modelId, NEW queryDuration, NEW n, NEW attributes,
         Counts(attributes, n)
  PROVE  Counts(FromResponse(status, modelId, queryDuration, attributes), n)
<1>1. /\ Counts(Attribute("http.response.status_code", status), n)
      /\ Counts(IfSet("fga-client.response.model_id", modelId), n)
      /\ Counts(IfSet("http.server.request.duration", queryDuration), n)
  BY ValidCounts DEF ValidAttributes, DefaultAttributes, Count
<1> QED BY <1>1, MergedCounts DEF FromResponse

\* What a call hands to its metrics, and an exchange to its own.
LEMMA CallCounts ==
  ASSUME NEW r \in Request
  PROVE  Counts(CallAttributes(r), iterationCount[r] - 1)
<1> QED BY MethodCounts, RequestCounts, ResponseCounts DEF CallAttributes

LEMMA ExchangeCounts ==
  ASSUME NEW r \in Request
  PROVE  Counts(ExchangeAttributes(r), attempts[r] - 1)
<1>1. \A n : Counts(NoAttributes, n)
  BY DEF NoAttributes, Counts
<1> QED BY <1>1, RequestCounts, ResponseCounts DEF ExchangeAttributes
LEMMA TwoInARow ==
  ASSUME NEW a, NEW b, NEW u, u = <<a>> \o <<b>>
  PROVE  DOMAIN u = 1 .. 2 /\ u[1] = a /\ u[2] = b
<1> DEFINE s == <<a>>  t == <<b>>  v == s \o t
<1>1. s \in Seq({a, b}) /\ t \in Seq({a, b}) /\ Len(s) = 1 /\ Len(t) = 1 /\ s[1] = a /\ t[1] = b
  OBVIOUS
<1> HIDE DEF s, t
<1>2. v \in Seq({a, b}) /\ Len(v) = 2 /\ v[1] = s[1] /\ v[2] = t[1]
  BY <1>1, SMTT(30)
<1>3. u = v
  BY DEF s, t
<1> HIDE DEF v
<1> QED BY <1>1, <1>2, <1>3

LEMMA CallRecords ==
  ASSUME NEW metrics, NEW attributes
  PROVE  LET recorded == RecordsOfCall(metrics, attributes)
         IN  /\ \A i \in DOMAIN recorded :
                  \/ /\ metrics.histogramQueryDuration # Unset
                     /\ recorded[i] =
                          Record("fga-client.query.duration",
                                 Prepare(attributes, metrics.histogramQueryDuration.attributes))
                  \/ /\ metrics.histogramRequestDuration # Unset
                     /\ recorded[i] =
                          Record("fga-client.request.duration",
                                 Prepare(attributes, metrics.histogramRequestDuration.attributes))
             /\ metrics.histogramRequestDuration # Unset =>
                  Cardinality({i \in DOMAIN recorded :
                                 recorded[i].instrument = "fga-client.request.duration"}) = 1
<1> DEFINE recorded == RecordsOfCall(metrics, attributes)
           query == Record("fga-client.query.duration",
                           Prepare(attributes, metrics.histogramQueryDuration.attributes))
           request == Record("fga-client.request.duration",
                             Prepare(attributes, metrics.histogramRequestDuration.attributes))
           measuresQuery == ~(metrics.histogramQueryDuration = Unset
                              \/ "http.server.request.duration" \notin DOMAIN attributes)
           measuresRequest == metrics.histogramRequestDuration # Unset
<1>1. recorded = (IF measuresQuery THEN <<query>> ELSE <<>>)
                 \o (IF measuresRequest THEN <<request>> ELSE <<>>)
  BY DEF RecordsOfCall
<1>2. /\ query.instrument # "fga-client.request.duration"
      /\ request.instrument = "fga-client.request.duration"
  BY DEF Record
<1>3. measuresQuery => metrics.histogramQueryDuration # Unset
  OBVIOUS
<1> HIDE DEF recorded, query, request, measuresQuery
<1>4. \A i \in DOMAIN recorded :
        (measuresQuery /\ recorded[i] = query) \/ (measuresRequest /\ recorded[i] = request)
  <2>1. CASE measuresQuery /\ measuresRequest
    <3>1. recorded = <<query>> \o <<request>>
      BY <1>1, <2>1
    <3>2. DOMAIN recorded = 1 .. 2 /\ recorded[1] = query /\ recorded[2] = request
      BY <3>1, TwoInARow
    <3> QED BY <2>1, <3>2
  <2>2. CASE measuresQuery /\ ~measuresRequest
    <3>1. recorded = <<query>>
      BY <1>1, <2>2
    <3> QED BY <2>2, <3>1
  <2>3. CASE ~measuresQuery /\ measuresRequest
    <3>1. recorded = <<request>>
      BY <1>1, <2>3
    <3> QED BY <2>3, <3>1
  <2>4. CASE ~measuresQuery /\ ~measuresRequest
    <3>1. recorded = <<>>
      BY <1>1, <2>4
    <3> QED BY <3>1
  <2> QED BY <2>1, <2>2, <2>3, <2>4
<1>5. ASSUME measuresRequest
      PROVE  Cardinality({i \in DOMAIN recorded :
                            recorded[i].instrument = "fga-client.request.duration"}) = 1
  <2>1. CASE measuresQuery
    <3>1. recorded = <<query>> \o <<request>>
      BY <1>1, <1>5, <2>1
    <3>2. DOMAIN recorded = 1 .. 2 /\ recorded[1] = query /\ recorded[2] = request
      BY <3>1, TwoInARow
    <3>3. {i \in DOMAIN recorded : recorded[i].instrument = "fga-client.request.duration"} = {2}
      BY <1>2, <3>2
    <3> QED BY <3>3, FS_Singleton
  <2>2. CASE ~measuresQuery
    <3>1. recorded = <<request>>
      BY <1>1, <1>5, <2>2
    <3>2. {i \in DOMAIN recorded : recorded[i].instrument = "fga-client.request.duration"} = {1}
      BY <1>2, <3>1
    <3> QED BY <3>2, FS_Singleton
  <2> QED BY <2>1, <2>2
<1> QED BY <1>3, <1>4, <1>5 DEF recorded, query, request

\* What a record may say: nothing but what was asked for, and the retries there were.
Permitted(x, telemetries) ==
  \A name \in DOMAIN x.attributes :
    /\ name \in ValidAttributes
    /\ \E t \in telemetries :
         /\ t[MetricOf(x.instrument)] # Unset /\ t[MetricOf(x.instrument)].attributes # Unset
         /\ name \in t[MetricOf(x.instrument)].attributes
CountsRetries(x, n) == Count \in DOMAIN x.attributes => x.attributes[Count] = n

LEMMA WhatIsAllowed ==
  ASSUME NEW metric, NEW name
  PROVE  name \in Allowed(metric) <=>
           /\ name \in ValidAttributes
           /\ \E t \in Telemetries :
                /\ t[metric] # Unset /\ t[metric].attributes # Unset
                /\ name \in t[metric].attributes
<1> DEFINE asking == {t \in Telemetries : t[metric] # Unset /\ t[metric].attributes # Unset}
           filters == {t[metric].attributes : t \in asking}
<1>1. name \in UNION filters <=> \E S \in filters : name \in S
  OBVIOUS
<1>2. (\E S \in filters : name \in S) <=> \E t \in asking : name \in t[metric].attributes
  OBVIOUS
<1>3. name \in Allowed(metric) <=> name \in ValidAttributes /\ name \in UNION filters
  BY DEF Allowed
<1> HIDE DEF filters
<1> QED BY <1>1, <1>2, <1>3

LEMMA PreparedIsPermitted ==
  ASSUME conf.telemetry \in Telemetries, NEW instrument, NEW attributes, NEW n,
         Counts(attributes, n), conf.telemetry[MetricOf(instrument)] # Unset
  PROVE  LET x == Record(instrument,
                         Prepare(attributes, conf.telemetry[MetricOf(instrument)].attributes))
         IN  Permitted(x, Telemetries) /\ CountsRetries(x, n)
<1> DEFINE metric == MetricOf(instrument)
           filter == conf.telemetry[metric].attributes
           p == Prepare(attributes, filter)
<1>1. /\ \A name \in DOMAIN p : filter # Unset /\ name \in filter /\ name \in DOMAIN attributes
      /\ \A name \in DOMAIN p : p[name] = attributes[name]
  BY DEF Prepare
<1> HIDE DEF p
<1> HIDE DEF metric
<1>2. ASSUME NEW name \in DOMAIN p
      PROVE  /\ name \in ValidAttributes
             /\ \E t \in Telemetries :
                  /\ t[metric] # Unset /\ t[metric].attributes # Unset
                  /\ name \in t[metric].attributes
  <2>1. name \in ValidAttributes
    BY <1>1 DEF Counts
  <2>2. filter # Unset /\ name \in filter
    BY <1>1
  <2>3. conf.telemetry[metric] # Unset
    BY DEF metric
  <2> QED BY <2>1, <2>2, <2>3
<1>3. Count \in DOMAIN p => p[Count] = n
  BY <1>1 DEF Counts
<1>4. Permitted(Record(instrument, p), Telemetries)
  BY <1>2 DEF Permitted, Record, metric
<1>5. CountsRetries(Record(instrument, p), n)
  BY <1>3 DEF CountsRetries, Record
<1> QED BY <1>4, <1>5 DEF p, metric

\* What the application has asked for so far, it has asked for.
LEMMA TelemetriesGrow ==
  ASSUME UNCHANGED scenario, writes' \subseteq writes
  PROVE  /\ Telemetries \subseteq Telemetries'
         /\ \A x : Permitted(x, Telemetries) => Permitted(x, Telemetries')
<1>1. Telemetries \subseteq Telemetries'
  <2> SUFFICES ASSUME NEW t \in Telemetries PROVE t \in Telemetries'
    OBVIOUS
  <2>1. CASE t = TelemetryOf(scenario.params.telemetry)
    BY <2>1 DEF Telemetries
  <2>2. ASSUME NEW w \in scenario.writes \ writes, w.member = "telemetry", t = w.value
        PROVE  t \in Telemetries'
    BY <2>2 DEF Telemetries
  <2> QED BY <2>1, <2>2 DEF Telemetries
<1>2. ASSUME NEW x, Permitted(x, Telemetries) PROVE Permitted(x, Telemetries')
  BY <1>1, <1>2 DEF Permitted
<1> QED BY <1>1, <1>2

Measured(r) ==
  /\ records[r] # <<>> => phase[r] = "resolved"
  /\ phase[r] = "resolved" /\ (\A t \in Telemetries : t.histogramRequestDuration # Unset)
       => Cardinality({i \in DOMAIN records[r] :
                         records[r][i].instrument = "fga-client.request.duration"}) = 1
  /\ exchanges[r] # <<>> => \E i \in DOMAIN receipts : receipts[i].token.by = r
  /\ \A i \in DOMAIN records[r] :
       Permitted(records[r][i], Telemetries) /\ CountsRetries(records[r][i],
           iterationCount[r] - 1)
  /\ \A i \in DOMAIN exchanges[r] : Permitted(exchanges[r][i], Telemetries)

WroteBaseOptions == \E w \in scenario.writes \ writes : w.member = "baseOptions"

MeasuredInvariant ==
  /\ DOMAIN records = Request /\ DOMAIN exchanges = Request
  /\ conf.telemetry \in Telemetries
  /\ WroteBaseOptions \/ conf.baseOptions = BaseOptionsOf(scenario.params.baseOptions)
  /\ \A r \in Request : Measured(r)
  /\ AnsweredMeansFulfilled

LEMMA MeasuredInit == Init => MeasuredInvariant
<1> SUFFICES ASSUME Init PROVE MeasuredInvariant
  OBVIOUS
<1>1. /\ records = [r \in Request |-> <<>>] /\ exchanges = [r \in Request |-> <<>>]
      /\ conf = ConfigurationOf(scenario.params) /\ phase = [r \in Request |-> "idle"]
  BY DEF Init, H!Init
<1>2. /\ conf.telemetry \in Telemetries
      /\ conf.baseOptions = BaseOptionsOf(scenario.params.baseOptions)
  BY <1>1 DEF ConfigurationOf, Telemetries
<1>3. \A r \in Request : Measured(r)
  BY <1>1 DEF Measured
<1>4. AnsweredMeansFulfilled
  BY <1>1 DEF AnsweredMeansFulfilled
<1> QED BY <1>1, <1>2, <1>3, <1>4 DEF MeasuredInvariant

\* The configuration: what has been written to it is no longer to be written.
LEMMA WrittenIsKnown ==
  ASSUME CallInvariant, MeasuredInvariant, [Next]_vars
  PROVE  /\ UNCHANGED scenario /\ writes' \subseteq writes
         /\ conf'.telemetry \in Telemetries'
         /\ WroteBaseOptions => WroteBaseOptions'
         /\ WroteBaseOptions' \/ conf'.baseOptions = BaseOptionsOf(scenario'.params.baseOptions)
<1> USE DEF CallInvariant
<1>1. scenario' = scenario
  BY ConfKept
<1>2. writes' \subseteq writes
  BY Steps, Launches, FirstSends DEF Later, clientVars, Construct, Write
<1>3. WroteBaseOptions => WroteBaseOptions'
  BY <1>1, <1>2 DEF WroteBaseOptions
<1>4. ASSUME conf' = conf
      PROVE  /\ conf'.telemetry \in Telemetries'
             /\ WroteBaseOptions' \/ conf'.baseOptions = BaseOptionsOf(scenario'.params.baseOptions)
  <2>1. conf.telemetry \in Telemetries
        /\ (WroteBaseOptions \/ conf.baseOptions = BaseOptionsOf(scenario.params.baseOptions))
    BY DEF MeasuredInvariant
  <2> QED BY <1>1, <1>2, <1>3, <1>4, <2>1, TelemetriesGrow
<1>5. ASSUME NEW w \in writes, Write(w)
      PROVE  /\ conf'.telemetry \in Telemetries'
             /\ WroteBaseOptions' \/ conf'.baseOptions = BaseOptionsOf(scenario'.params.baseOptions)
  <2>1. /\ w \in scenario.writes /\ writes' = writes \ {w}
        /\ w.member \in BasePathMember \cup {"telemetry", "baseOptions"}
        /\ conf' = [conf EXCEPT ![w.member] = w.value]
        /\ "telemetry" \in DOMAIN conf /\ "baseOptions" \in DOMAIN conf
    BY <1>5, ScenariosAssumption DEF ConfInvariant, Write, ConfigurationOf
  <2>2. conf'.telemetry \in Telemetries'
    <3>1. CASE w.member = "telemetry"
      <4>1. conf'.telemetry = w.value
        BY <2>1, <3>1
      <4>2. w \in scenario'.writes \ writes'
        BY <1>1, <2>1
      <4> QED BY <3>1, <4>1, <4>2 DEF Telemetries
    <3>2. CASE w.member # "telemetry"
      <4>1. conf'.telemetry = conf.telemetry
        BY <2>1, <3>2
      <4> QED BY <1>1, <1>2, <4>1, TelemetriesGrow DEF MeasuredInvariant
    <3> QED BY <3>1, <3>2
  <2>3. WroteBaseOptions' \/ conf'.baseOptions = BaseOptionsOf(scenario'.params.baseOptions)
    <3>1. CASE w.member = "baseOptions"
      BY <1>1, <2>1, <3>1 DEF WroteBaseOptions
    <3>2. CASE w.member # "baseOptions"
      <4>1. conf'.baseOptions = conf.baseOptions
        BY <2>1, <3>2
      <4> QED BY <1>1, <1>3, <4>1 DEF MeasuredInvariant
    <3> QED BY <3>1, <3>2
  <2> QED BY <2>2, <2>3
<1>6. conf' = conf \/ \E w \in writes : Write(w)
  BY Steps, Launches, FirstSends DEF Later, clientVars, Construct
<1> QED BY <1>1, <1>2, <1>3, <1>4, <1>5, <1>6

\* Measuring throws only where the base options have been replaced.
LEMMA ThrowsIfWritten ==
  ASSUME ConfInvariant, MeasuredInvariant, MeasuringThrows
  PROVE  WroteBaseOptions
<1>1. DefaultHeaders(scenario.params.baseOptions) # Unset
  BY BaseOptionsAssumption DEF ConfInvariant
<1> QED BY <1>1 DEF MeasuredInvariant, MeasuringThrows, BaseOptionsOf

\* The request is served, measured and fulfilled.
IsDelivered(r) ==
  /\ phase' = [phase EXCEPT ![r] = "resolved"]
  /\ records' = [records EXCEPT ![r] = RecordsOfCall(conf.telemetry, CallAttributes(r))]
  /\ UNCHANGED <<exchanges, receipts, iterationCount>>

\* An exchange of credentials is over, and counted.
IsExchanged(r) ==
  /\ exchanges' = [exchanges EXCEPT ![r] =
                     RecordsOfExchange(conf.telemetry, ExchangeAttributes(r))]
  /\ \E i \in DOMAIN receipts' : receipts'[i].token.by = r

\* Anything else measures nothing, and touches no request that is fulfilled.
MeasuresNothing ==
  /\ records' = records
  /\ exchanges' = exchanges \/ \E r \in Request : IsExchanged(r)
  /\ \A i \in DOMAIN receipts : i \in DOMAIN receipts' /\ receipts'[i] = receipts[i]
  /\ \A q \in Request :
       /\ phase'[q] = "resolved" <=> phase[q] = "resolved"
       /\ phase[q] = "resolved" => iterationCount'[q] = iterationCount[q]

LEMMA NewReceipt ==
  ASSUME KP!TokenInvariant, NEW r \in Request, K!Receive(r)
  PROVE  \E i \in DOMAIN receipts' : receipts'[i].token.by = r
<1>1. /\ receipts \in Seq(KP!Receipts) /\ receipts' = Append(receipts, K!Receipt(r))
      /\ wire[r] # Unset
  BY ClockAndReceipts DEF K!Receive
<1>2. K!Receipt(r).token = wire[r] /\ wire[r].by = r
  BY <1>1 DEF K!Receipt, KP!TokenInvariant, KP!WireIsOwn
<1>3. Len(receipts) + 1 \in DOMAIN receipts' /\ receipts'[Len(receipts) + 1] = K!Receipt(r)
  BY <1>1
<1> QED BY <1>2, <1>3

LEMMA MeasureSteps ==
  ASSUME CallInvariant, HP!LoopInvariant, [Next]_vars
  PROVE  \/ MeasuresNothing
         \/ \E r \in Request : IsDelivered(r)
<1> USE DEF CallInvariant
<1>0. DOMAIN phase = Request /\ DOMAIN iterationCount = Request
  BY DEF HP!LoopInvariant, HP!TypeOK
<1>1. ASSUME UNCHANGED <<records, exchanges, receipts, phase, iterationCount>>
      PROVE  MeasuresNothing
  BY <1>1 DEF MeasuresNothing
<1>2. CASE Construct \/ (\E w \in writes : Write(w)) \/ UNCHANGED vars
  BY <1>1, <1>2 DEF Construct, Write, vars, tokenVars, loopVars
<1>3. CASE Tick
  BY <1>1, <1>3 DEF Tick, K!Tick, loopVars
<1>4. ASSUME NEW r \in Request, Launch(r) PROVE MeasuresNothing
  <2>1. UNCHANGED <<records, exchanges, receipts>>
    BY <1>4 DEF Launch, tokenVars
  <2>2. iterationCount' = iterationCount
    BY <1>4 DEF Launch, H!Call
  <2>3. /\ phase[r] = "idle" /\ phase'[r] \in {"authorizing", "rejected"}
        /\ \A q \in Request \ {r} : phase'[q] = phase[q]
    BY <1>4, Launches
  <2> QED BY <2>1, <2>2, <2>3 DEF MeasuresNothing
<1>5. ASSUME NEW r \in Request, First(r) PROVE MeasuresNothing
  <2>1. records' = records
    BY <1>5 DEF First, WithoutExchange, WithCachedToken, WithNewToken, SendFirst
  <2>2. H!Authorized(r)
    BY <1>5 DEF First, WithoutExchange, WithCachedToken, WithNewToken, SendFirst
  <2>3. /\ phase[r] = "authorizing" /\ phase'[r] = "sending"
        /\ \A q \in Request \ {r} : phase'[q] = phase[q] /\ iterationCount'[q] = iterationCount[q]
    BY <1>0, <2>2 DEF H!Authorized
  <2>4. exchanges' = exchanges \/ IsExchanged(r)
    BY <1>5, NewReceipt
    DEF First, WithoutExchange, WithCachedToken, WithNewToken, IsExchanged
  <2>5. \A i \in DOMAIN receipts : i \in DOMAIN receipts' /\ receipts'[i] = receipts[i]
    BY <1>5, FirstHandsOut
  <2> QED BY <2>1, <2>3, <2>4, <2>5 DEF MeasuresNothing
<1>6. ASSUME NEW r \in Request, ExchangeStep(r) PROVE MeasuresNothing
  <2>1. receipts' = receipts
    BY <1>6 DEF ExchangeStep, K!StartRefresh, K!SendExchange, K!Issue, K!Retry
  <2> QED BY <1>1, <1>6, <2>1 DEF ExchangeStep, loopVars
<1>7. ASSUME NEW r \in Request, TokenFails(r) PROVE MeasuresNothing
  <2>1. UNCHANGED <<records, exchanges, receipts, iterationCount>>
    BY <1>7 DEF TokenFails, K!BuildFails, K!ExchangeFails, H!Unauthorized
  <2>2. phase[r] = "authorizing" /\ phase' = [phase EXCEPT ![r] = "rejected"]
    BY <1>7 DEF TokenFails, H!Unauthorized
  <2> QED BY <1>0, <2>1, <2>2 DEF MeasuresNothing
<1>8. ASSUME NEW r \in Request, Attempt(r) PROVE MeasuresNothing \/ IsDelivered(r)
  <2>1. phase[r] = "sending" /\ UNCHANGED <<exchanges, receipts>>
    BY <1>8 DEF Attempt, tokenVars
  <2>2. iterationCount' = iterationCount
    BY <1>8 DEF Attempt, Served, Refused, H!Succeed, H!Throw, H!Sleep
  <2>3. ASSUME records' = records,
               \E p \in {"rejected", "sleeping"} : phase' = [phase EXCEPT ![r] = p]
        PROVE  MeasuresNothing
    BY <1>0, <2>1, <2>2, <2>3 DEF MeasuresNothing
  <2>4. CASE Served(r)
    BY <2>1, <2>2, <2>3, <2>4 DEF Served, H!Succeed, IsDelivered
  <2>5. CASE Refused(r)
    BY <2>3, <2>5 DEF Refused, H!Throw
  <2>6. ASSUME NEW err \in Failures, H!Throw(r, err) \/ H!Sleep(r, err), records' = records
        PROVE  MeasuresNothing
    BY <2>3, <2>6 DEF H!Throw, H!Sleep
  <2> QED BY <1>8, <2>4, <2>5, <2>6 DEF Attempt
<1>9. ASSUME NEW r \in Request, Wake(r) PROVE MeasuresNothing
  <2>1. UNCHANGED <<records, exchanges, receipts>>
    BY <1>9 DEF Wake, tokenVars
  <2>2. phase[r] = "sleeping" /\ iterationCount[r] \in 1 .. maxRetry[r] /\ maxRetry[r] \in Nat
    BY <1>9 DEF Wake, H!Wake, HP!LoopInvariant, HP!WhileSleeping, HP!TypeOK
  <2>3. H!LoopsAgain(iterationCount[r], maxRetry[r])
    BY <2>2 DEF H!LoopsAgain
  <2>4. /\ phase' = [phase EXCEPT ![r] = "sending"]
        /\ iterationCount' = [iterationCount EXCEPT ![r] = @ + 1]
    BY <1>9, <2>3 DEF Wake, H!Wake
  <2> QED BY <1>0, <2>1, <2>2, <2>4 DEF MeasuresNothing
<1> QED BY <1>2, <1>3, <1>4, <1>5, <1>6, <1>7, <1>8, <1>9 DEF Next, Authorize, First

\* An answer that comes too late for its own promise: measuring it threw.
LEMMA AnsweredStep ==
  ASSUME CallInvariant, HP!LoopInvariant, MeasuredInvariant, [Next]_vars
  PROVE  AnsweredMeansFulfilled'
<1> USE DEF CallInvariant
<1>0. /\ \A r \in Request : answer[r] = Answered /\ phase[r] = "rejected" => WroteBaseOptions
      /\ DOMAIN phase = Request /\ DOMAIN answer = Request
  BY DEF MeasuredInvariant, AnsweredMeansFulfilled, WroteBaseOptions, HP!LoopInvariant, HP!TypeOK
<1>1. WroteBaseOptions => WroteBaseOptions'
  BY WrittenIsKnown
<1>2. ASSUME \A q \in Request : answer'[q] = Answered /\ phase'[q] = "rejected" =>
               (answer[q] = Answered /\ phase[q] = "rejected") \/ WroteBaseOptions
      PROVE  AnsweredMeansFulfilled'
  <2>1. \A q \in Request : answer'[q] = Answered /\ phase'[q] = "rejected" => WroteBaseOptions'
    BY <1>0, <1>1, <1>2
  <2> QED BY <2>1 DEF AnsweredMeansFulfilled, WroteBaseOptions
<1>3. CASE UNCHANGED <<answer, phase>>
  BY <1>2, <1>3
<1>4. ASSUME NEW r \in Request, IsNotDelivered(r) PROVE AnsweredMeansFulfilled'
  <2>1. WroteBaseOptions
    BY <1>4, ThrowsIfWritten DEF IsNotDelivered
  <2> QED BY <1>2, <2>1
<1>5. ASSUME NEW r \in Request, NEW p \in {"authorizing", "sending", "rejected"},
             phase[r] \in {"idle", "authorizing"}, phase' = [phase EXCEPT ![r] = p],
             answer' = answer
      PROVE  AnsweredMeansFulfilled'
  <2>1. answer[r] # Answered
    BY <1>5, LoopAssumption DEF HP!LoopInvariant, HP!NotYetSent
  <2> QED BY <1>0, <1>2, <1>5, <2>1
<1>6. ASSUME NEW r \in Request, NEW p, NEW a,
             phase' = [phase EXCEPT ![r] = p], answer' = [answer EXCEPT ![r] = a],
             p = "resolved" \/ a # Answered
      PROVE  AnsweredMeansFulfilled'
  BY <1>0, <1>2, <1>6
<1>7. ASSUME NEW r \in Request, NEW p \in {"sending", "resolved"},
             phase' = [phase EXCEPT ![r] = p], answer' = answer
      PROVE  AnsweredMeansFulfilled'
  BY <1>0, <1>2, <1>7
<1>8. CASE Construct \/ Tick \/ (\E w \in writes : Write(w)) \/ UNCHANGED vars
  BY <1>3, <1>8 DEF Construct, Tick, Write, vars, loopVars
<1>9. ASSUME NEW r \in Request, Launch(r) PROVE AnsweredMeansFulfilled'
  BY <1>5, <1>9 DEF Launch, H!Call
<1>10. ASSUME NEW r \in Request, First(r) PROVE AnsweredMeansFulfilled'
  <2>1. H!Authorized(r)
    BY <1>10 DEF First, WithoutExchange, WithCachedToken, WithNewToken, SendFirst
  <2>2. /\ phase[r] \in {"idle", "authorizing"} /\ answer' = answer
        /\ phase' = [phase EXCEPT ![r] = "sending"]
    BY <2>1 DEF H!Authorized
  <2> QED BY <1>5, <2>2
<1>11. ASSUME NEW r \in Request, ExchangeStep(r) PROVE AnsweredMeansFulfilled'
  BY <1>3, <1>11 DEF ExchangeStep, loopVars
<1>12. ASSUME NEW r \in Request, TokenFails(r) PROVE AnsweredMeansFulfilled'
  <2>1. /\ phase[r] \in {"idle", "authorizing"} /\ answer' = answer
        /\ phase' = [phase EXCEPT ![r] = "rejected"]
    BY <1>12 DEF TokenFails, H!Unauthorized
  <2> QED BY <1>5, <2>1
<1>13. ASSUME NEW r \in Request, Attempt(r) PROVE AnsweredMeansFulfilled'
  <2>1. CASE Served(r) /\ MeasuringThrows
    BY <1>4, <1>13, <2>1 DEF Attempt, Served, IsNotDelivered
  <2>2. CASE Served(r) /\ ~MeasuringThrows
    <3>1. H!Succeed(r)
      BY <2>2 DEF Served
    <3> QED BY <1>6, <3>1 DEF H!Succeed
  <2>3. ASSUME NEW err, err # Answered, H!Throw(r, err) \/ H!Sleep(r, err)
        PROVE  AnsweredMeansFulfilled'
    BY <1>6, <2>3 DEF H!Throw, H!Sleep
  <2>4. CASE Refused(r)
    BY <2>3, <2>4 DEF Refused, Unauthorized401, Answered
  <2>5. \A err \in Failures : err # Answered
    BY LoopAssumption DEF H!FailuresAssumption, H!Answered, Answered
  <2> QED BY <1>13, <2>1, <2>2, <2>3, <2>4, <2>5 DEF Attempt
<1>14. ASSUME NEW r \in Request, Wake(r) PROVE AnsweredMeansFulfilled'
  <2>1. answer' = answer /\ \E p \in {"sending", "resolved"} : phase' = [phase EXCEPT ![r] = p]
    BY <1>14 DEF Wake, H!Wake
  <2> QED BY <1>7, <2>1
<1> QED BY <1>8, <1>9, <1>10, <1>11, <1>12, <1>13, <1>14 DEF Next, Authorize, First

\* What a served call records, and what an exchange does.
LEMMA DeliveredIsMeasured ==
  ASSUME conf.telemetry \in Telemetries, NEW r \in Request
  PROVE  LET recorded == RecordsOfCall(conf.telemetry, CallAttributes(r))
         IN  /\ \A i \in DOMAIN recorded :
                  Permitted(recorded[i], Telemetries)
                      /\ CountsRetries(recorded[i], iterationCount[r] - 1)
             /\ conf.telemetry.histogramRequestDuration # Unset =>
                  Cardinality({i \in DOMAIN recorded :
                                 recorded[i].instrument = "fga-client.request.duration"}) = 1
<1> DEFINE attributes == CallAttributes(r)
           metrics == conf.telemetry
           recorded == RecordsOfCall(metrics, attributes)
           n == iterationCount[r] - 1
<1>1. Counts(attributes, n)
  BY CallCounts
<1>2. /\ MetricOf("fga-client.query.duration") = "histogramQueryDuration"
      /\ MetricOf("fga-client.request.duration") = "histogramRequestDuration"
  BY DEF MetricOf
<1> HIDE DEF attributes, n
<1>3. ASSUME metrics.histogramQueryDuration # Unset
      PROVE  LET x == Record("fga-client.query.duration",
                             Prepare(attributes, metrics.histogramQueryDuration.attributes))
             IN  Permitted(x, Telemetries) /\ CountsRetries(x, n)
  BY <1>1, <1>2, <1>3, PreparedIsPermitted
<1>4. ASSUME metrics.histogramRequestDuration # Unset
      PROVE  LET x == Record("fga-client.request.duration",
                             Prepare(attributes, metrics.histogramRequestDuration.attributes))
             IN  Permitted(x, Telemetries) /\ CountsRetries(x, n)
  BY <1>1, <1>2, <1>4, PreparedIsPermitted
<1>5. \A i \in DOMAIN recorded : Permitted(recorded[i], Telemetries)
          /\ CountsRetries(recorded[i], n)
  BY <1>3, <1>4, CallRecords
<1>6. metrics.histogramRequestDuration # Unset =>
        Cardinality({i \in DOMAIN recorded :
                       recorded[i].instrument = "fga-client.request.duration"}) = 1
  BY CallRecords
<1> QED BY <1>5, <1>6 DEF attributes, n

LEMMA ExchangedIsPermitted ==
  ASSUME conf.telemetry \in Telemetries, NEW r \in Request
  PROVE  LET recorded == RecordsOfExchange(conf.telemetry, ExchangeAttributes(r))
         IN  \A i \in DOMAIN recorded : Permitted(recorded[i], Telemetries)
<1> DEFINE attributes == ExchangeAttributes(r)
           metrics == conf.telemetry
           x == Record("fga-client.credentials.request",
                       Prepare(attributes, metrics.counterCredentialsRequest.attributes))
<1>1. Counts(attributes, attempts[r] - 1)
  BY ExchangeCounts
<1>2. MetricOf("fga-client.credentials.request") = "counterCredentialsRequest"
  BY DEF MetricOf
<1> HIDE DEF attributes
<1>3. metrics.counterCredentialsRequest # Unset => Permitted(x, Telemetries)
  BY <1>1, <1>2, PreparedIsPermitted
<1> HIDE DEF x
<1>4. RecordsOfExchange(metrics, attributes)
        \in (IF metrics.counterCredentialsRequest # Unset THEN {<<>>, <<x>>} ELSE {<<>>})
  BY DEF RecordsOfExchange, x
<1> QED BY <1>3, <1>4 DEF attributes

LEMMA MeasuredStep ==
  ASSUME CallInvariant, HP!LoopInvariant, MeasuredInvariant, [Next]_vars
  PROVE  MeasuredInvariant'
<1> USE DEF CallInvariant
<1>0. /\ DOMAIN records = Request /\ DOMAIN exchanges = Request
      /\ conf.telemetry \in Telemetries
      /\ \A r \in Request : Measured(r)
      /\ DOMAIN phase = Request
  BY DEF MeasuredInvariant, HP!LoopInvariant, HP!TypeOK
<1>1. /\ UNCHANGED scenario /\ writes' \subseteq writes
      /\ Telemetries \subseteq Telemetries'
      /\ \A x : Permitted(x, Telemetries) => Permitted(x, Telemetries')
  BY WrittenIsKnown, TelemetriesGrow
\* What was recorded stays as it is.
<1>2. ASSUME NEW q \in Request, records'[q] = records[q], exchanges'[q] = exchanges[q],
             \A i \in DOMAIN receipts : i \in DOMAIN receipts' /\ receipts'[i] = receipts[i],
             phase'[q] = "resolved" <=> phase[q] = "resolved",
             phase[q] = "resolved" => iterationCount'[q] = iterationCount[q]
      PROVE  Measured(q)'
  <2>1. Measured(q)
    BY <1>0
  <2>2. records'[q] # <<>> => phase'[q] = "resolved"
    BY <1>2, <2>1 DEF Measured
  <2>3. phase'[q] = "resolved" /\ (\A t \in Telemetries' : t.histogramRequestDuration # Unset)
          => Cardinality({i \in DOMAIN records'[q] :
                            records'[q][i].instrument = "fga-client.request.duration"}) = 1
    BY <1>1, <1>2, <2>1 DEF Measured
  <2>4. exchanges'[q] # <<>> => \E i \in DOMAIN receipts' : receipts'[i].token.by = q
    BY <1>2, <2>1 DEF Measured
  <2>5. ASSUME NEW i \in DOMAIN records'[q]
        PROVE  Permitted(records'[q][i], Telemetries')
                   /\ CountsRetries(records'[q][i], iterationCount'[q] - 1)
    <3>1. phase[q] = "resolved"
      BY <1>2, <2>1, <2>5 DEF Measured
    <3> QED BY <1>1, <1>2, <2>1, <2>5, <3>1 DEF Measured
  <2>6. \A i \in DOMAIN exchanges'[q] : Permitted(exchanges'[q][i], Telemetries')
    BY <1>1, <1>2, <2>1 DEF Measured
  <2> QED BY <2>2, <2>3, <2>4, <2>5, <2>6 DEF Measured
<1>3. /\ DOMAIN records' = Request /\ DOMAIN exchanges' = Request
      /\ \A q \in Request : Measured(q)'
  <2>1. CASE MeasuresNothing
    <3>1. CASE exchanges' = exchanges
      BY <1>0, <1>2, <2>1, <3>1 DEF MeasuresNothing
    <3>2. ASSUME NEW r \in Request, IsExchanged(r)
          PROVE  DOMAIN exchanges' = Request /\ \A q \in Request : Measured(q)'
      <4>1. /\ DOMAIN exchanges' = Request
            /\ exchanges'[r] = RecordsOfExchange(conf.telemetry, ExchangeAttributes(r))
            /\ \A q \in Request \ {r} : exchanges'[q] = exchanges[q]
            /\ \E i \in DOMAIN receipts' : receipts'[i].token.by = r
        BY <1>0, <3>2 DEF IsExchanged
      <4>2. \A q \in Request \ {r} : Measured(q)'
        BY <1>2, <2>1, <4>1 DEF MeasuresNothing
      <4>3. Measured(r)'
        <5>1. Measured(r)
          BY <1>0
        <5>2. /\ records'[r] = records[r] /\ (phase'[r] = "resolved" <=> phase[r] = "resolved")
              /\ phase[r] = "resolved" => iterationCount'[r] = iterationCount[r]
          BY <2>1 DEF MeasuresNothing
        <5>3. records'[r] # <<>> => phase'[r] = "resolved"
          BY <5>1, <5>2 DEF Measured
        <5>4. phase'[r] = "resolved"
              /\ (\A t \in Telemetries' : t.histogramRequestDuration # Unset)
                => Cardinality({i \in DOMAIN records'[r] :
                                  records'[r][i].instrument = "fga-client.request.duration"}) = 1
          BY <1>1, <5>1, <5>2 DEF Measured
        <5>5. ASSUME NEW i \in DOMAIN records'[r]
              PROVE  /\ Permitted(records'[r][i], Telemetries')
                     /\ CountsRetries(records'[r][i], iterationCount'[r] - 1)
          <6>1. phase[r] = "resolved"
            BY <5>1, <5>2, <5>5 DEF Measured
          <6> QED BY <1>1, <5>1, <5>2, <5>5, <6>1 DEF Measured
        <5>6. \A i \in DOMAIN exchanges'[r] : Permitted(exchanges'[r][i], Telemetries')
          BY <1>0, <1>1, <4>1, ExchangedIsPermitted
        <5> QED BY <4>1, <5>3, <5>4, <5>5, <5>6 DEF Measured
      <4> QED BY <4>1, <4>2, <4>3
    <3> QED BY <1>0, <2>1, <3>1, <3>2 DEF MeasuresNothing
  <2>2. ASSUME NEW r \in Request, IsDelivered(r)
        PROVE  /\ DOMAIN records' = Request /\ DOMAIN exchanges' = Request
               /\ \A q \in Request : Measured(q)'
    <3>1. /\ DOMAIN records' = Request /\ UNCHANGED <<exchanges, receipts, iterationCount>>
          /\ records'[r] = RecordsOfCall(conf.telemetry, CallAttributes(r))
          /\ phase'[r] = "resolved"
          /\ \A q \in Request \ {r} : records'[q] = records[q] /\ phase'[q] = phase[q]
      BY <1>0, <2>2 DEF IsDelivered
    <3>2. \A q \in Request \ {r} : Measured(q)'
      BY <1>2, <3>1
    <3>3. Measured(r)'
      <4>1. Measured(r)
        BY <1>0
      <4>2. (\A t \in Telemetries' : t.histogramRequestDuration # Unset)
              => Cardinality({i \in DOMAIN records'[r] :
                                records'[r][i].instrument = "fga-client.request.duration"}) = 1
        BY <1>0, <1>1, <3>1, DeliveredIsMeasured
      <4>3. \A i \in DOMAIN records'[r] :
              /\ Permitted(records'[r][i], Telemetries')
              /\ CountsRetries(records'[r][i], iterationCount'[r] - 1)
        BY <1>0, <1>1, <3>1, DeliveredIsMeasured
      <4>4. exchanges'[r] # <<>> => \E i \in DOMAIN receipts' : receipts'[i].token.by = r
        BY <3>1, <4>1 DEF Measured
      <4>5. \A i \in DOMAIN exchanges'[r] : Permitted(exchanges'[r][i], Telemetries')
        BY <1>1, <3>1, <4>1 DEF Measured
      <4> QED BY <3>1, <4>2, <4>3, <4>4, <4>5 DEF Measured
    <3> QED BY <1>0, <3>1, <3>2, <3>3
  <2> QED BY <2>1, <2>2, MeasureSteps
<1> QED BY <1>3, WrittenIsKnown, AnsweredStep DEF MeasuredInvariant

-----------------------------------------------------------------------------
\* What is added to the invariant of the calls: the loops, the types and the metrics.
WholeInvariant ==
  /\ CallInvariant
  /\ HP!LoopInvariant
  /\ TypesInvariant
  /\ MeasuredInvariant

\* The invariant of the calls, of their retry loops and of what they record holds in
\* every state of every run (common.ts:236-347).
THEOREM WholeCallIsCorrect == Spec => []WholeInvariant
<1>1. Init => WholeInvariant
  BY CallInvariantInit, LoopHolds, TypesInit, MeasuredInit DEF WholeInvariant
<1>2. CallInvariant /\ CallInvariant' /\ WholeInvariant /\ [Next]_vars => WholeInvariant'
  BY LoopHolds, TypesStep, MeasuredStep DEF WholeInvariant
<1> QED BY SpecImpliesCallInvariant, <1>1, <1>2, PTL DEF Spec

\* Type correctness of a client's calls: no token gets into a headers object of the
\* application's (client.ts:261-263, common.ts:280-345).
THEOREM CallsTypeCorrect == Spec => []TypeOK
<1>1. WholeInvariant => TypeOK
  <2> SUFFICES ASSUME WholeInvariant PROVE TypeOK
    OBVIOUS
  <2> USE DEF WholeInvariant, CallInvariant
  <2>1. K!TypeOK
    <3>1. KP!TypeOK
      BY DEF KP!TokenInvariant
    <3> QED BY <3>1 DEF K!TypeOK, KP!TypeOK, K!Token, KP!Token, K!PC, KP!PC, K!Receipts,
              KP!Receipts, K!ErrorObject, KP!ErrorObject, K!ErrorClass, KP!ErrorClass,
              K!Superclass, KP!Superclass, K!NoError, KP!NoError
  <2>2. H!TypeOK
    <3>1. HP!TypeOK
      BY DEF HP!LoopInvariant
    <3> QED BY <3>1 DEF H!TypeOK, HP!TypeOK, H!Phase, HP!Phase, H!Answered, HP!Answered,
              H!ErrorObject, HP!ErrorObject, H!ErrorClass, HP!ErrorClass, H!Superclass,
              HP!Superclass, H!NoError, HP!NoError
  <2>3. ASSUME NEW x \in CallId \cup Object
        PROVE  /\ headers[x].bulkRequestId \in CallId \cup Object \cup {Unset, Fallback}
               /\ headers[x].authorization \in Object \cup {Unset}
    <3>1. headers[x].bulkRequestId \in IdsOf(x)
          /\ headers[x].authorization =
               (IF x \in Object THEN scenario.headers[x].authorization ELSE Unset)
      BY DEF HeadersInvariant
    <3>2. x \in Object => scenario.headers[x].authorization \in {x, Unset}
      BY ScenarioTypes DEF ConfInvariant
    <3> QED BY <3>1, <3>2 DEF IdsOf
  <2> QED BY <2>1, <2>2, <2>3 DEF TypeOK, TypesInvariant, ConfInvariant, HeadersInvariant
<1> QED BY WholeCallIsCorrect, <1>1, PTL

\* Every fulfilled call is measured once by each configured duration, with its own
\* number of retries, a rejected one never, and no attribute is recorded that no
\* configuration of the application's has asked for (common.ts:302-343,
\* credentials.ts:172-194, attributes.ts:34-50).
THEOREM RecordsAreWhatWasAskedFor == Spec => []MeasuredAsConfigured
<1>1. WholeInvariant => MeasuredAsConfigured
  <2> SUFFICES ASSUME WholeInvariant PROVE MeasuredAsConfigured
    OBVIOUS
  <2>1. \A r \in Request : Measured(r)
    BY DEF WholeInvariant, MeasuredInvariant
  <2>2. ASSUME NEW x, Permitted(x, Telemetries)
        PROVE  DOMAIN x.attributes \subseteq Allowed(MetricOf(x.instrument))
    BY <2>2, WhatIsAllowed DEF Permitted
  <2>3. ASSUME NEW r \in Request, NEW x \in Recorded(r)
        PROVE  DOMAIN x.attributes \subseteq Allowed(MetricOf(x.instrument))
    BY <2>1, <2>2, <2>3 DEF Measured, Recorded
  <2>4. ASSUME NEW r \in Request, NEW i \in DOMAIN records[r],
               "http.request.resend_count" \in DOMAIN records[r][i].attributes
        PROVE  records[r][i].attributes["http.request.resend_count"] = iterationCount[r] - 1
    BY <2>1, <2>4 DEF Measured, CountsRetries, Count
  <2> QED BY <2>1, <2>3, <2>4 DEF MeasuredAsConfigured, Measured
<1> QED BY WholeCallIsCorrect, <1>1, PTL

\* A call the server answered is fulfilled, unless the application has replaced the
\* base options (common.ts:302-343, configuration.ts:151-160).
THEOREM AnswersAreDelivered == Spec => []AnsweredMeansFulfilled
<1>1. WholeInvariant => AnsweredMeansFulfilled
  BY DEF WholeInvariant, MeasuredInvariant
<1> QED BY WholeCallIsCorrect, <1>1, PTL
=============================================================================
