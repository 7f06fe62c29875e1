-------------------------------- MODULE ApiCall --------------------------------
(***************************************************************************)
(* The API calls of one client, whole: the client is built (Configuration),*)
(* its methods write to the caller's headers object, each of their requests*)
(* takes a copy of it, waits for a token (Credentials), reads the base     *)
(* path, is sent and repeated (HttpRequest), and is measured (Telemetry)   *)
(* before its promise is settled: src/client.ts, src/base.ts,              *)
(* createRequestFunction of src/common.ts.                                 *)
(*                                                                         *)
(* A scenario says what the application does: the parameters it builds the *)
(* client with, its headers objects, the methods it calls with them and    *)
(* how many requests each makes, and what it may write to the              *)
(* Configuration object afterwards; and whether there is a source of       *)
(* random numbers.  In client credentials mode the server answers 401 to a *)
(* token that has ended.                                                   *)
(***************************************************************************)
EXTENDS Configuration, FiniteSets

CONSTANTS
  CallId,      \* calls of client methods
  Request,     \* their requests
  Object,      \* headers objects of the application
  Scenarios,   \* what the application does: see above
  MaxTime, Lifetimes, IssuerFailures, ExchangeRetries, \* of Credentials
  Failures,    \* the failures of an attempt, but for the 401 of an ended token
  RetryParams, DefaultMinWaitInMs, MaxBackoffTime, RetryHeaderMaxAllowableDuration

VARIABLES
  scenario,     \* never changes
  client,       \* the OpenFgaClient: "none", "built" or "refused"
  conf,         \* its Configuration object
  writes,       \* what the application may still write to it
  headers,      \* the headers objects, one for each call that was given none
  begun,        \* the calls that have begun
  args,         \* the headers of each request, Unset before it is made
  url,          \* the base path it was sent to, Unset before
  exposed,      \* requests whose base path was written to in their wait for a token (history)
  refusedAt,    \* when the server refused a token (history)
  records,      \* what each request recorded
  exchanges,    \* what its exchange of credentials recorded
  \* the token cache
  now, accessToken, accessTokenExpiryDate, pc, attempts, wire, askedAt, handed,
  failure, receipts,
  \* the retry loops; the retry parameters are a member of conf
  phase, overridden, maxRetry, minWaitInMs, iterationCount, answer, delay, hinted, error

\* What the server answers to a token that has ended.
Unauthorized401 == [axios |-> TRUE, status |-> 401, retryAfter |-> 0]

K == INSTANCE Credentials
       WITH Caller <- Request, Failures <- IssuerFailures, MaxRetry <- ExchangeRetries
H == INSTANCE HttpRequest
       WITH configured <- conf.retryParams, RetryMaxAllowedNumber <- RetryLimit,
            Failures <- Failures \cup {Unauthorized401}, TokenErrors <- ErrorObject

tokenVars  == <<now, accessToken, accessTokenExpiryDate, pc, attempts, wire, askedAt,
                handed, failure, receipts>>
loopVars   == <<phase, overridden, maxRetry, minWaitInMs, iterationCount, answer, delay,
                hinted, error>>
clientVars == <<scenario, client, conf, writes>>
headerVars == <<headers, begun>>
vars == <<clientVars, headerVars, args, url, exposed, refusedAt, records, exchanges,
          tokenVars, loopVars>>

auth      == InitConfig(conf.credentials)
CallOf(r) == scenario.callOf[r]
Method(k) == scenario.method[k]

-----------------------------------------------------------------------------
\* Headers

NoHeaders == [clientMethod |-> Unset, bulkRequestId |-> Unset, authorization |-> Unset]

\* const { headers = {} } = options
ObjectOf(k) == IF scenario.object[k] = Unset THEN k ELSE scenario.object[k]

\* Mutant: the header is set, whatever is there.
SetHeader(old, value) == IF value = Unset THEN old ELSE value

\* setHeaderIfNotSet
SetHeaderIfNotSet(old, value) == IF old = Unset THEN value ELSE old

\* The name a method puts into the headers, and whether it puts an id there too.
ClientMethod ==
  [write |-> "Write", writeTuples |-> "WriteTuples", deleteTuples |-> "DeleteTuples",
   clientBatchCheck |-> "ClientBatchCheck", listRelations |-> "ListRelations",
   readLatestAuthorizationModel |-> "ReadLatestAuthorizationModel"]
Methods    == DOMAIN ClientMethod \cup {"check", "batchCheck"}
BulkMethod == {"write", "clientBatchCheck", "batchCheck", "listRelations"}

NameOf(method) == IF method \in DOMAIN ClientMethod THEN ClientMethod[method] ELSE Unset

\* Mutant: there is no fallback.
BulkIdOrNone(k) == IF scenario.randomness THEN k ELSE Unset

\* generateRandomIdWithNonUniqueFallback: the id of a call is its own as long as there is
\* a source of random numbers; without one all calls have the same.
Fallback == <<"fallback">>
BulkId(k) == IF scenario.randomness THEN k ELSE Fallback

IdOf(k) == IF Method(k) \in BulkMethod THEN BulkId(k) ELSE Unset

\* What a scenario may be.  The application may write what it likes to what the base path
\* is made of, also an empty string or undefined, and to the telemetry and the base
\* options; writes to retryParams are HttpRequest's, the Credentials object keeps the
\* credentials it was made with.  What it puts into a headers object itself is told apart
\* from what the SDK would, and it names no host "undefined" itself.
BasePathMember == {"apiUrl", "apiScheme", "apiHost"}
NamesHost(u)   == Truthy(u) => u.host # Undefined
Headers(x)   == [clientMethod : STRING \cup {Unset}, bulkRequestId : {x, Unset},
                 authorization : {x, Unset}]
ASSUME ScenariosAssumption ==
  \A s \in Scenarios :
    /\ s.object \in [CallId -> Object \cup {Unset}]
    /\ s.callOf \in [Request -> CallId \cup {Unset}]
    /\ s.method \in [CallId -> Methods]
    /\ \A r, q \in Request :
         r # q /\ s.callOf[r] = s.callOf[q] /\ s.callOf[r] # Unset
           => s.method[s.callOf[r]] \in BulkMethod
    /\ \A x \in Object : s.headers[x] \in Headers(x)
    /\ \A w \in s.writes : w.member \in BasePathMember \cup {"telemetry", "baseOptions"}
    /\ NamesHost(s.params.apiUrl) /\ s.params.apiHost # Undefined
    /\ \A w \in s.writes : w.member = "apiUrl" => NamesHost(w.value)
    /\ \A w \in s.writes : w.member = "apiHost" => w.value # Undefined
    /\ s.randomness \in BOOLEAN
ASSUME TokenAssumption == K!CredentialsAssumption /\ K!UnsetAssumption
ASSUME ObjectAssumption ==
  /\ CallId \cap Object = {} /\ Unset \notin CallId \cup Object \cup {Fallback}
  /\ \A x \in Object : x \notin K!Token
ASSUME LoopAssumption ==
  /\ H!ParamsAssumption /\ H!FailuresAssumption /\ H!LimitsAssumption
  /\ Unset # Answered
ASSUME BaseOptionsAssumption ==
  \A s \in Scenarios : DefaultHeaders(s.params.baseOptions) # Unset

\* The synchronous start of a method.
Stamp(k) ==
  [headers EXCEPT
     ![ObjectOf(k)].clientMethod  = SetHeaderIfNotSet(@, NameOf(Method(k))),
     ![ObjectOf(k)].bulkRequestId = SetHeaderIfNotSet(@, IdOf(k))]

-----------------------------------------------------------------------------
Init ==
  /\ scenario \in Scenarios
  /\ client = "none"
  /\ conf = ConfigurationOf(scenario.params)
  /\ writes = scenario.writes
  /\ headers = [x \in CallId \cup Object |->
                  IF x \in Object THEN scenario.headers[x] ELSE NoHeaders]
  /\ begun = {}
  /\ args = [r \in Request |-> Unset]
  /\ url = [r \in Request |-> Unset]
  /\ exposed = {}
  /\ refusedAt = [r \in Request |-> Unset]
  /\ records = [r \in Request |-> <<>>]
  /\ exchanges = [r \in Request |-> <<>>]
  /\ K!Init
  /\ H!Init

\* new OpenFgaClient(params)
Construct ==
  /\ client = "none"
  /\ client' = IF ClientError(scenario.params) = NoError THEN "built" ELSE "refused"
  /\ UNCHANGED <<scenario, conf, writes, headerVars, args, url, exposed, refusedAt,
                 records, exchanges, tokenVars, loopVars>>

\* The application writes to its Configuration object; for "telemetry", to the metrics
\* of its TelemetryConfiguration, an object the Credentials share.
Write(w) ==
  /\ client = "built"
  /\ w \in writes
  /\ writes' = writes \ {w}
  /\ conf' = [conf EXCEPT ![w.member] = w.value]
  /\ exposed' = exposed \cup
                  {r \in Request : w.member \in BasePathMember /\ phase[r] = "authorizing"}
  /\ UNCHANGED <<scenario, client, headerVars, args, url, refusedAt, records, exchanges,
                 tokenVars, loopVars>>

\* Mutant: the configuration is not validated again.
RequestErrorUnchecked == NoError

\* What configuration.isValid() throws when a request is made.
RequestError == ClientConfigurationError(conf)

\* A method makes a request, the first one as it begins, the others when its pool
\* has room.  The parameter creator copies the headers; createRequestFunction
\* validates the configuration and reads the retry parameters.
Launch(r) ==
  /\ client = "built"
  /\ phase[r] = "idle" /\ CallOf(r) # Unset
  /\ UNCHANGED conf
  /\ begun' = begun \cup {CallOf(r)}
  /\ headers' = IF CallOf(r) \in begun THEN headers ELSE Stamp(CallOf(r))
  /\ args' = [args EXCEPT ![r] = headers'[ObjectOf(CallOf(r))]]
  /\ IF RequestError = NoError THEN H!Call(r, Unset)
     ELSE /\ phase' = [phase EXCEPT ![r] = "rejected"]
          /\ error' = [error EXCEPT ![r] = RequestError]
          /\ UNCHANGED <<overridden, maxRetry, minWaitInMs, iterationCount, answer,
                         delay, hinted>>
  /\ UNCHANGED <<scenario, client, writes, url, exposed, refusedAt, records, exchanges,
                 tokenVars>>

-----------------------------------------------------------------------------
\* The wait for the token

\* Mutant: the headers were not copied, the token is put into the caller's object.
PutTokenIntoObject(r, token) ==
  /\ args' = [args EXCEPT ![r].authorization = SetHeaderIfNotSet(@, token)]
  /\ headers' = [headers EXCEPT ![ObjectOf(CallOf(r))].authorization =
                                   SetHeaderIfNotSet(@, token)]

\* setBearerAuthToObject, once the header is there.
PutToken(r, token) ==
  /\ args' = [args EXCEPT ![r].authorization = SetHeaderIfNotSet(@, token)]
  /\ UNCHANGED headers

\* After the await: the token, the base path, the first attempt.
SendFirst(r, token) ==
  /\ UNCHANGED conf
  /\ PutToken(r, token)
  /\ url' = [url EXCEPT ![r] = GetBasePath(conf)]
  /\ H!Authorized(r)
  /\ UNCHANGED <<scenario, client, writes, begun, exposed, refusedAt, records>>

UsesClientCredentials == auth # Unset /\ auth.method = "client_credentials"

\* Without credentials there is no header; an API token is in the configuration.
WithoutExchange(r) ==
  /\ ~UsesClientCredentials /\ phase[r] = "authorizing"
  /\ SendFirst(r, IF auth = Unset \/ auth.method = "none" THEN Unset ELSE auth.config.token)
  /\ UNCHANGED <<exchanges, tokenVars>>

WithCachedToken(r) ==
  /\ UsesClientCredentials /\ phase[r] = "authorizing"
  /\ K!UseCache(r)
  /\ SendFirst(r, handed'[r].token)
  /\ UNCHANGED exchanges

\* An exchange under way: it starts, is sent, issued, and repeated.
ExchangeStep(r) ==
  /\ UsesClientCredentials /\ phase[r] = "authorizing"
  /\ \/ K!StartRefresh(r)
     \/ K!SendExchange(r)
     \/ K!Issue(r)
     \/ \E err \in IssuerFailures : K!Retry(r, err)
  /\ UNCHANGED <<clientVars, headerVars, args, url, exposed, refusedAt, records, exchanges,
                 loopVars>>

TokenUrl == Url("https", auth.config.apiTokenIssuer)
ExchangeAttributes(r) ==
  FromResponse(200, Unset, Unset,
    FromRequest("User-Agent", "TokenExchange", "POST", TokenUrl, attempts[r] - 1, NoAttributes))

\* It is answered: the token is cached, the exchange counted, the request sent.
WithNewToken(r) ==
  /\ UsesClientCredentials /\ phase[r] = "authorizing"
  /\ K!Receive(r)
  /\ exchanges' = [exchanges EXCEPT ![r] =
                     RecordsOfExchange(conf.telemetry, ExchangeAttributes(r))]
  /\ SendFirst(r, handed'[r].token)

\* It fails: the request is rejected with its error.
TokenFails(r) ==
  /\ UsesClientCredentials /\ phase[r] = "authorizing"
  /\ UNCHANGED conf
  /\ \/ auth.config.clientAssertionSigningKey # Unset /\ K!BuildFails(r)
     \/ \E err \in IssuerFailures : K!ExchangeFails(r, err)
  /\ H!Unauthorized(r, failure'[r])
  /\ UNCHANGED <<scenario, client, writes, headerVars, args, url, exposed, refusedAt,
                 records, exchanges>>

-----------------------------------------------------------------------------
\* The server, and what the client does with its answer.

\* The token has ended by the server's clock; "undefined", of an answer without
\* access_token, was none from the start (its life is 0).
HasEnded(token) == UsesClientCredentials /\ token \in K!Token /\ K!IssuerExpiry(token) <= now

\* Reading the user agent throws when the base options are without headers.
MeasuringThrows == conf.baseOptions # Unset /\ conf.baseOptions.headers = Unset

\* The request a method makes, and what of its body is measured.
ApiMethod ==
  [m \in Methods |->
     CASE m \in {"write", "writeTuples", "deleteTuples"}          -> "Write"
       [] m \in {"check", "clientBatchCheck", "listRelations"}    -> "Check"
       [] m = "batchCheck"                                        -> "BatchCheck"
       [] m = "readLatestAuthorizationModel"                      -> "ReadAuthorizationModels"]
BodyOf(m) ==
  CASE ApiMethod[m] = "Write" ->
         [authorization_model_id |-> conf.authorizationModelId, user |-> Unset, checks |-> 0]
    [] ApiMethod[m] = "Check" ->
         [authorization_model_id |-> conf.authorizationModelId, user |-> "user", checks |-> 0]
    [] ApiMethod[m] = "BatchCheck" ->
         [authorization_model_id |-> Unset, user |-> Unset, checks |-> 1]
    [] OTHER -> Unset

UserAgent ==
  IF conf.baseOptions # Unset /\ "User-Agent" \in conf.baseOptions.headers
  THEN "User-Agent" ELSE Unset

CallAttributes(r) ==
  LET m == Method(CallOf(r))
  IN  FromResponse(200, Unset, "measured",
        FromRequest(UserAgent, Unset, IF BodyOf(m) = Unset THEN "GET" ELSE "POST",
                    url[r], iterationCount[r] - 1,
                    MethodAttributes(ApiMethod[m], conf.storeId, BodyOf(m))))

\* The server serves an attempt; the call is measured, then resolved.
Served(r) ==
  /\ ~HasEnded(args[r].authorization)
  /\ UNCHANGED conf
  /\ IF MeasuringThrows
     THEN /\ phase'  = [phase EXCEPT ![r] = "rejected"]
          /\ answer' = [answer EXCEPT ![r] = Answered]
          /\ error'  = [error EXCEPT ![r] = ErrorOf("Error")]
          /\ UNCHANGED <<records, overridden, maxRetry, minWaitInMs, iterationCount, delay,
                         hinted>>
     ELSE /\ H!Succeed(r)
          /\ records' = [records EXCEPT ![r] =
                           RecordsOfCall(conf.telemetry, CallAttributes(r))]
  /\ UNCHANGED refusedAt

\* It refuses the token: 401 is not repeated.
Refused(r) ==
  /\ HasEnded(args[r].authorization)
  /\ UNCHANGED conf
  /\ H!Throw(r, Unauthorized401)
  /\ refusedAt' = [refusedAt EXCEPT ![r] = now]
  /\ UNCHANGED records

\* An attempt reaches the server only at a well-formed URL.
Attempt(r) ==
  /\ phase[r] = "sending"
  /\ \/ IsWellFormedUriString(url[r]) /\ (Served(r) \/ Refused(r))
     \/ /\ UNCHANGED <<conf, refusedAt, records>>
        /\ \E err \in Failures : H!Throw(r, err) \/ H!Sleep(r, err)
  /\ UNCHANGED <<scenario, client, writes, headerVars, args, url, exposed, exchanges,
                 tokenVars>>

Wake(r) ==
  /\ UNCHANGED conf
  /\ H!Wake(r)
  /\ UNCHANGED <<scenario, client, writes, headerVars, args, url, exposed, refusedAt,
                 records, exchanges, tokenVars>>

\* Time is of interest to tokens only.
Tick ==
  /\ client = "built" /\ UsesClientCredentials
  /\ K!Tick
  /\ UNCHANGED <<clientVars, headerVars, args, url, exposed, refusedAt, records, exchanges,
                 loopVars>>

Authorize(r) ==
  \/ WithoutExchange(r) \/ WithCachedToken(r) \/ ExchangeStep(r) \/ WithNewToken(r)
  \/ TokenFails(r)

Next ==
  \/ Construct
  \/ Tick
  \/ \E w \in writes : Write(w)
  \/ \E r \in Request : Launch(r) \/ Authorize(r) \/ Attempt(r) \/ Wake(r)

Spec == Init /\ [][Next]_vars
-----------------------------------------------------------------------------
Made(r) == args[r] # Unset
Sent(r) == url[r] # Unset

\* What the application put into the headers of a request itself.
Given(r) ==
  IF scenario.object[CallOf(r)] = Unset THEN NoHeaders
  ELSE scenario.headers[scenario.object[CallOf(r)]]

\* Its Authorization header: the application's, or what the credentials give.
CarriesLiveToken(r) ==
  IF Given(r).authorization # Unset THEN args[r].authorization = Given(r).authorization
  ELSE IF ~UsesClientCredentials
  THEN args[r].authorization = (IF auth = Unset \/ auth.method = "none" THEN Unset
                                ELSE scenario.params.credentials.config.token)
  ELSE \E i \in DOMAIN receipts :
         /\ receipts[i].token = args[r].authorization
         /\ handed[r].token = args[r].authorization
         /\ \/ handed[r].at < receipts[i].at + receipts[i].token.life
            \/ handed[r].at = receipts[i].at

\* Every variable stays in its range (client.ts:261-263, common.ts:280-345); no token
\* is in a headers object of the application's.
TypeOK ==
  /\ scenario \in Scenarios
  /\ client \in {"none", "built", "refused"}
  /\ writes \subseteq scenario.writes
  /\ \A x \in CallId \cup Object :
       /\ headers[x].clientMethod \in
            {ClientMethod[m] : m \in DOMAIN ClientMethod} \cup {Unset}
              \cup (IF x \in Object THEN {scenario.headers[x].clientMethod} ELSE {})
       /\ headers[x].bulkRequestId \in CallId \cup Object \cup {Unset, Fallback}
       /\ headers[x].authorization \in Object \cup {Unset}
  /\ begun \subseteq CallId
  /\ exposed \subseteq Request
  /\ refusedAt \in [Request -> 0 .. MaxTime \cup {Unset}]
  /\ K!TypeOK
  /\ H!TypeOK

\* A request goes out with the application's own Authorization header where it has
\* one, otherwise with what the configured credentials give; a token of the issuer is
\* one this request was handed, while it was live by the client's clock, whatever
\* headers object it shares with other requests (common.ts:40-45, 290; api.ts:162).
RequestsCarryLiveTokens == \A r \in Request : Sent(r) => CarriesLiveToken(r)

\* The server refuses a token only if time has passed on the way: that of the token's
\* own answer, or since the request was handed it, waiting for attempts that failed; or
\* if the answer to this request's own exchange brought none that could be used
\* (common.ts:290-298, credentials.ts:121, 133, 168-169).
RefusedOnlyForEndedToken ==
  \A r \in Request : refusedAt[r] # Unset =>
    \E i \in DOMAIN receipts :
      /\ receipts[i].token = args[r].authorization
      /\ \/ receipts[i].at > receipts[i].token.issuedAt
         \/ refusedAt[r] > handed[r].at
         \/ receipts[i].token.life = 0 /\ receipts[i].token.by = r

\* All requests of a bulk call carry one id, and those of a call that names itself one
\* name, although both are kept in an object other calls write to.  Two calls have the
\* same id only if the application gave them the same object, or if there is no source of
\* random numbers: then the id is the fixed one all calls have
\* (client.ts:545-546, 677-679, 735, 862-864, generate-random-id.ts:22-24).
BulkCallsKeepTheirId ==
  \A r, s \in Request : Made(r) /\ Made(s) =>
    /\ CallOf(r) = CallOf(s) => args[r].bulkRequestId = args[s].bulkRequestId
    /\ CallOf(r) = CallOf(s) /\ NameOf(Method(CallOf(r))) # Unset
         => args[r].clientMethod = args[s].clientMethod
    /\ args[r].bulkRequestId = args[s].bulkRequestId /\ args[r].bulkRequestId # Unset
         => \/ ObjectOf(CallOf(r)) = ObjectOf(CallOf(s))
            \/ ~scenario.randomness /\ args[r].bulkRequestId = Fallback
    /\ Method(CallOf(r)) \in BulkMethod => args[r].bulkRequestId # Unset

\* What the application has given a member so far: when it built the client, or since.
ValuesGiven(member) ==
  {scenario.params[member]}
    \cup {w.value : w \in {v \in scenario.writes \ writes : v.member = member}}

\* A request is sent to a base path that is no URL only if the application wrote to it
\* while that very request was waiting for its token: it is validated before the wait
\* and read after it (common.ts:281, 292).  The host is called "undefined" only for a
\* client without an apiHost whose apiUrl has been set to an empty string, which passes
\* the validation, or was set to undefined during that wait
\* (configuration.ts:171-175, 195-200).
UrlWasValidated ==
  \A r \in Request : Sent(r) =>
    /\ IsWellFormedUriString(url[r]) \/ r \in exposed
    /\ url[r].host = Undefined =>
         /\ Unset \in ValuesGiven("apiHost")
         /\ Empty \in ValuesGiven("apiUrl") \/ (Unset \in ValuesGiven("apiUrl") /\ r \in exposed)

\* The telemetry configurations the application has ever given.
Telemetries ==
  {TelemetryOf(scenario.params.telemetry)}
    \cup {w.value : w \in {v \in scenario.writes \ writes : v.member = "telemetry"}}

Allowed(metric) ==
  LET asking == {t \in Telemetries : t[metric] # Unset /\ t[metric].attributes # Unset}
  IN  (UNION {t[metric].attributes : t \in asking}) \cap ValidAttributes

MetricOf(instrument) ==
  CASE instrument = "fga-client.request.duration"    -> "histogramRequestDuration"
    [] instrument = "fga-client.query.duration"      -> "histogramQueryDuration"
    [] instrument = "fga-client.credentials.request" -> "counterCredentialsRequest"

Recorded(r) ==
  {records[r][i] : i \in DOMAIN records[r]} \cup {exchanges[r][i] : i \in DOMAIN exchanges[r]}

\* What is recorded: for a fulfilled call every configured duration once, with the
\* number of its own retries; for a rejected one nothing; an exchange for every token
\* received, by the request that asked for it; and never an attribute that no
\* configuration of the application's has asked for (common.ts:302-343,
\* credentials.ts:172-194, attributes.ts:34-50).
MeasuredAsConfigured ==
  \A r \in Request :
    /\ records[r] # <<>> => phase[r] = "resolved"
    /\ phase[r] = "resolved" /\ (\A t \in Telemetries : t.histogramRequestDuration # Unset)
         => Cardinality({i \in DOMAIN records[r] :
                           records[r][i].instrument = "fga-client.request.duration"}) = 1
    /\ exchanges[r] # <<>> => \E i \in DOMAIN receipts : receipts[i].token.by = r
    /\ \A x \in Recorded(r) : DOMAIN x.attributes \subseteq Allowed(MetricOf(x.instrument))
    /\ \A i \in DOMAIN records[r] :
         "http.request.resend_count" \in DOMAIN records[r][i].attributes =>
           records[r][i].attributes["http.request.resend_count"] = iterationCount[r] - 1

\* A call the server has carried out and answered is fulfilled: what stands between the
\* answer and its delivery throws only if the application has replaced the base options
\* (common.ts:302-343, configuration.ts:151-160).
AnsweredMeansFulfilled ==
  \A r \in Request :
    answer[r] = Answered /\ phase[r] = "rejected" =>
      \E w \in scenario.writes \ writes : w.member = "baseOptions"
=============================================================================
