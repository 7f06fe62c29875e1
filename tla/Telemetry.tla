------------------------------- MODULE Telemetry -------------------------------
(***************************************************************************)
(* What a call and a token exchange record (src/telemetry/), as operators. *)
(* Attributes are a function from their names to their values; a record of *)
(* a metric is its instrument and the attributes the configuration lets    *)
(* through.  Durations are left out, that they are measured is not.        *)
(***************************************************************************)
EXTENDS Integers, Sequences

CONSTANTS
  Unset, \* undefined, or null
  Empty  \* the empty string

TelemetryMetric ==
  {"counterCredentialsRequest", "histogramRequestDuration", "histogramQueryDuration"}

DefaultAttributes ==
  {"http.host", "http.response.status_code", "user_agent.original",
   "fga-client.request.method", "fga-client.request.client_id",
   "fga-client.request.store_id", "fga-client.request.model_id",
   "http.request.resend_count", "fga-client.response.model_id"}
ValidAttributes ==
  DefaultAttributes \cup
  {"url.scheme", "http.request.method", "url.full", "http.client.request.duration",
   "http.server.request.duration", "fga-client.user", "fga-client.request.batch_check_size"}

NoAttributes == <<>>
Attribute(name, value) == [n \in {name} |-> value]

\* Attributes of two kinds; of two with one name the first is meant.
f ++ g == [n \in DOMAIN f \cup DOMAIN g |-> IF n \in DOMAIN f THEN f[n] ELSE g[n]]

\* if (value) attributes[name] = value
IfSet(name, value) ==
  IF value \in {Unset, Empty} THEN NoAttributes ELSE Attribute(name, value)
IfPositive(name, count) == IF count > 0 THEN Attribute(name, count) ELSE NoAttributes

-----------------------------------------------------------------------------
\* Attributes of a call.

\* Mutant: nothing is filtered out.
PrepareAll(attributes, filter) == attributes

\* TelemetryAttributes.prepare
Prepare(attributes, filter) ==
  [name \in DOMAIN attributes \cap (IF filter = Unset THEN {} ELSE filter) |->
     attributes[name]]

\* fromRequestBody: what a body has of these members is Unset or has a value.
FromRequestBody(body) ==
  IF body = Unset THEN NoAttributes
  ELSE IfSet("fga-client.request.model_id", body.authorization_model_id)
       ++ IfSet("fga-client.user", body.user)
       ++ IfPositive("fga-client.request.batch_check_size", body.checks)

\* The methods of OpenFgaApiFp that are about no store.
StorelessMethods == {"CreateStore", "ListStores"}

\* The attributes each method of OpenFgaApiFp hands on.
MethodAttributes(fgaMethod, storeId, body) ==
  Attribute("fga-client.request.method", fgaMethod)
  ++ (IF fgaMethod \in StorelessMethods THEN NoAttributes
      ELSE Attribute("fga-client.request.store_id", IF storeId = Unset THEN Empty ELSE storeId))
  ++ FromRequestBody(body)

\* fromRequest.  The id of the client is there only for credentials with a member
\* `method`, which neither of its callers passes.
FromRequest(userAgent, fgaMethod, httpMethod, url, retries, attributes) ==
  IfSet("fga-client.request.method", fgaMethod)
  ++ IfSet("user_agent.original", userAgent)
  ++ IfSet("http.request.method", httpMethod)
  ++ Attribute("http.host", url.host) ++ Attribute("url.scheme", url.scheme)
  ++ Attribute("url.full", url)
  ++ Attribute("http.client.request.duration", "measured")
  ++ IfPositive("http.request.resend_count", retries)
  ++ attributes

\* fromResponse, of a response with these headers.
FromResponse(status, modelId, queryDuration, attributes) ==
  Attribute("http.response.status_code", status)
  ++ IfSet("fga-client.response.model_id", modelId)
  ++ IfSet("http.server.request.duration", queryDuration)
  ++ attributes

-----------------------------------------------------------------------------
\* Recording

\* MetricRecorder.histogram and .counter, and the instruments' names.
Record(instrument, attributes) == [instrument |-> instrument, attributes |-> attributes]

\* The end of createRequestFunction.
RecordsOfCall(metrics, attributes) ==
  (IF metrics.histogramQueryDuration = Unset
      \/ "http.server.request.duration" \notin DOMAIN attributes THEN <<>>
   ELSE <<Record("fga-client.query.duration",
                 Prepare(attributes, metrics.histogramQueryDuration.attributes))>>)
  \o (IF metrics.histogramRequestDuration = Unset THEN <<>>
      ELSE <<Record("fga-client.request.duration",
                    Prepare(attributes, metrics.histogramRequestDuration.attributes))>>)

\* The end of refreshAccessToken; here a metric without attributes is not recorded.
RecordsOfExchange(metrics, attributes) ==
  IF metrics.counterCredentialsRequest = Unset
     \/ metrics.counterCredentialsRequest.attributes = Unset THEN <<>>
  ELSE <<Record("fga-client.credentials.request",
                Prepare(attributes, metrics.counterCredentialsRequest.attributes))>>
=============================================================================
