----------------------------- MODULE Configuration -----------------------------
(***************************************************************************)
(* The Configuration object and what is made of it (src/configuration.ts,  *)
(* ClientConfiguration of src/client.ts, TelemetryConfiguration, and the   *)
(* validation of src/credentials/credentials.ts): the constructors and the *)
(* checks, as operators.  A check gives the error it throws, or NoError.   *)
(*                                                                         *)
(* A URL is its scheme and its host; a host, a store id or a model id is   *)
(* either well-formed or not.  An object left out is Unset.                *)
(***************************************************************************)
EXTENDS SdkErrors, Telemetry

CONSTANTS
  Host,         \* well-formed host names
  Ulid,         \* well-formed ids
  RetryLimit    \* SdkConstants.RetryMaxAllowedNumber

ASSUME ConfigurationAssumption ==
  /\ Unset # Empty /\ {Unset, Empty} \cap (Host \cup Ulid) = {}
  /\ RetryLimit \in Nat

Truthy(x) == x \notin {Unset, Empty}

\* a || b
Otherwise(a, b) == IF Truthy(a) THEN a ELSE b

\* `${undefined}` is a host name like any other.
Undefined  == "undefined"
AsText(x)  == IF x = Unset THEN Undefined ELSE x
Url(scheme, host) == [scheme |-> scheme, host |-> host]

\* isWellFormedUriString
IsWellFormedUriString(uri) ==
  uri.scheme \in {"http", "https"} /\ uri.host \in Host \cup {Undefined}

-----------------------------------------------------------------------------
\* Constructors

\* The branches of the constructor: the token is copied, the other configuration
\* is kept as the object it is.
CredentialsOf(given) ==
  IF given = Unset THEN Unset
  ELSE CASE given.method = "api_token" ->
              [method |-> "api_token",
               config |-> [token             |-> given.config.token,
                           headerName        |-> "Authorization",
                           headerValuePrefix |-> "Bearer"]]
         [] given.method = "client_credentials" -> given
         [] OTHER -> [method |-> "none", config |-> Unset]

\* Mutant: the headers are taken as they come.
BaseOptionsAsGiven(given) == IF given = Unset THEN [headers |-> Unset] ELSE given

\* The names of the default headers; there always are some.
DefaultHeaders(given) ==
  (IF given = Unset \/ given.headers = Unset THEN {} ELSE given.headers) \cup {"User-Agent"}
BaseOptionsOf(given) == [headers |-> DefaultHeaders(given)]

\* new TelemetryConfiguration(metrics)
TelemetryOf(metrics) ==
  IF metrics = Unset THEN [m \in TelemetryMetric |-> [attributes |-> DefaultAttributes]]
  ELSE [m \in TelemetryMetric |-> metrics[m]]

\* new ClientConfiguration(params)
ConfigurationOf(params) ==
  [apiScheme            |-> Otherwise(params.apiScheme, "https"),
   apiHost              |-> params.apiHost,
   apiUrl               |-> params.apiUrl,
   credentials          |-> CredentialsOf(params.credentials),
   baseOptions          |-> BaseOptionsOf(params.baseOptions),
   retryParams          |-> params.retryParams,
   telemetry            |-> TelemetryOf(params.telemetry),
   storeId              |-> params.storeId,
   authorizationModelId |-> params.authorizationModelId]

\* Credentials.initConfig
InitConfig(auth) ==
  IF auth = Unset \/ auth.method # "api_token" \/ auth.config = Unset THEN auth
  ELSE [auth EXCEPT !.config.headerName        = Otherwise(@, "Authorization"),
                    !.config.headerValuePrefix = Otherwise(@, "Bearer")]

-----------------------------------------------------------------------------
\* Checks

GetBasePath(conf) ==
  IF Truthy(conf.apiUrl) THEN conf.apiUrl ELSE Url(conf.apiScheme, AsText(conf.apiHost))

\* TelemetryConfiguration.ensureValid
HasInvalidAttribute(telemetry) ==
  \E m \in TelemetryMetric :
    /\ telemetry[m] # Unset /\ telemetry[m].attributes # Unset
    /\ ~(telemetry[m].attributes \subseteq ValidAttributes)

ExceedsRetryLimit(params) ==
  params # Unset /\ params.maxRetry # Unset /\ params.maxRetry > RetryLimit

\* assertParamExists: an empty string exists.
Missing(values) == Unset \in values

\* Configuration.isValid
ConfigurationError(conf) ==
  IF Missing({conf.apiUrl}) /\ ~Truthy(conf.apiHost) THEN ErrorOf("FgaRequiredParamError")
  ELSE IF \/ ~IsWellFormedUriString(GetBasePath(conf))
          \/ ExceedsRetryLimit(conf.retryParams)
          \/ HasInvalidAttribute(conf.telemetry)
  THEN ErrorOf("FgaValidationError")
  ELSE NoError

IsMalformedId(id) == Truthy(id) /\ id \notin Ulid

\* ClientConfiguration.isValid
ClientConfigurationError(conf) ==
  IF ConfigurationError(conf) # NoError THEN ConfigurationError(conf)
  ELSE IF IsMalformedId(conf.storeId) \/ IsMalformedId(conf.authorizationModelId)
  THEN ErrorOf("FgaValidationError")
  ELSE NoError

\* Credentials.isValid
CredentialsError(auth) ==
  IF auth = Unset \/ auth.method = "none" THEN NoError
  ELSE IF auth.method = "api_token"
  THEN IF Missing({auth.config.token, auth.config.headerName})
       THEN ErrorOf("FgaRequiredParamError") ELSE NoError
  ELSE LET c == auth.config
       IN  IF Missing({c.clientId, c.apiTokenIssuer, c.apiAudience,
                       Otherwise(c.clientSecret, c.clientAssertionSigningKey)})
           THEN ErrorOf("FgaRequiredParamError")
           ELSE IF c.apiTokenIssuer \notin Host THEN ErrorOf("FgaValidationError")
           ELSE NoError

\* new OpenFgaClient(params): BaseAPI checks the configuration and the credentials,
\* then the client the ids, and OpenFgaApi all of it again.
ClientError(params) ==
  LET conf == ConfigurationOf(params)
      auth == InitConfig(conf.credentials)
  IN  IF ConfigurationError(conf) # NoError THEN ConfigurationError(conf)
      ELSE IF CredentialsError(auth) # NoError THEN CredentialsError(auth)
      ELSE ClientConfigurationError(conf)
=============================================================================
