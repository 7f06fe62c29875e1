------------------------------- MODULE MCApiCall -------------------------------
(***************************************************************************)
(* Scenarios of ApiCall for TLC.  Each is about one thing: overlapping     *)
(* calls that need a token; calls that share a headers object; no source   *)
(* of random numbers; a Configuration object that is written to; parameters*)
(* no client can be built with.                                            *)
(***************************************************************************)
EXTENDS ApiCall, TLC

CONSTANTS k1, k2, r1, r2, r3, o1, o2, host, store, Malformed

Retries(n) == [maxRetry |-> n, minWaitInMs |-> 0]
MCRetryParams == {Retries(0), Retries(1)}

Status(s) == [axios |-> TRUE, status |-> s, retryAfter |-> 0]
MCFailures       == {Status(500), Status(404)}
MCIssuerFailures == {Status(500)}

-----------------------------------------------------------------------------
\* Parameters

Params ==
  [apiUrl |-> Url("https", host), apiScheme |-> Unset, apiHost |-> Unset,
   credentials |-> Unset, baseOptions |-> Unset,
   retryParams |-> Retries(1), telemetry |-> Unset,
   storeId |-> store, authorizationModelId |-> Unset]

ApiToken(token) == [method |-> "api_token", config |-> [token |-> token]]
ClientCredentials(secret, key) ==
  [method |-> "client_credentials",
   config |-> [clientId |-> "client", apiTokenIssuer |-> host, apiAudience |-> "audience",
               clientSecret |-> secret, clientAssertionSigningKey |-> key]]

WithCredentials(c) == [Params EXCEPT !.credentials = c]

\* One attribute for the durations, one that does not exist, none at all.
Only(attributes) ==
  [counterCredentialsRequest |-> [attributes |-> Unset],
   histogramRequestDuration  |-> [attributes |-> attributes],
   histogramQueryDuration    |-> Unset]

-----------------------------------------------------------------------------
\* Scenarios

MCHeaders ==
  [x \in {o1, o2} |-> [NoHeaders EXCEPT !.authorization = IF x = o2 THEN o2 ELSE Unset,
                                        !.bulkRequestId = IF x = o2 THEN o2 ELSE Unset]]

\* Two calls of two requests and of one.
Scene(params, m1, m2, x1, x2, ws) ==
  [params |-> params, randomness |-> TRUE, method |-> (k1 :> m1) @@ (k2 :> m2),
   object |-> (k1 :> x1) @@ (k2 :> x2), headers |-> MCHeaders, writes |-> ws,
   callOf |-> (r1 :> k1) @@ (r2 :> IF m1 \in BulkMethod THEN k1 ELSE Unset) @@ (r3 :> k2)]

Tokens ==
  {Scene(WithCredentials(ClientCredentials("secret", Unset)), "check", "check", o1, o1, {}),
   Scene([WithCredentials(ClientCredentials(Unset, "key")) EXCEPT !.retryParams = Retries(0)],
         "check", "readLatestAuthorizationModel", o2, Unset, {})}

\* Nothing is repeated: headers are written before the first attempt.
Sharing ==
  {Scene([WithCredentials(ApiToken("token")) EXCEPT !.retryParams = Retries(0)],
         m1, m2, x1, x2, {}) :
     m1 \in BulkMethod, m2 \in Methods, x1 \in {o1, o2}, x2 \in {o1, o2, Unset}}

\* Calls with an id of the SDK's, without a source of random numbers.
Fixed ==
  {[Scene([Params EXCEPT !.retryParams = Retries(0)], m1, "batchCheck", x1, Unset, {})
      EXCEPT !.randomness = FALSE] :
     m1 \in BulkMethod, x1 \in {o2, Unset}}

Written ==
  {Scene(p, "check", "batchCheck", Unset, Unset, ws) :
     p \in {Params, [Params EXCEPT !.telemetry = Only({"fga-client.user"})]},
     ws \in {{[member |-> "apiUrl", value |-> Url("https", Malformed)]},
             {[member |-> "baseOptions", value |-> [headers |-> Unset]]},
             {[member |-> "baseOptions", value |-> Unset]},
             {[member |-> "telemetry", value |-> Only({"http.host", "no.attribute"})]},
             {[member |-> "telemetry", value |-> Only(Unset)]}}}

\* The base path is taken away: the apiUrl, or the apiHost of a client built without one.
Emptied ==
  {Scene([Params EXCEPT !.retryParams = Retries(0)], "check", "batchCheck", Unset, Unset,
         {[member |-> "apiUrl", value |-> u]}) : u \in {Empty, Unset}}
    \cup
  {Scene([Params EXCEPT !.retryParams = Retries(0), !.apiUrl = Unset, !.apiHost = host],
         "check", "batchCheck", Unset, Unset, ws) :
     ws \in {{[member |-> "apiHost", value |-> Unset]},
             {[member |-> "apiHost", value |-> Unset], [member |-> "apiUrl", value |-> Empty]},
             {[member |-> "apiScheme", value |-> "ftp"]}}}

\* The check of everything a client is built with, one wrong thing at a time.
Unusual ==
  {Scene(p, "check", "listRelations", Unset, Unset, {}) : p \in
    {[Params EXCEPT !.apiUrl = Unset],
     [Params EXCEPT !.apiUrl = Empty],
     [Params EXCEPT !.apiUrl = Unset, !.apiHost = host],
     [Params EXCEPT !.apiUrl = Url("ftp", host)],
     [Params EXCEPT !.apiUrl = Empty, !.apiHost = Malformed],
     [Params EXCEPT !.storeId = Malformed],
     [Params EXCEPT !.authorizationModelId = Malformed],
     [Params EXCEPT !.telemetry = Only({"no.attribute"})],
     WithCredentials(ApiToken(Unset)),
     WithCredentials([method |-> "none", config |-> Unset]),
     WithCredentials(ClientCredentials(Unset, Unset))}}

MCScenarios == Tokens \cup Sharing \cup Fixed \cup Written \cup Emptied \cup Unusual
=============================================================================
