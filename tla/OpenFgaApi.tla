------------------------------ MODULE OpenFgaApi ------------------------------
(***************************************************************************)
(* The requests of src/api.ts: OpenFgaApiAxiosParamCreator, one operator   *)
(* for each endpoint.  An operator checks its required parameters and      *)
(* gives the method, the path, the query and the body of the request, or   *)
(* refuses.  Requests are made when the method is called, before anything  *)
(* is awaited, and are not touched again.                                  *)
(*                                                                         *)
(* A path is the sequence of its segments, a query the set of its pairs of *)
(* name and value.  Headers and options.query are left out.                *)
(***************************************************************************)
EXTENDS SdkErrors

CONSTANTS
  Unset, \* null or undefined
  Empty  \* the empty string, which assertParamExists takes for a value

ASSUME EmptyAssumption == Unset # Empty

\* What a parameter creator returns, or what it throws.
Accepted(method, path, query, data) ==
  [thrown |-> NoError, method |-> method, path |-> path, query |-> query, data |-> data]
Refusal(class) ==
  [thrown |-> ErrorOf(class), method |-> "none", path |-> <<>>, query |-> {}, data |-> Unset]

\* assertParamExists, for each of the required parameters.
IsMissing(params) == \E k \in DOMAIN params : params[k] = Unset

\* The parameters of a query that are not undefined.
Query(params) == {p \in params : p[2] # Unset}

Get(required, path, query) ==
  IF IsMissing(required) THEN Refusal("FgaRequiredParamError")
  ELSE Accepted("GET", path, Query(query), Unset)
Send(method, required, path, body) ==
  IF IsMissing(required) THEN Refusal("FgaRequiredParamError")
  ELSE Accepted(method, path, {}, body)

\* A POST to one of the verbs of a store.
Post(storeId, verb, body) ==
  Send("POST", <<storeId, body>>, <<"stores", storeId, verb>>, body)
-----------------------------------------------------------------------------
\* Stores

listStores(pageSize, continuationToken, name) ==
  Get(<<>>, <<"stores">>, {<<"page_size", pageSize>>,
                         <<"continuation_token", continuationToken>>, <<"name", name>>})
createStore(body)    == Send("POST", <<body>>, <<"stores">>, body)
getStore(storeId)    == Get(<<storeId>>, <<"stores", storeId>>, {})

\* Mutant: GET instead of DELETE.
deleteStoreAsGet(storeId) == Get(<<storeId>>, <<"stores", storeId>>, {})
deleteStore(storeId) == Send("DELETE", <<storeId>>, <<"stores", storeId>>, Unset)

\* Authorization models

readAuthorizationModels(storeId, pageSize, continuationToken) ==
  Get(<<storeId>>, <<"stores", storeId, "authorization-models">>,
      {<<"page_size", pageSize>>, <<"continuation_token", continuationToken>>})
readAuthorizationModel(storeId, id) ==
  Get(<<storeId, id>>, <<"stores", storeId, "authorization-models", id>>, {})
writeAuthorizationModel(storeId, body) == Post(storeId, "authorization-models", body)

\* Relationship tuples

readChanges(storeId, type, pageSize, continuationToken, startTime) ==
  Get(<<storeId>>, <<"stores", storeId, "changes">>,
      {<<"type", type>>, <<"page_size", pageSize>>,
       <<"continuation_token", continuationToken>>, <<"start_time", startTime>>})
read(storeId, body)  == Post(storeId, "read", body)
write(storeId, body) == Post(storeId, "write", body)

\* Relationship queries

check(storeId, body)       == Post(storeId, "check", body)
batchCheck(storeId, body)  == Post(storeId, "batch-check", body)
expand(storeId, body)      == Post(storeId, "expand", body)
listObjects(storeId, body) == Post(storeId, "list-objects", body)
listUsers(storeId, body)   == Post(storeId, "list-users", body)

\* Assertions

readAssertions(storeId, authorizationModelId) ==
  Get(<<storeId, authorizationModelId>>,
      <<"stores", storeId, "assertions", authorizationModelId>>, {})
writeAssertions(storeId, authorizationModelId, body) ==
  Send("PUT", <<storeId, authorizationModelId, body>>,
       <<"stores", storeId, "assertions", authorizationModelId>>, body)
=============================================================================
