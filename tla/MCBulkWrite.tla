---------------------------- MODULE MCBulkWrite ----------------------------
(***************************************************************************)
(* Instances of BulkWrite for TLC.  Waits are of no interest here: every   *)
(* call is made with a minimum wait of 0.                                  *)
(***************************************************************************)
EXTENDS BulkWrite

CONSTANTS t1, t2, t3, t4, MaxRetry, s1, m1, bad

MCTuple       == {t1, t2, t3, t4}
MCRetryParams == {[maxRetry |-> MaxRetry, minWaitInMs |-> 0]}

MCWrites    == <<t1, t2, t3>>
MCTwoWrites == <<t1, t2>>
MCDeletes   == <<t1>>

MCBothPolicies == {[onDuplicate |-> "error", onMissing |-> "error"],
                   [onDuplicate |-> "ignore", onMissing |-> "ignore"]}
\* Ids that can be used, with a model id and without; a malformed model id; no store id.
MCIds ==
  {[storeId |-> s1, authorizationModelId |-> m1],
   [storeId |-> s1, authorizationModelId |-> bad],
   [storeId |-> Unset, authorizationModelId |-> Unset]}
MCGoodIds == {[storeId |-> s1, authorizationModelId |-> Unset]}
MCMalformed == {bad}

MCStoresOther == {{t4}, {t1}}

Status(s) == [axios |-> TRUE, status |-> s, retryAfter |-> 0]
MCUnauthorized == {Status(401)}
MCRejections   == {Status(401), Status(500)}
MCTokenErrors  == {ErrorOf("FgaApiAuthenticationError")}
MCIssuerErrors == {RenamedExchangeError(ErrorOf("FgaApiNotFoundError"))}
=============================================================================
