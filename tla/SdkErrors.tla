------------------------------ MODULE SdkErrors ------------------------------
(***************************************************************************)
(* The failures an HTTP attempt can end in and the error classes the SDK   *)
(* turns them into: src/errors.ts and the classification of src/common.ts. *)
(* Pure operators, shared by every module that issues a request.           *)
(*                                                                         *)
(* A failure is what axios rejects with, reduced to what the code reads:   *)
(*   axios       err.isAxiosError === true                                 *)
(*   status      err.response.status, 0 when there is no response          *)
(*   retryAfter  the wait the Retry-After header asks for, in ms; 0 when   *)
(*               the header is absent or is neither a number nor a date    *)
(***************************************************************************)
EXTENDS Integers

Failure == [axios : BOOLEAN, status : Nat, retryAfter : Int]

\* An answer that is no failure: the 2xx response axios resolves with.
Answered == [axios |-> TRUE, status |-> 200, retryAfter |-> 0]

\* The exported classes; "Error" is a plain Error thrown by a library.
Superclass ==
  [Error                        |-> "none",
   FgaError                     |-> "Error",
   FgaApiError                  |-> "FgaError",
   FgaApiValidationError        |-> "FgaApiError",
   FgaApiNotFoundError          |-> "FgaApiError",
   FgaApiRateLimitExceededError |-> "FgaApiError",
   FgaApiInternalError          |-> "FgaApiError",
   FgaApiAuthenticationError    |-> "FgaError",
   FgaValidationError           |-> "FgaError",
   FgaRequiredParamError        |-> "FgaValidationError"]

ErrorClass == DOMAIN Superclass

\* `x instanceof k`: x's class is k or has k above it; the tree has depth four.
InstanceOf(x, k) ==
  LET up(c) == IF c \in ErrorClass THEN Superclass[c] ELSE "none"
      c     == x.class
  IN  k \in {c, up(c), up(up(c)), up(up(up(c)))}

\* An error object: the class its prototype chain starts from, which instanceof
\* consults, and the name it displays.
ErrorObject == [class : ErrorClass, name : ErrorClass]
ErrorOf(c)  == [class |-> c, name |-> c]
NoError     == [class |-> "none", name |-> "none"]

IsNetworkError(err)     == err.status = 0
IsRetryableStatus(s)    == s = 429 \/ (s >= 500 /\ s # 501)
MayBeRetried(err)       == err.axios /\ (IsNetworkError(err) \/ IsRetryableStatus(err.status))

\* The class a failure is thrown as once it is not, or no longer, retried.
ErrorClassOf(err) ==
  CASE ~err.axios \/ IsNetworkError(err)            -> "FgaError"
    [] err.axios /\ err.status \in {400, 422}       -> "FgaApiValidationError"
    [] err.axios /\ err.status \in {401, 403}       -> "FgaApiAuthenticationError"
    [] err.axios /\ err.status = 404                -> "FgaApiNotFoundError"
    [] err.axios /\ err.status = 429                -> "FgaApiRateLimitExceededError"
    [] err.axios /\ err.status >= 500 /\ err.status # 501 -> "FgaApiInternalError"
    [] OTHER                                        -> "FgaApiError"

\* Mutant: retries whatever the failure is.
RetriesEverything(err, iterationCount, maxRetry) ==
  ~(iterationCount > maxRetry)

\* checkIfRetryableError: retry while the attempts made do not exceed maxRetry.
CheckIfRetryableError(err, iterationCount, maxRetry) ==
  MayBeRetried(err) /\ ~(iterationCount > maxRetry)

\* The catch of refreshAccessToken: an FgaApiError from the token issuer gets
\* the name and the constructor property of FgaApiAuthenticationError; its
\* prototype chain, which instanceof walks, stays what it was.
RenamedExchangeError(error) ==
  IF InstanceOf(error, "FgaApiError")
  THEN [error EXCEPT !.name = "FgaApiAuthenticationError"]
  ELSE error
=============================================================================
