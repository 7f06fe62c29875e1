---------------------------- MODULE MCHttpRequest ----------------------------
(***************************************************************************)
(* Instances of HttpRequest for TLC.  One unit of time stands for 50 ms    *)
(* scaled so that the order of the SDK's constants is kept: half the       *)
(* minimum wait < minimum wait (2) < cap on the backoff (12) < longest     *)
(* Retry-After (20).                                                       *)
(***************************************************************************)
EXTENDS HttpRequest

CONSTANTS NumRequests, MaxRetries, MinWaits

MCRequest == 1 .. NumRequests

\* Retry parameters with either member missing or present.
MCRetryParams == [maxRetry : MaxRetries \cup {Unset}, minWaitInMs : MinWaits \cup {Unset}]

\* An application that never mentions retries.
MCNoRetryParams == {}

Status(s, w) == [axios |-> TRUE, status |-> s, retryAfter |-> w]

\* Not an axios error; no response; the final statuses; the retryable ones with a
\* Retry-After that is absent, too short, at either bound, or too long.
MCFailures ==
  {[axios |-> FALSE, status |-> 0, retryAfter |-> 0], Status(0, 0)}
    \cup {Status(s, 0) : s \in {400, 401, 404, 409, 501}}
    \cup {Status(s, w) : s \in {429, 500}, w \in {0, 1, 2, 20, 21}}

MCTokenErrors == {ErrorOf("FgaApiAuthenticationError"),
                  RenamedExchangeError(ErrorOf("FgaApiNotFoundError"))}

-----------------------------------------------------------------------------
\* What the documentation says and the code does not do.

\* README.md:94: "The `OpenFgaClient` will by default retry API requests up to 3
\* times on 429 and 5xx errors."  For an application that passes no retryParams.
DocumentedDefaultRetry ==
  \A r \in Request :
    phase[r] = "rejected" /\ answer[r] # Unset /\ IsRetryableStatus(answer[r].status)
      => iterationCount[r] > 1
=============================================================================
