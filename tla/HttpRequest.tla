----------------------------- MODULE HttpRequest -----------------------------
(***************************************************************************)
(* One API call from createRequestFunction to its settled promise: the     *)
(* configuration check, the retry parameters read at call time, the wait   *)
(* for the bearer token, and the loop of attemptHttpRequest with its       *)
(* backoff (src/common.ts:126-300).  Calls run concurrently; they share    *)
(* the Configuration object, which the application may write to between    *)
(* them, and nothing else.                                                 *)
(*                                                                         *)
(* The server and the network are the environment: they answer an attempt  *)
(* with a 2xx response or with one of the failures in Failures.            *)
(***************************************************************************)
EXTENDS SdkErrors

CONSTANTS
  Request,               \* the calls made
  RetryParams,           \* the retry parameters the application ever passes
  Failures,              \* the ways an attempt can fail
  TokenErrors,           \* the error objects the wait for a token can end in
  Unset,                 \* JavaScript's undefined
  RetryMaxAllowedNumber, \* SdkConstants, in attempts ...
  DefaultMinWaitInMs,    \* ... and in a unit of time of the instance's choice
  MaxBackoffTime,
  RetryHeaderMaxAllowableDuration

\* Numbers of attempts and of milliseconds.  NaN, a number to TypeScript, is left out:
\* both comparisons with maxRetry are false then (common.ts:223, 274), so that a failure
\* that may be retried would end the loop after its wait, and the call resolve with {}.
ASSUME ParamsAssumption ==
  /\ RetryParams \subseteq [maxRetry : Nat \cup {Unset}, minWaitInMs : Nat \cup {Unset}]
  /\ Unset \notin Int
  /\ Unset \notin RetryParams
ASSUME FailuresAssumption ==
  /\ Failures \subseteq Failure
  /\ Answered \notin Failures
  /\ TokenErrors \subseteq ErrorObject
ASSUME LimitsAssumption ==
  /\ RetryMaxAllowedNumber \in Nat
  /\ DefaultMinWaitInMs \in Nat \ {0}
  /\ MaxBackoffTime \in Nat
  /\ RetryHeaderMaxAllowableDuration \in Nat
  /\ DefaultMinWaitInMs <= MaxBackoffTime
  /\ MaxBackoffTime <= RetryHeaderMaxAllowableDuration

VARIABLES
  configured,     \* configuration.retryParams
  phase,          \* where the call is in its code
  overridden,     \* did the call bring retryParams of its own?
  maxRetry,       \* the two locals of createRequestFunction
  minWaitInMs,
  iterationCount, \* the local of attemptHttpRequest
  answer,         \* what the last attempt ended in; Unset before one has
  delay,          \* the last wait chosen; Unset before the first
  hinted,         \* was that wait taken from a Retry-After header?
  error           \* what the promise was rejected with

vars == <<configured, phase, overridden, maxRetry, minWaitInMs,
          iterationCount, answer, delay, hinted, error>>

Phase == {"idle", "authorizing", "sending", "sleeping", "resolved", "rejected"}
Settled(r) == phase[r] \in {"resolved", "rejected"}

-----------------------------------------------------------------------------
\* Waits

Lesser(a, b) == IF a <= b THEN a ELSE b

\* params?.field ?? 0
MaxRetryOf(params) ==
  IF params = Unset \/ params.maxRetry = Unset THEN 0 ELSE params.maxRetry
MinWaitOf(params) ==
  IF params = Unset \/ params.minWaitInMs = Unset THEN 0 ELSE params.minWaitInMs

\* configuration.isValid() as far as it concerns retries.
IsValid(params) == ~(MaxRetryOf(params) > RetryMaxAllowedNumber)

\* Mutant: any positive Retry-After is taken.
AnyPositiveDelay(d) == d > 0 /\ d <= RetryHeaderMaxAllowableDuration

IsValidRetryDelay(d) ==
  d >= DefaultMinWaitInMs /\ d <= RetryHeaderMaxAllowableDuration

\* Mutant: full jitter, drawn from the minimum wait up.
FullJitter(attempt, minWait) ==
  LET high == 2^(attempt + 1) * minWait
  IN  {Lesser(d, MaxBackoffTime) : d \in {minWait} \cup minWait .. (high - 1)}

\* calculateExponentialBackoffWithJitter: every value the random draw can give.
Backoff(attempt, minWait) ==
  LET low  == 2^attempt * minWait
      high == 2^(attempt + 1) * minWait
  IN  {Lesser(d, MaxBackoffTime) : d \in {low} \cup low .. (high - 1)}

\* parseRetryAfterHeader, asked only about a response with a retryable status.
HasHint(err) == IsRetryableStatus(err.status) /\ IsValidRetryDelay(err.retryAfter)

\* The waits that may precede the next attempt.
Delays(err, attempt, minWait) ==
  {Lesser(d, RetryHeaderMaxAllowableDuration) :
     d \in IF HasHint(err) THEN {err.retryAfter} ELSE Backoff(attempt, minWait)}

-----------------------------------------------------------------------------
Init ==
  /\ configured     \in {p \in RetryParams \cup {Unset} : IsValid(p)}
  /\ phase          = [r \in Request |-> "idle"]
  /\ overridden     = [r \in Request |-> FALSE]
  /\ maxRetry       = [r \in Request |-> 0]
  /\ minWaitInMs    = [r \in Request |-> 0]
  /\ iterationCount = [r \in Request |-> 0]
  /\ answer         = [r \in Request |-> Unset]
  /\ delay          = [r \in Request |-> Unset]
  /\ hinted         = [r \in Request |-> FALSE]
  /\ error          = [r \in Request |-> NoError]

\* The application assigns to the Configuration object it handed to the client.
Reconfigure(params) ==
  /\ configured' = params
  /\ UNCHANGED <<phase, overridden, maxRetry, minWaitInMs, iterationCount,
                 answer, delay, hinted, error>>

\* Mutant: the configuration is not validated again.
CallUnchecked(r, params) ==
  LET used == IF params # Unset THEN params ELSE configured
  IN  /\ phase[r] = "idle"
      /\ overridden'  = [overridden EXCEPT ![r] = params # Unset]
      /\ maxRetry'    = [maxRetry EXCEPT ![r] = MaxRetryOf(used)]
      /\ minWaitInMs' = [minWaitInMs EXCEPT ![r] = MinWaitOf(used)]
      /\ phase'       = [phase EXCEPT ![r] = "authorizing"]
      /\ UNCHANGED <<configured, iterationCount, answer, delay, hinted, error>>

\* createRequestFunction: params is options.retryParams, Unset when not given.
Call(r, params) ==
  LET used == IF params # Unset THEN params ELSE configured
  IN  /\ phase[r] = "idle"
      /\ IsValid(configured)
      /\ overridden'  = [overridden EXCEPT ![r] = params # Unset]
      /\ maxRetry'    = [maxRetry EXCEPT ![r] = MaxRetryOf(used)]
      /\ minWaitInMs' = [minWaitInMs EXCEPT ![r] = MinWaitOf(used)]
      /\ phase'       = [phase EXCEPT ![r] = "authorizing"]
      /\ UNCHANGED <<configured, iterationCount, answer, delay, hinted, error>>

\* configuration.isValid() throws before anything else happens.
RefuseConfiguration(r) ==
  /\ phase[r] = "idle"
  /\ ~IsValid(configured)
  /\ phase' = [phase EXCEPT ![r] = "rejected"]
  /\ error' = [error EXCEPT ![r] = ErrorOf("FgaValidationError")]
  /\ UNCHANGED <<configured, overridden, maxRetry, minWaitInMs, iterationCount,
                 answer, delay, hinted>>

\* setBearerAuthToObject is done; the loop makes its first attempt.
Authorized(r) ==
  /\ phase[r] = "authorizing"
  /\ phase'          = [phase EXCEPT ![r] = "sending"]
  /\ iterationCount' = [iterationCount EXCEPT ![r] = 1]
  /\ UNCHANGED <<configured, overridden, maxRetry, minWaitInMs, answer, delay,
                 hinted, error>>

\* The token could not be had: its error leaves the call as it is.
Unauthorized(r, e) ==
  /\ phase[r] = "authorizing"
  /\ phase' = [phase EXCEPT ![r] = "rejected"]
  /\ error' = [error EXCEPT ![r] = e]
  /\ UNCHANGED <<configured, overridden, maxRetry, minWaitInMs, iterationCount,
                 answer, delay, hinted>>

Succeed(r) ==
  /\ phase[r] = "sending"
  /\ phase'  = [phase EXCEPT ![r] = "resolved"]
  /\ answer' = [answer EXCEPT ![r] = Answered]
  /\ UNCHANGED <<configured, overridden, maxRetry, minWaitInMs, iterationCount,
                 delay, hinted, error>>

\* The failure is thrown: not retryable, or the retries are used up.
Throw(r, err) ==
  /\ phase[r] = "sending"
  /\ ~CheckIfRetryableError(err, iterationCount[r], maxRetry[r])
  /\ phase'  = [phase EXCEPT ![r] = "rejected"]
  /\ answer' = [answer EXCEPT ![r] = err]
  /\ error'  = [error EXCEPT ![r] = ErrorOf(ErrorClassOf(err))]
  /\ UNCHANGED <<configured, overridden, maxRetry, minWaitInMs, iterationCount,
                 delay, hinted>>

\* The failure is retryable: choose the wait and set the timer.
Sleep(r, err) ==
  /\ phase[r] = "sending"
  /\ CheckIfRetryableError(err, iterationCount[r], maxRetry[r])
  /\ \E d \in Delays(err, iterationCount[r], minWaitInMs[r]) :
       delay' = [delay EXCEPT ![r] = d]
  /\ phase'  = [phase EXCEPT ![r] = "sleeping"]
  /\ answer' = [answer EXCEPT ![r] = err]
  /\ hinted' = [hinted EXCEPT ![r] = HasHint(err)]
  /\ UNCHANGED <<configured, overridden, maxRetry, minWaitInMs, iterationCount,
                 error>>

\* Mutant: the last retry is slept for and not made.
LoopsOneLess(n, m) == n < m

\* while (iterationCount < config.maxRetry + 1)
LoopsAgain(n, m) == n < m + 1

\* Mutants: a retry is not counted; a timer outlives its call.
WakeUncounted(r) ==
  /\ phase[r] = "sleeping"
  /\ phase' = [phase EXCEPT ![r] = "sending"]
  /\ UNCHANGED <<configured, overridden, maxRetry, minWaitInMs, iterationCount,
                 answer, delay, hinted, error>>
WakeAfterSettled(r) ==
  /\ phase[r] \in {"sleeping", "resolved"}
  /\ iterationCount[r] <= maxRetry[r]
  /\ phase'          = [phase EXCEPT ![r] = "sending"]
  /\ iterationCount' = [iterationCount EXCEPT ![r] = @ + 1]
  /\ UNCHANGED <<configured, overridden, maxRetry, minWaitInMs, answer, delay,
                 hinted, error>>

\* The timer fires: the next attempt, or the end of the loop, after which the
\* function returns nothing and the caller is resolved with an empty object.
Wake(r) ==
  /\ phase[r] = "sleeping"
  /\ IF LoopsAgain(iterationCount[r], maxRetry[r])
     THEN /\ phase'          = [phase EXCEPT ![r] = "sending"]
          /\ iterationCount' = [iterationCount EXCEPT ![r] = @ + 1]
     ELSE /\ phase' = [phase EXCEPT ![r] = "resolved"]
          /\ UNCHANGED iterationCount
  /\ UNCHANGED <<configured, overridden, maxRetry, minWaitInMs, answer, delay,
                 hinted, error>>

\* The answer to an attempt, whatever it is.
Answer(r) ==
  \/ Succeed(r)
  \/ \E err \in Failures : Throw(r, err) \/ Sleep(r, err)

Authorize(r) ==
  \/ Authorized(r)
  \/ \E e \in TokenErrors : Unauthorized(r, e)

Next ==
  \/ \E p \in RetryParams \cup {Unset} : Reconfigure(p)
  \/ \E r \in Request :
       \/ \E p \in RetryParams \cup {Unset} : Call(r, p)
       \/ RefuseConfiguration(r)
       \/ Authorize(r)
       \/ Answer(r)
       \/ Wake(r)

\* The runtime fires every timer, the token exchange comes back, and axios
\* settles every attempt (its timeout does, base.ts:45).  Which answer comes is
\* the server's choice; whether calls are made is the application's.
Fairness == \A r \in Request : WF_vars(Authorize(r)) /\ WF_vars(Answer(r)) /\ WF_vars(Wake(r))

Spec     == Init /\ [][Next]_vars
FairSpec == Spec /\ Fairness
-----------------------------------------------------------------------------
\* Every variable stays in its range (locals of createRequestFunction and
\* attemptHttpRequest, common.ts:283-298 and 244).
TypeOK ==
  /\ configured     \in RetryParams \cup {Unset}
  /\ phase          \in [Request -> Phase]
  /\ overridden     \in [Request -> BOOLEAN]
  /\ maxRetry       \in [Request -> Nat]
  /\ minWaitInMs    \in [Request -> Nat]
  /\ iterationCount \in [Request -> Nat]
  /\ answer         \in [Request -> Failures \cup {Answered, Unset}]
  /\ delay          \in [Request -> Int \cup {Unset}]
  /\ hinted         \in [Request -> BOOLEAN]
  /\ error          \in [Request -> ErrorObject \cup {NoError}]

\* A call puts its request on the wire at most maxRetry + 1 times, whichever
\* failures it meets.  Two tests bound the loop, the one that classifies a
\* failure (common.ts:210,223) and the loop's own (common.ts:274); the limit is
\* the one read when the call was made (common.ts:284).
AttemptBudget == \A r \in Request : iterationCount[r] <= maxRetry[r] + 1

\* A call that brings no retryParams of its own never exceeds the SDK's limit of
\* retries, even when the application writes a larger number into the
\* Configuration object after the client was built (common.ts:281,
\* configuration.ts:183).
ConfiguredLimit ==
  \A r \in Request : ~overridden[r] => iterationCount[r] <= RetryMaxAllowedNumber + 1

\* A fulfilled promise means that the server answered the last attempt with
\* success: the end of the loop of attemptHttpRequest, where it returns nothing
\* and common.ts:299-302 would make {} of that, is never reached.
NeverResolvesEmpty == \A r \in Request : phase[r] = "resolved" => answer[r] = Answered

\* A failure that may be retried is thrown only when every permitted attempt has
\* been made (common.ts:210-213, 222-230).
GivesUpOnlyWhenSpent ==
  \A r \in Request :
    phase[r] = "rejected" /\ answer[r] # Unset /\ MayBeRetried(answer[r])
      => iterationCount[r] = maxRetry[r] + 1

\* What holds at each place of a call's code; the conjunction of these is
\* inductive and implies the four invariants above.
NotYetSent == \A r \in Request :
  phase[r] \in {"idle", "authorizing"} => iterationCount[r] = 0 /\ answer[r] = Unset
WhileSending == \A r \in Request :
  phase[r] = "sending" => iterationCount[r] \in 1 .. (maxRetry[r] + 1)
WhileSleeping == \A r \in Request :
  phase[r] = "sleeping" =>
    iterationCount[r] \in 1 .. maxRetry[r] /\ MayBeRetried(answer[r])
OnceResolved == \A r \in Request :
  phase[r] = "resolved" =>
    iterationCount[r] \in 1 .. (maxRetry[r] + 1) /\ answer[r] = Answered
OnceRejected == \A r \in Request :
  phase[r] = "rejected" =>
    /\ iterationCount[r] <= maxRetry[r] + 1
    /\ answer[r] # Unset /\ MayBeRetried(answer[r]) => iterationCount[r] = maxRetry[r] + 1
LimitRead == \A r \in Request :
  ~overridden[r] => maxRetry[r] <= RetryMaxAllowedNumber

\* The loop bounds of attemptHttpRequest and checkIfRetryableError agree at every
\* place of the code (common.ts:210, 223, 274): the inductive invariant.
LoopInvariant ==
  /\ TypeOK
  /\ NotYetSent
  /\ WhileSending
  /\ WhileSleeping
  /\ OnceResolved
  /\ OnceRejected
  /\ LimitRead

\* Waits stay in bounds: none is longer than the longest Retry-After accepted; one
\* taken from a Retry-After header is not shorter than the SDK's minimum; one
\* computed is at least the call's own minimum, doubled for every attempt, up to
\* the cap, and never above the cap (common.ts:126-140, 261-272).
WaitBounds ==
  \A r \in Request : phase[r] = "sleeping" =>
    /\ delay[r] <= RetryHeaderMaxAllowableDuration
    /\ hinted[r]  => delay[r] >= DefaultMinWaitInMs
    /\ ~hinted[r] => /\ delay[r] <= MaxBackoffTime
                     /\ delay[r] >= Lesser(2^iterationCount[r] * minWaitInMs[r], MaxBackoffTime)

\* Backoff backs off: of two computed waits in a row the second is never the
\* shorter one, although each is drawn at random (common.ts:126-131).
BackoffNeverShrinks ==
  [][\A r \in Request :
       /\ phase[r] = "sending" /\ phase'[r] = "sleeping"
       /\ delay[r] # Unset /\ ~hinted[r] /\ ~hinted'[r]
       => delay'[r] >= delay[r]]_vars

\* The request is sent again only after a failure that may be retried: never after
\* a success, never after a 4xx or a 501, never once the promise has settled
\* (common.ts:216-233, 249, 257).
ResendsOnlyRetryable ==
  [][\A r \in Request :
       iterationCount'[r] # iterationCount[r] =>
         /\ ~Settled(r)
         /\ iterationCount[r] > 0 => MayBeRetried(answer[r])]_vars

\* Every call made settles: the retries run out, and every wait ends.
EveryCallSettles == \A r \in Request : phase[r] = "authorizing" ~> Settled(r)

\* The retry loop keeps what RemoteCall promises to its callers.
PromiseOf ==
  [idle |-> "none", authorizing |-> "pending", sending |-> "pending",
   sleeping |-> "pending", resolved |-> "fulfilled", rejected |-> "rejected"]
Promise == [r \in Request |-> PromiseOf[phase[r]]]

R == INSTANCE RemoteCall
       WITH promise <- Promise, sent <- iterationCount, retries <- maxRetry,
            Retries <- {MaxRetryOf(p) : p \in RetryParams \cup {Unset}}

\* Every behaviour of the loop is one of RemoteCall (common.ts:236-300).
ImplementsRemoteCall == R!Spec
=============================================================================
