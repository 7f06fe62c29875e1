-------------------------- MODULE HttpRequestProofs --------------------------
(***************************************************************************)
(* Theorems about HttpRequest, for every set of calls, of retry parameters *)
(* and of failures, and every value of the SDK's constants.                *)
(***************************************************************************)
EXTENDS HttpRequest, TLAPS

-----------------------------------------------------------------------------
\* Lemmas about the operators of the loop.

\* The limit and the minimum wait read from retry parameters are numbers.
LEMMA ParamsType ==
  ASSUME NEW p \in RetryParams \cup {Unset}
  PROVE  MaxRetryOf(p) \in Nat /\ MinWaitOf(p) \in Nat
  BY ParamsAssumption DEF MaxRetryOf, MinWaitOf

\* A wait computed after attempt n is at least the lower bound of that attempt and
\* at most the cap.  (That 2^n is an integer is all the provers know of it.)
LEMMA BackoffBounds ==
  ASSUME NEW n \in Nat, NEW m \in Nat, NEW d \in Backoff(n, m)
  PROVE  /\ d \in Int
         /\ d <= MaxBackoffTime
         /\ d >= Lesser(2^n * m, MaxBackoffTime)
<1> DEFINE low == 2^n * m  high == 2^(n + 1) * m
<1>1. low \in Int /\ high \in Int
  <2>1. 2^n \in Int /\ 2^(n + 1) \in Int
    OBVIOUS
  <2> QED BY <2>1
<1>2. PICK x \in {low} \cup low .. (high - 1) : d = Lesser(x, MaxBackoffTime)
  BY DEF Backoff
<1> HIDE DEF low, high
<1>3. x \in Int /\ x >= low
  BY <1>1, <1>2
<1>4. d \in Int /\ d <= MaxBackoffTime /\ d >= Lesser(low, MaxBackoffTime)
  BY <1>1, <1>2, <1>3, LimitsAssumption DEF Lesser
<1> QED BY <1>4 DEF low

\* The wait before the next attempt is an integer, and in the bounds of the source
\* it was taken from.
LEMMA DelaysBounds ==
  ASSUME NEW err \in Failure, NEW n \in Nat, NEW m \in Nat, NEW d \in Delays(err, n, m)
  PROVE  /\ d \in Int
         /\ d <= RetryHeaderMaxAllowableDuration
         /\ HasHint(err) => d >= DefaultMinWaitInMs
         /\ ~HasHint(err) => d <= MaxBackoffTime /\ d >= Lesser(2^n * m, MaxBackoffTime)
<1>1. CASE HasHint(err)
  <2>1. /\ err.retryAfter \in Int
        /\ d = Lesser(err.retryAfter, RetryHeaderMaxAllowableDuration)
        /\ err.retryAfter >= DefaultMinWaitInMs
        /\ err.retryAfter <= RetryHeaderMaxAllowableDuration
    BY <1>1 DEF Delays, HasHint, IsValidRetryDelay, Failure
  <2> QED BY <1>1, <2>1, LimitsAssumption DEF Lesser
<1>2. CASE ~HasHint(err)
  <2>1. PICK x \in Backoff(n, m) : d = Lesser(x, RetryHeaderMaxAllowableDuration)
    BY <1>2 DEF Delays
  <2>2. /\ x \in Int
        /\ x <= MaxBackoffTime
        /\ x >= Lesser(2^n * m, MaxBackoffTime)
    BY BackoffBounds
  <2>3. d = x
    BY <2>1, <2>2, LimitsAssumption DEF Lesser
  <2> QED BY <1>2, <2>2, <2>3, LimitsAssumption
<1> QED BY <1>1, <1>2

-----------------------------------------------------------------------------
\* The inductive invariant.

LEMMA LoopInvariantInit == Init => LoopInvariant
<1> SUFFICES ASSUME Init PROVE LoopInvariant
  OBVIOUS
<1>1. TypeOK
  BY ParamsAssumption DEF Init, TypeOK, Phase
<1>2. NotYetSent /\ WhileSending /\ WhileSleeping /\ OnceResolved /\ OnceRejected
  BY DEF Init, NotYetSent, WhileSending, WhileSleeping, OnceResolved, OnceRejected
<1>3. LimitRead
  BY LimitsAssumption DEF Init, LimitRead
<1> QED BY <1>1, <1>2, <1>3 DEF LoopInvariant

LEMMA LoopInvariantStep == LoopInvariant /\ [Next]_vars => LoopInvariant'
<1> SUFFICES ASSUME LoopInvariant, [Next]_vars PROVE LoopInvariant'
  OBVIOUS
<1> USE ParamsAssumption, FailuresAssumption, LimitsAssumption
<1> USE DEF LoopInvariant, Phase
<1>1. ASSUME NEW p \in RetryParams \cup {Unset}, Reconfigure(p)
      PROVE  LoopInvariant'
  BY <1>1 DEF Reconfigure, TypeOK, NotYetSent, WhileSending, WhileSleeping,
              OnceResolved, OnceRejected, LimitRead
<1>2. ASSUME NEW r \in Request, NEW p \in RetryParams \cup {Unset}, Call(r, p)
      PROVE  LoopInvariant'
  <2>1. PICK used \in RetryParams \cup {Unset} :
           /\ maxRetry'    = [maxRetry EXCEPT ![r] = MaxRetryOf(used)]
           /\ minWaitInMs' = [minWaitInMs EXCEPT ![r] = MinWaitOf(used)]
           /\ p = Unset => used = configured
    BY <1>2 DEF Call, TypeOK
  <2>2. MaxRetryOf(used) \in Nat /\ MinWaitOf(used) \in Nat
    BY ParamsType
  <2>3. p = Unset => MaxRetryOf(used) <= RetryMaxAllowedNumber
    BY <1>2, <2>1, <2>2 DEF Call, IsValid
  <2>4. TypeOK'
    BY <1>2, <2>1, <2>2 DEF Call, TypeOK
  <2>5. NotYetSent' /\ WhileSending' /\ WhileSleeping' /\ OnceResolved' /\ OnceRejected'
    BY <1>2, <2>1 DEF Call, TypeOK, NotYetSent, WhileSending, WhileSleeping,
                      OnceResolved, OnceRejected
  <2>6. LimitRead'
    BY <1>2, <2>1, <2>3 DEF Call, TypeOK, LimitRead
  <2> QED BY <2>4, <2>5, <2>6
<1>3. ASSUME NEW r \in Request, RefuseConfiguration(r)
      PROVE  LoopInvariant'
  <2>1. ErrorOf("FgaValidationError") \in ErrorObject
    BY DEF ErrorOf, ErrorObject, ErrorClass, Superclass
  <2> QED
    BY <1>3, <2>1 DEF RefuseConfiguration, TypeOK, NotYetSent, WhileSending,
         WhileSleeping, OnceResolved, OnceRejected, LimitRead
<1>4. ASSUME NEW r \in Request, Authorized(r)
      PROVE  LoopInvariant'
  BY <1>4 DEF Authorized, TypeOK, NotYetSent, WhileSending, WhileSleeping,
              OnceResolved, OnceRejected, LimitRead
<1>5. ASSUME NEW r \in Request, NEW e \in TokenErrors, Unauthorized(r, e)
      PROVE  LoopInvariant'
  BY <1>5 DEF Unauthorized, TypeOK, NotYetSent, WhileSending, WhileSleeping,
              OnceResolved, OnceRejected, LimitRead
<1>6. ASSUME NEW r \in Request, Succeed(r)
      PROVE  LoopInvariant'
  BY <1>6 DEF Succeed, TypeOK, NotYetSent, WhileSending, WhileSleeping,
              OnceResolved, OnceRejected, LimitRead
<1>7. ASSUME NEW r \in Request, NEW err \in Failures, Throw(r, err)
      PROVE  LoopInvariant'
  <2>1. ErrorOf(ErrorClassOf(err)) \in ErrorObject
    BY DEF ErrorClassOf, ErrorOf, ErrorObject, ErrorClass, Superclass
  <2>2. TypeOK'
    BY <1>7, <2>1 DEF Throw, TypeOK
  <2>3. MayBeRetried(err) => iterationCount[r] = maxRetry[r] + 1
    BY <1>7 DEF Throw, TypeOK, WhileSending, CheckIfRetryableError
  <2>4. OnceRejected'
    BY <1>7, <2>3 DEF Throw, TypeOK, WhileSending, OnceRejected
  <2> QED
    BY <1>7, <2>2, <2>4 DEF Throw, TypeOK, NotYetSent, WhileSending, WhileSleeping,
         OnceResolved, LimitRead
<1>8. ASSUME NEW r \in Request, NEW err \in Failures, Sleep(r, err)
      PROVE  LoopInvariant'
  <2>1. PICK d \in Delays(err, iterationCount[r], minWaitInMs[r]) :
           delay' = [delay EXCEPT ![r] = d]
    BY <1>8 DEF Sleep
  <2>2. d \in Int
    BY DelaysBounds DEF TypeOK
  <2>3. HasHint(err) \in BOOLEAN
    BY DEF HasHint
  <2>4. TypeOK'
    BY <1>8, <2>1, <2>2, <2>3 DEF Sleep, TypeOK
  <2>5. MayBeRetried(err) /\ iterationCount[r] <= maxRetry[r]
    BY <1>8 DEF Sleep, TypeOK, CheckIfRetryableError
  <2>6. WhileSleeping'
    BY <1>8, <2>5 DEF Sleep, TypeOK, WhileSending, WhileSleeping
  <2> QED
    BY <1>8, <2>4, <2>6 DEF Sleep, TypeOK, NotYetSent, WhileSending, OnceResolved,
         OnceRejected, LimitRead
<1>9. ASSUME NEW r \in Request, Wake(r)
      PROVE  LoopInvariant'
  <2>1. LoopsAgain(iterationCount[r], maxRetry[r])
    BY <1>9 DEF Wake, TypeOK, WhileSleeping, LoopsAgain
  <2>2. TypeOK'
    BY <1>9, <2>1 DEF Wake, TypeOK
  <2> QED
    BY <1>9, <2>1, <2>2 DEF Wake, TypeOK, NotYetSent, WhileSending, WhileSleeping,
         OnceResolved, OnceRejected, LimitRead
<1>10. CASE UNCHANGED vars
  BY <1>10 DEF vars, TypeOK, NotYetSent, WhileSending, WhileSleeping,
               OnceResolved, OnceRejected, LimitRead
<1> QED
  BY <1>1, <1>2, <1>3, <1>4, <1>5, <1>6, <1>7, <1>8, <1>9, <1>10
  DEF Next, Authorize, Answer

-----------------------------------------------------------------------------
\* What the invariant gives.

\* In every reachable state the loop is where its bounds say it is: the inductive
\* invariant of attemptHttpRequest (common.ts:236-275) holds for every number of
\* calls, every retry parameter and every answer.
THEOREM LoopCorrect == Spec => []LoopInvariant
  BY LoopInvariantInit, LoopInvariantStep, PTL DEF Spec

\* Type correctness of the retry loop's variables.
THEOREM TypeCorrect == Spec => []TypeOK
  BY LoopCorrect, PTL DEF LoopInvariant

\* The request of a call goes out at most maxRetry + 1 times, for every maxRetry.
THEOREM AttemptsAreBounded == Spec => []AttemptBudget
<1>1. LoopInvariant => AttemptBudget
  BY DEF LoopInvariant, AttemptBudget, TypeOK, Phase, NotYetSent, WhileSending,
         WhileSleeping, OnceResolved, OnceRejected
<1> QED BY <1>1, LoopCorrect, PTL

\* A call without retryParams of its own stays within the SDK's limit, whatever is
\* written into the Configuration object while the client is in use.
THEOREM LimitIsEnforced == Spec => []ConfiguredLimit
<1>1. LoopInvariant => ConfiguredLimit
  <2> SUFFICES ASSUME LoopInvariant, NEW r \in Request, ~overridden[r]
               PROVE  iterationCount[r] <= RetryMaxAllowedNumber + 1
    BY DEF ConfiguredLimit
  <2>1. maxRetry[r] \in Nat /\ iterationCount[r] \in Nat /\ phase[r] \in Phase
    BY DEF LoopInvariant, TypeOK
  <2>2. maxRetry[r] <= RetryMaxAllowedNumber
    BY DEF LoopInvariant, LimitRead
  <2>3. iterationCount[r] <= maxRetry[r] + 1
    BY <2>1 DEF LoopInvariant, Phase, NotYetSent, WhileSending, WhileSleeping,
                OnceResolved, OnceRejected
  <2> QED BY <2>1, <2>2, <2>3, LimitsAssumption
<1> QED BY <1>1, LoopCorrect, PTL

\* No promise is fulfilled without a response: the code after the loop, which would
\* return undefined and make an empty success of it, is unreachable.
THEOREM NoEmptySuccess == Spec => []NeverResolvesEmpty
<1>1. LoopInvariant => NeverResolvesEmpty
  BY DEF LoopInvariant, OnceResolved, NeverResolvesEmpty
<1> QED BY <1>1, LoopCorrect, PTL

\* A failure that may be retried is thrown only after maxRetry + 1 attempts.
THEOREM RetriesAreUsedUp == Spec => []GivesUpOnlyWhenSpent
<1>1. LoopInvariant => GivesUpOnlyWhenSpent
  BY DEF LoopInvariant, OnceRejected, GivesUpOnlyWhenSpent
<1> QED BY <1>1, LoopCorrect, PTL

\* Every wait is within the bounds of the source it was taken from.
THEOREM WaitsAreBounded == Spec => []WaitBounds
<1>1. Init => WaitBounds
  BY DEF Init, WaitBounds
<1>2. LoopInvariant /\ WaitBounds /\ [Next]_vars => WaitBounds'
  <2> SUFFICES ASSUME TypeOK, WaitBounds, [Next]_vars PROVE WaitBounds'
    BY DEF LoopInvariant
  <2>1. ASSUME NEW r \in Request, NEW err \in Failures, Sleep(r, err)
        PROVE  WaitBounds'
    <3>1. PICK d \in Delays(err, iterationCount[r], minWaitInMs[r]) :
             delay' = [delay EXCEPT ![r] = d]
      BY <2>1 DEF Sleep
    <3>2. /\ err \in Failure
          /\ iterationCount[r] \in Nat
          /\ minWaitInMs[r] \in Nat
      BY FailuresAssumption DEF TypeOK
    <3>3. /\ d <= RetryHeaderMaxAllowableDuration
          /\ HasHint(err) => d >= DefaultMinWaitInMs
          /\ ~HasHint(err) =>
               /\ d <= MaxBackoffTime
               /\ d >= Lesser(2^iterationCount[r] * minWaitInMs[r], MaxBackoffTime)
      BY <3>2, DelaysBounds
    <3>4. /\ delay'[r] = d
          /\ hinted'[r] = HasHint(err)
          /\ iterationCount' = iterationCount
          /\ minWaitInMs' = minWaitInMs
      BY <2>1, <3>1 DEF Sleep, TypeOK
    <3>5. \A q \in Request \ {r} :
            delay'[q] = delay[q] /\ hinted'[q] = hinted[q] /\ phase'[q] = phase[q]
      BY <2>1, <3>1 DEF Sleep, TypeOK
    <3> QED BY <3>3, <3>4, <3>5 DEF WaitBounds
  <2>2. ASSUME NEW r \in Request, NEW p \in RetryParams \cup {Unset}, Call(r, p)
        PROVE  WaitBounds'
    <3>1. \A q \in Request \ {r} : minWaitInMs'[q] = minWaitInMs[q] /\ phase'[q] = phase[q]
      BY <2>2 DEF Call, TypeOK
    <3>2. phase'[r] = "authorizing"
      BY <2>2 DEF Call, TypeOK
    <3>3. iterationCount' = iterationCount /\ delay' = delay /\ hinted' = hinted
      BY <2>2 DEF Call
    <3> QED BY <3>1, <3>2, <3>3 DEF WaitBounds
  <2>3. ASSUME NEW r \in Request,
               \/ RefuseConfiguration(r)
               \/ Authorized(r)
               \/ \E e \in TokenErrors : Unauthorized(r, e)
               \/ Succeed(r)
               \/ \E err \in Failures : Throw(r, err)
               \/ Wake(r)
        PROVE  WaitBounds'
    <3>1. minWaitInMs' = minWaitInMs /\ delay' = delay /\ hinted' = hinted
      BY <2>3 DEF RefuseConfiguration, Authorized, Unauthorized, Succeed, Throw, Wake
    <3>2. phase'[r] # "sleeping"
      BY <2>3 DEF RefuseConfiguration, Authorized, Unauthorized, Succeed, Throw, Wake,
                  TypeOK
    <3>3. \A q \in Request \ {r} :
            phase'[q] = phase[q] /\ iterationCount'[q] = iterationCount[q]
      BY <2>3 DEF RefuseConfiguration, Authorized, Unauthorized, Succeed, Throw, Wake,
                  TypeOK
    <3> QED BY <3>1, <3>2, <3>3 DEF WaitBounds
  <2>4. ASSUME NEW p \in RetryParams \cup {Unset}, Reconfigure(p)
        PROVE  WaitBounds'
    BY <2>4 DEF Reconfigure, WaitBounds
  <2>5. CASE UNCHANGED vars
    BY <2>5 DEF vars, WaitBounds
  <2> QED
    BY <2>1, <2>2, <2>3, <2>4, <2>5 DEF Next, Authorize, Answer
<1> QED BY <1>1, <1>2, LoopCorrect, PTL DEF Spec

\* The request is sent again only after a failure that may be retried, and never
\* once the promise has settled.
THEOREM ResendsAreJustified == Spec => ResendsOnlyRetryable
<1>1. LoopInvariant /\ [Next]_vars =>
        [\A r \in Request :
           iterationCount'[r] # iterationCount[r] =>
             /\ ~Settled(r)
             /\ iterationCount[r] > 0 => MayBeRetried(answer[r])]_vars
  <2> SUFFICES ASSUME LoopInvariant, Next,
                      NEW q \in Request, iterationCount'[q] # iterationCount[q]
               PROVE  ~Settled(q) /\ (iterationCount[q] > 0 => MayBeRetried(answer[q]))
    OBVIOUS
  <2>1. Authorized(q) \/ Wake(q)
    BY DEF Next, Authorize, Answer, LoopInvariant, TypeOK, Reconfigure, Call,
           RefuseConfiguration, Authorized, Unauthorized, Succeed, Throw, Sleep, Wake
  <2> QED
    BY <2>1 DEF LoopInvariant, NotYetSent, WhileSleeping, Authorized, Wake, Settled
<1> QED BY <1>1, LoopCorrect, PTL DEF Spec, ResendsOnlyRetryable

-----------------------------------------------------------------------------
\* The loop implements RemoteCall.

\* Every step of the loop is a step of RemoteCall or leaves its variables alone.
LEMMA StepRefines == LoopInvariant /\ LoopInvariant' /\ [Next]_vars => [R!Next]_(R!vars)
<1> SUFFICES ASSUME LoopInvariant, LoopInvariant', [Next]_vars
             PROVE  R!Next \/ UNCHANGED R!vars
  OBVIOUS
<1> USE DEF LoopInvariant, TypeOK
<1>1. ASSUME NEW r \in Request, NEW s \in Phase, phase' = [phase EXCEPT ![r] = s]
      PROVE  Promise' = [Promise EXCEPT ![r] = PromiseOf[s]]
  BY <1>1 DEF Promise
<1>2. \A r \in Request : Promise[r] = PromiseOf[phase[r]]
  BY DEF Promise
<1>3. ASSUME NEW p \in RetryParams \cup {Unset}, Reconfigure(p)
      PROVE  UNCHANGED R!vars
  BY <1>3 DEF Reconfigure, R!vars, Promise
<1>4. ASSUME NEW r \in Request, NEW p \in RetryParams \cup {Unset}, Call(r, p)
      PROVE  R!Start(r)
  <2>1. PICK used \in RetryParams \cup {Unset} :
           maxRetry' = [maxRetry EXCEPT ![r] = MaxRetryOf(used)]
    BY <1>4 DEF Call
  <2>2. Promise' = [Promise EXCEPT ![r] = "pending"]
    BY <1>1, <1>4 DEF Call, Phase, PromiseOf
  <2>3. Promise[r] = "none"
    BY <1>2, <1>4 DEF Call, PromiseOf
  <2> QED BY <1>4, <2>1, <2>2, <2>3, ZenonT(30) DEF Call, R!Start
<1>5. ASSUME NEW r \in Request, RefuseConfiguration(r)
      PROVE  R!Refuse(r)
  <2>1. Promise' = [Promise EXCEPT ![r] = "rejected"]
    BY <1>1, <1>5 DEF RefuseConfiguration, Phase, PromiseOf
  <2>2. Promise[r] = "none"
    BY <1>2, <1>5 DEF RefuseConfiguration, PromiseOf
  <2> QED BY <1>5, <2>1, <2>2 DEF RefuseConfiguration, R!Refuse
<1>6. ASSUME NEW r \in Request, Authorized(r)
      PROVE  R!Send(r)
  <2>1. Promise' = [Promise EXCEPT ![r] = "pending"]
    BY <1>1, <1>6 DEF Authorized, Phase, PromiseOf
  <2>2. Promise[r] = "pending"
    BY <1>2, <1>6 DEF Authorized, PromiseOf
  <2>3. Promise' = Promise
    BY <2>1, <2>2 DEF Promise
  <2>4. iterationCount[r] = 0 /\ maxRetry[r] \in Nat
    BY <1>6 DEF Authorized, NotYetSent
  <2>5. iterationCount' = [iterationCount EXCEPT ![r] = iterationCount[r] + 1]
    BY <1>6, <2>4 DEF Authorized
  <2>6. maxRetry' = maxRetry
    BY <1>6 DEF Authorized
  <2> QED BY <2>2, <2>3, <2>4, <2>5, <2>6 DEF R!Send
<1>7. ASSUME NEW r \in Request, NEW e \in TokenErrors, Unauthorized(r, e)
      PROVE  R!Reject(r)
  <2>1. Promise' = [Promise EXCEPT ![r] = "rejected"]
    BY <1>1, <1>7 DEF Unauthorized, Phase, PromiseOf
  <2>2. Promise[r] = "pending"
    BY <1>2, <1>7 DEF Unauthorized, PromiseOf
  <2> QED BY <1>7, <2>1, <2>2 DEF Unauthorized, R!Reject
<1>8. ASSUME NEW r \in Request, Succeed(r)
      PROVE  R!Fulfil(r)
  <2>1. Promise' = [Promise EXCEPT ![r] = "fulfilled"]
    BY <1>1, <1>8 DEF Succeed, Phase, PromiseOf
  <2>2. Promise[r] = "pending"
    BY <1>2, <1>8 DEF Succeed, PromiseOf
  <2>3. iterationCount[r] > 0
    BY <1>8 DEF Succeed, WhileSending
  <2> QED BY <1>8, <2>1, <2>2, <2>3 DEF Succeed, R!Fulfil
<1>9. ASSUME NEW r \in Request, NEW err \in Failures, Throw(r, err)
      PROVE  R!Reject(r)
  <2>1. Promise' = [Promise EXCEPT ![r] = "rejected"]
    BY <1>1, <1>9 DEF Throw, Phase, PromiseOf
  <2>2. Promise[r] = "pending"
    BY <1>2, <1>9 DEF Throw, PromiseOf
  <2> QED BY <1>9, <2>1, <2>2 DEF Throw, R!Reject
<1>10. ASSUME NEW r \in Request, NEW err \in Failures, Sleep(r, err)
       PROVE  UNCHANGED R!vars
  <2>1. Promise' = [Promise EXCEPT ![r] = "pending"]
    BY <1>1, <1>10 DEF Sleep, Phase, PromiseOf
  <2>2. Promise[r] = "pending"
    BY <1>2, <1>10 DEF Sleep, PromiseOf
  <2>3. Promise' = Promise
    BY <2>1, <2>2 DEF Promise
  <2> QED BY <1>10, <2>3 DEF Sleep, R!vars
<1>11. ASSUME NEW r \in Request, Wake(r)
       PROVE  R!Send(r)
  <2>1. LoopsAgain(iterationCount[r], maxRetry[r])
    BY <1>11 DEF Wake, WhileSleeping, LoopsAgain
  <2>2. Promise' = [Promise EXCEPT ![r] = "pending"]
    BY <1>1, <1>11, <2>1 DEF Wake, Phase, PromiseOf
  <2>3. Promise[r] = "pending"
    BY <1>2, <1>11 DEF Wake, PromiseOf
  <2>4. Promise' = Promise
    BY <2>2, <2>3 DEF Promise
  <2> QED BY <1>11, <2>1, <2>3, <2>4 DEF Wake, LoopsAgain, R!Send
<1>12. CASE UNCHANGED vars
  BY <1>12 DEF vars, R!vars, Promise
<1> QED
  BY <1>3, <1>4, <1>5, <1>6, <1>7, <1>8, <1>9, <1>10, <1>11, <1>12
  DEF Next, Authorize, Answer, R!Next

\* The loop starts where RemoteCall starts.
LEMMA InitRefines == Init => R!Init
  BY DEF Init, R!Init, Promise, PromiseOf

\* The retry loop implements RemoteCall, for every number of concurrent calls: a
\* call settles once, is fulfilled only after it was sent, and is sent at most
\* maxRetry + 1 times, never after it has settled.
THEOREM LoopImplementsRemoteCall == Spec => ImplementsRemoteCall
<1>1. LoopInvariant /\ LoopInvariant' /\ [Next]_vars => [R!Next]_(R!vars)
  BY StepRefines
<1> QED BY <1>1, InitRefines, LoopCorrect, PTL DEF Spec, ImplementsRemoteCall, R!Spec
=============================================================================
