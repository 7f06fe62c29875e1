---------------------------- MODULE BulkWriteProofs ----------------------------
(***************************************************************************)
(* Theorems about BulkWrite, for every body, every chunk size, every limit *)
(* and every server.  What the retry loop of each request does is known    *)
(* from HttpRequestProofs, what chunkArray does from AsyncPoolProofs.      *)
(***************************************************************************)
EXTENDS BulkWrite, FiniteSetTheorems, TLAPS

HP == INSTANCE HttpRequestProofs WITH Request <- Requests

-----------------------------------------------------------------------------
\* The retry loops.  H and HP are the same module: what one does the other does.
LEMMA SameLoopInit == H!Init => HP!Init
<1> QED BY DEF H!Init, HP!Init, H!IsValid, HP!IsValid, H!MaxRetryOf, HP!MaxRetryOf,
               H!NoError, HP!NoError

\* The same for every step of a call, whatever it is answered.
LEMMA SameLoopSteps ==
  ASSUME NEW r \in Requests
  PROVE  /\ H!Call(r, Unset) => HP!Call(r, Unset)
         /\ H!Authorized(r) => HP!Authorized(r)
         /\ \A e : H!Unauthorized(r, e) => HP!Unauthorized(r, e)
         /\ H!Succeed(r) => HP!Succeed(r)
         /\ H!Wake(r) => HP!Wake(r)
<1>1. H!Call(r, Unset) => HP!Call(r, Unset)
  BY DEF H!Call, HP!Call, H!IsValid, HP!IsValid, H!MaxRetryOf, HP!MaxRetryOf,
         H!MinWaitOf, HP!MinWaitOf
<1>2. H!Authorized(r) => HP!Authorized(r)
  BY DEF H!Authorized, HP!Authorized
<1>3. \A e : H!Unauthorized(r, e) => HP!Unauthorized(r, e)
  BY DEF H!Unauthorized, HP!Unauthorized
<1>4. H!Succeed(r) => HP!Succeed(r)
  BY DEF H!Succeed, HP!Succeed, H!Answered, HP!Answered
<1>5. H!Wake(r) => HP!Wake(r)
  BY DEF H!Wake, HP!Wake, H!LoopsAgain, HP!LoopsAgain
<1> QED BY <1>1, <1>2, <1>3, <1>4, <1>5

\* A failure is thrown or slept on alike.
LEMMA SameLoopFailures ==
  ASSUME NEW r \in Requests, NEW err
  PROVE  /\ H!Throw(r, err) => HP!Throw(r, err)
         /\ H!Sleep(r, err) => HP!Sleep(r, err)
<1>1. \A n, m : H!CheckIfRetryableError(err, n, m) = HP!CheckIfRetryableError(err, n, m)
  BY DEF H!CheckIfRetryableError, HP!CheckIfRetryableError, H!MayBeRetried, HP!MayBeRetried,
         H!IsNetworkError, HP!IsNetworkError, H!IsRetryableStatus, HP!IsRetryableStatus
<1>2. H!ErrorOf(H!ErrorClassOf(err)) = HP!ErrorOf(HP!ErrorClassOf(err))
  BY DEF H!ErrorOf, HP!ErrorOf, H!ErrorClassOf, HP!ErrorClassOf, H!IsNetworkError,
         HP!IsNetworkError
<1>3. H!HasHint(err) = HP!HasHint(err)
  BY DEF H!HasHint, HP!HasHint, H!IsRetryableStatus, HP!IsRetryableStatus,
         H!IsValidRetryDelay, HP!IsValidRetryDelay
<1>4. \A n, m : H!Delays(err, n, m) = HP!Delays(err, n, m)
  BY <1>3 DEF H!Delays, HP!Delays, H!Backoff, HP!Backoff, H!Lesser, HP!Lesser
<1>5. H!Throw(r, err) => HP!Throw(r, err)
  BY <1>1, <1>2 DEF H!Throw, HP!Throw
<1>6. ASSUME H!Sleep(r, err) PROVE HP!Sleep(r, err)
  <2>1. /\ phase[r] = "sending"
        /\ HP!CheckIfRetryableError(err, iterationCount[r], maxRetry[r])
        /\ \E d \in HP!Delays(err, iterationCount[r], minWaitInMs[r]) :
               delay' = [delay EXCEPT ![r] = d]
        /\ phase' = [phase EXCEPT ![r] = "sleeping"] /\ answer' = [answer EXCEPT ![r] = err]
        /\ UNCHANGED <<configured, overridden, maxRetry, minWaitInMs, iterationCount, error>>
    BY <1>1, <1>4, <1>6, ZenonT(30) DEF H!Sleep
  <2>2. hinted' = [hinted EXCEPT ![r] = HP!HasHint(err)]
    BY <1>3, <1>6, Zenon DEF H!Sleep
  <2> QED BY <2>1, <2>2 DEF HP!Sleep
<1> QED BY <1>5, <1>6

\* Every step of write() is one of the loops, leaves them alone, or refuses a chunk.
LEMMA LoopsStep ==
  ASSUME [Next]_vars, waiting \in Seq(Requests)
  PROVE  [HP!Next]_HP!vars \/ \E r \in Requests : RefuseChunk(r)
<1>1. ASSUME UNCHANGED loopVars PROVE [HP!Next]_HP!vars
  BY <1>1 DEF loopVars, HP!vars
<1>2. ASSUME NEW r \in Requests, H!Call(r, Unset) PROVE HP!Next
  BY <1>2, SameLoopSteps DEF HP!Next
<1>3. ASSUME NEW r \in Requests, H!Authorize(r) \/ H!Wake(r) PROVE HP!Next
  BY <1>3, SameLoopSteps DEF H!Authorize, HP!Next, HP!Authorize
<1>4. ASSUME NEW r \in Requests, NEW err \in Failures, AttemptFails(r, err) PROVE HP!Next
  BY <1>4, SameLoopFailures DEF AttemptFails, HP!Next, HP!Answer
<1>5. ASSUME NEW r \in Requests, H!Succeed(r) PROVE HP!Next
  BY <1>5, SameLoopSteps DEF HP!Next, HP!Answer
<1>6. CASE StartTransaction
  BY <1>2, <1>6 DEF StartTransaction, Requests
<1>7. CASE RefuseIds \/ EndTransaction \/ StartWrites \/ NextStage \/ PoolStep \/ SetIds
  BY <1>1, <1>7 DEF RefuseIds, EndTransaction, StartWrites, NextStage, PoolStep, SetIds
<1>11. ASSUME NEW r \in Requests, Abort(r) PROVE [HP!Next]_HP!vars
  BY <1>1, <1>11 DEF Abort
<1>8. CASE LaunchChunk
  <2>1. Head(waiting) \in Requests
    BY <1>8 DEF LaunchChunk, Pool!Launch
  <2> QED BY <1>2, <1>8, <2>1 DEF LaunchChunk
<1>9. ASSUME NEW r \in Requests, LoopStep(r) \/ Attempt(r) \/ ArriveLate(r)
      PROVE  [HP!Next]_HP!vars
  <2>1. CASE LoopStep(r)
    BY <1>3, <2>1 DEF LoopStep
  <2>2. CASE ArriveLate(r)
    BY <1>1, <2>2 DEF ArriveLate
  <2>3. CASE Attempt(r)
    <3>1. InvalidWrite \in Failures /\ NetworkError \in Failures /\ Rejections \subseteq Failures
      BY DEF Failures
    <3> QED BY <1>4, <1>5, <2>3, <3>1 DEF Attempt, Serve, LoseAnswer, TurnAway, LoseAttempt
  <2> QED BY <1>9, <2>1, <2>2, <2>3
<1>10. CASE UNCHANGED vars
  BY <1>1, <1>10 DEF vars
<1> QED BY <1>6, <1>7, <1>8, <1>9, <1>10, <1>11 DEF Next, Client

\* A chunk that is refused is a call that has ended before its first attempt.
LEMMA RefusalKeepsLoops ==
  ASSUME HP!LoopInvariant, NEW r \in Requests, RefuseChunk(r)
  PROVE  HP!LoopInvariant'
<1>1. /\ phase \in [Requests -> HP!Phase] /\ phase[r] = "idle"
      /\ phase' = [phase EXCEPT ![r] = "rejected"]
      /\ iterationCount[r] = 0 /\ answer[r] = Unset /\ maxRetry[r] \in Nat
      /\ UNCHANGED <<configured, overridden, maxRetry, minWaitInMs, iterationCount, answer,
                     delay, hinted>>
  BY DEF RefuseChunk, HP!LoopInvariant, HP!TypeOK, HP!NotYetSent
<1>2. error' \in [Requests -> HP!ErrorObject \cup {HP!NoError}]
  <2>1. ErrorOf("FgaValidationError") \in HP!ErrorObject
    BY DEF ErrorOf, HP!ErrorObject, HP!ErrorClass, HP!Superclass
  <2> QED BY <2>1 DEF RefuseChunk, HP!LoopInvariant, HP!TypeOK
<1>3. HP!TypeOK'
  BY <1>1, <1>2 DEF HP!LoopInvariant, HP!TypeOK, HP!Phase
<1>4. HP!NotYetSent' /\ HP!WhileSending' /\ HP!WhileSleeping'
  BY <1>1 DEF HP!LoopInvariant, HP!NotYetSent, HP!WhileSending, HP!WhileSleeping
<1>5. HP!OnceResolved' /\ HP!OnceRejected' /\ HP!LimitRead'
  BY <1>1 DEF HP!LoopInvariant, HP!OnceResolved, HP!OnceRejected, HP!LimitRead
<1> QED BY <1>3, <1>4, <1>5 DEF HP!LoopInvariant

\* What is known of the loops holds inside write().
LEMMA LoopsInvariant ==
  /\ Init => HP!LoopInvariant
  /\ HP!LoopInvariant /\ waiting \in Seq(Requests) /\ [Next]_vars => HP!LoopInvariant'
<1> USE LoopAssumption DEF H!ParamsAssumption, H!FailuresAssumption, H!LimitsAssumption,
                           H!Failure, HP!Failure, H!Answered, HP!Answered,
                           H!ErrorObject, HP!ErrorObject, H!ErrorClass, HP!ErrorClass,
                           H!Superclass, HP!Superclass
<1>1. Init => HP!LoopInvariant
  BY SameLoopInit, HP!LoopInvariantInit DEF Init
<1>2. HP!LoopInvariant /\ waiting \in Seq(Requests) /\ [Next]_vars => HP!LoopInvariant'
  BY LoopsStep, HP!LoopInvariantStep, RefusalKeepsLoops
<1> QED BY <1>1, <1>2

-----------------------------------------------------------------------------
\* The inductive invariant of write().

Injective(s) == \A j, k \in DOMAIN s : s[j] = s[k] => j = k

Types ==
  /\ disabled \in BOOLEAN
  /\ conflict \in Conflicts
  /\ stage \in {"called", "transaction", "writes", "deletes", "resolved", "rejected"}
  /\ collected \in Seq(Requests)
  /\ thrown \in ErrorObject \cup {NoError}
  /\ waiting \in Seq(Requests)
  /\ executing \subseteq Requests
  /\ yielded \in Seq(Requests)
  /\ generator \in {"running", "done", "thrown"}

\* The two modes never mix: what the other one uses is untouched.
ModesApart ==
  /\ stage \in {"writes", "deletes"} => disabled
  /\ stage = "transaction" => ~disabled
  /\ stage = "called" => collected = <<>> /\ \A r \in Requests : ~Begun(r)
  /\ ~disabled => \A r \in Requests : Begun(r) => r = Transaction
  /\ ~disabled /\ stage = "resolved" =>
       collected = <<Transaction>> /\ Succeeded(Transaction)

\* The requests of the loop that is running, and those of the loops that have ended.
Planned == IF stage = "writes" THEN WriteRequests ELSE DeleteRequests
Past ==
  CASE stage = "deletes"  -> WriteRequests
    [] stage = "resolved" -> WriteRequests \cup DeleteRequests
    [] OTHER              -> {}

\* Each request of the running loop is in one place, once ...
InOnePlace ==
  stage \in {"writes", "deletes"} =>
    /\ Range(waiting) \cup executing \cup Range(yielded) = Planned
    /\ Range(waiting) \cap executing = {}
    /\ Range(waiting) \cap Range(yielded) = {}
    /\ executing \cap Range(yielded) = {}
    /\ Injective(waiting) /\ Injective(yielded)

\* ... and each of the past ones has been collected, once.
Collected ==
  disabled /\ stage # "rejected" => Range(collected) = Past /\ Injective(collected)

\* Only what the pool has started has begun; what it has handed over is fulfilled.
StartedByThePool ==
  disabled =>
    /\ \A r \in Requests : Begun(r) =>
         \/ r \in Range(collected)
         \/ stage # "resolved" /\ r \in executing \cup Range(yielded)
    /\ \A r \in Range(collected) \cup Range(yielded) :
         H!Settled(r) /\ ~AuthenticationFailed(r)

\* How the generator, and with it write(), can end.
Endings ==
  disabled =>
    /\ stage \in {"writes", "deletes"} /\ generator = "done" => waiting = <<>> /\ executing = {}
    /\ stage = "rejected" =>
         \/ thrown = ErrorOf("FgaValidationError") /\ ~\E r \in Requests : Begun(r)
         \/ \E r \in Requests : AuthenticationFailed(r) /\ thrown = error[r]

BulkInvariant ==
  HP!LoopInvariant /\ Types /\ ModesApart /\ InOnePlace /\ Collected /\ StartedByThePool
      /\ Endings

-----------------------------------------------------------------------------
\* Lemmas about sequences and requests.

PP == INSTANCE AsyncPoolProofs
        WITH Item <- Requests, Concurrency <- MaxParallelRequests, outcome <- Outcome

\* chunkArray, as PP knows it.
LEMMA SameChunks == \A items, size : PP!ChunkArray(items, size) = ChunkArray(items, size)
  BY DEF PP!ChunkArray, ChunkArray

\* chunkArray makes finitely many chunks.
LEMMA ChunksCounted == Len(WriteChunks) \in Nat /\ Len(DeleteChunks) \in Nat
<1>1. ASSUME NEW items \in Seq(Tuple) PROVE Len(ChunkArray(items, MaxPerChunk)) \in Nat
  <2> DEFINE count == (Len(items) + MaxPerChunk - 1) \div MaxPerChunk
  <2>1. count \in Nat
    BY BulkWriteAssumption
  <2> HIDE DEF count
  <2>2. Len(ChunkArray(items, MaxPerChunk)) = count
    BY <2>1 DEF ChunkArray, count
  <2> QED BY <2>1, <2>2
<1> QED BY <1>1, BulkWriteAssumption DEF WriteChunks, DeleteChunks

\* The requests are finitely many, as the pool's items have to be.
LEMMA FinitelyMany == PP!IsFiniteSet(Requests)
<1>1. IsFiniteSet(WriteRequests) /\ IsFiniteSet(DeleteRequests) /\ IsFiniteSet({Transaction})
  <2>1. \A a, b \in Int : IsFiniteSet(a .. b)
    BY FS_Interval
  <2>2. IsFiniteSet({Transaction})
    BY FS_Singleton
  <2> QED BY <2>1, <2>2, ChunksCounted DEF WriteRequests, DeleteRequests
<1>2. IsFiniteSet(Requests)
  BY <1>1, FS_Union DEF Requests
<1> QED BY <1>2 DEF IsFiniteSet, PP!IsFiniteSet

\* The transaction, the chunks of writes and those of deletes are different requests.
LEMMA RequestsApart ==
  /\ WriteChunks \in Seq(Seq(Tuple)) /\ DeleteChunks \in Seq(Seq(Tuple))
  /\ Len(WriteChunks) \in Nat /\ Len(DeleteChunks) \in Nat
  /\ WriteRequests \subseteq Requests /\ DeleteRequests \subseteq Requests
         /\ Transaction \in Requests
  /\ WriteRequests \cap DeleteRequests = {}
  /\ Transaction \notin WriteRequests /\ Transaction \notin DeleteRequests
<1>1. WriteChunks \in Seq(Seq(Tuple)) /\ DeleteChunks \in Seq(Seq(Tuple))
  <2>1. MaxPerChunk \in Nat \ {0} /\ Writes \in Seq(Tuple) /\ Deletes \in Seq(Tuple)
    BY BulkWriteAssumption
  <2> QED BY <2>1, FinitelyMany, BulkWriteAssumption, PP!ChunksAreThePieces, SameChunks
      DEF WriteChunks, DeleteChunks
<1>2. Len(WriteChunks) \in Nat /\ Len(DeleteChunks) \in Nat
  BY ChunksCounted
<1> QED BY <1>1, <1>2 DEF WriteRequests, DeleteRequests, Requests, Transaction

\* The requests of a pool, in order, are each there once.
LEMMA AsSequenceIs ==
  ASSUME NEW first \in Int, NEW last \in Int, first <= last + 1
  PROVE  /\ AsSequence(first, last) \in Seq(first .. last)
         /\ Range(AsSequence(first, last)) = first .. last
         /\ Injective(AsSequence(first, last))
<1> DEFINE n == last - first + 1
           s == AsSequence(first, last)
<1>1. n \in Nat /\ s = [k \in 1 .. n |-> first + k - 1]
  BY DEF AsSequence
<1>2. DOMAIN s = 1 .. n /\ \A k \in 1 .. n : s[k] = first + k - 1 /\ s[k] \in first .. last
  BY <1>1
<1>3. s \in Seq(first .. last)
  BY <1>1, <1>2
<1>4. ASSUME NEW x \in first .. last PROVE x \in Range(s)
  <2>1. x - first + 1 \in 1 .. n /\ x = first + (x - first + 1) - 1
    OBVIOUS
  <2> QED BY <1>2, <2>1 DEF Range
<1>5. Range(s) = first .. last
  BY <1>2, <1>4 DEF Range
<1>6. Injective(s)
  BY <1>2 DEF Injective
<1> QED BY <1>3, <1>5, <1>6

\* The empty sequence has no items.
LEMMA EmptyRange == Range(<<>>) = {} /\ Injective(<<>>)
  BY DEF Range, Injective

\* Two sequences without a common item, one after the other.
LEMMA ConcatRange ==
  ASSUME NEW S, NEW s \in Seq(S), NEW t \in Seq(S)
  PROVE  /\ s \o t \in Seq(S) /\ Range(s \o t) = Range(s) \cup Range(t)
         /\ Injective(s) /\ Injective(t) /\ Range(s) \cap Range(t) = {} => Injective(s \o t)
<1> DEFINE m == Len(s)  n == Len(t)  u == s \o t
<1>1. /\ m \in Nat /\ n \in Nat /\ DOMAIN s = 1 .. m /\ DOMAIN t = 1 .. n
      /\ u \in Seq(S) /\ DOMAIN u = 1 .. (m + n)
      /\ \A k \in 1 .. m : u[k] = s[k]
      /\ \A k \in 1 .. n : u[m + k] = t[k]
  OBVIOUS
<1> HIDE DEF m, n, u
<1>2. ASSUME NEW k \in 1 .. (m + n)
      PROVE  k \in 1 .. m \/ (k - m \in 1 .. n /\ k = m + (k - m) /\ u[k] = t[k - m])
  BY <1>1
<1>3. \A k \in 1 .. n : m + k \in 1 .. (m + n)
  BY <1>1
<1>4. \A k \in 1 .. m : k \in 1 .. (m + n)
  BY <1>1
<1>5. Range(u) \subseteq Range(s) \cup Range(t)
  BY <1>1, <1>2, ZenonT(30) DEF Range
<1>6. Range(s) \cup Range(t) \subseteq Range(u)
  BY <1>1, <1>3, <1>4 DEF Range
<1>7. ASSUME Injective(s), Injective(t), Range(s) \cap Range(t) = {},
             NEW j \in DOMAIN u, NEW k \in DOMAIN u, u[j] = u[k]
      PROVE  j = k
  <2>1. CASE j \in 1 .. m /\ k \in 1 .. m
    BY <1>1, <1>7, <2>1 DEF Injective
  <2>2. /\ \A i \in 1 .. m : u[i] \in Range(s)
        /\ \A i \in 1 .. (m + n) : i \notin 1 .. m => u[i] \in Range(t)
    BY <1>1, <1>2 DEF Range
  <2>3. CASE (j \in 1 .. m /\ k \notin 1 .. m) \/ (j \notin 1 .. m /\ k \in 1 .. m)
    BY <1>1, <1>7, <2>2, <2>3
  <2>4. CASE j \notin 1 .. m /\ k \notin 1 .. m
    <3>1. j - m \in 1 .. n /\ k - m \in 1 .. n /\ t[j - m] = t[k - m]
      BY <1>1, <1>2, <1>7, <2>4
    <3>2. j - m = k - m /\ j \in Int /\ k \in Int
      BY <1>1, <1>7, <3>1 DEF Injective
    <3> QED BY <1>1, <3>2
  <2> QED BY <2>1, <2>3, <2>4
<1>8. Injective(s) /\ Injective(t) /\ Range(s) \cap Range(t) = {} => Injective(u)
  BY <1>7 DEF Injective
<1> QED BY <1>1, <1>5, <1>6, <1>8 DEF u

-----------------------------------------------------------------------------
\* What a step does to the retry loops, as far as write() can tell.

\* A settled call stays as it is.
SettledStay ==
  \A r \in Requests : H!Settled(r) => phase'[r] = phase[r] /\ error'[r] = error[r]

\* A step of a call that has begun.
LEMMA LoopEffect ==
  ASSUME HP!TypeOK, NEW q \in Requests, LoopStep(q) \/ Attempt(q)
  PROVE  /\ SettledStay
         /\ \A r \in Requests : (phase'[r] # "idle") <=> Begun(r)
         /\ UNCHANGED <<callVars, poolVars>>
<1>1. /\ UNCHANGED <<callVars, poolVars>>
      /\ \/ H!Authorized(q) \/ H!Wake(q) \/ H!Succeed(q)
         \/ \E e : H!Unauthorized(q, e)
         \/ \E err : H!Throw(q, err) \/ H!Sleep(q, err)
  BY DEF LoopStep, Attempt, H!Authorize, Serve, LoseAnswer, TurnAway, LoseAttempt, AttemptFails,
         callVars, serverVars, poolVars
<1>2. phase \in [Requests -> HP!Phase] /\ DOMAIN error = Requests
  BY DEF HP!TypeOK
<1>3. PICK p \in {"sending", "sleeping", "resolved", "rejected"} :
        /\ phase[q] \in {"authorizing", "sending", "sleeping"}
        /\ phase' = [phase EXCEPT ![q] = p]
        /\ error' = error \/ \E e : error' = [error EXCEPT ![q] = e]
  BY <1>1 DEF H!Authorized, H!Wake, H!Succeed, H!Unauthorized, H!Throw, H!Sleep
<1> QED BY <1>1, <1>2, <1>3 DEF SettledStay, H!Settled, Begun

\* The beginning of a call.
LEMMA CallEffect ==
  ASSUME HP!TypeOK, NEW q \in Requests, H!Call(q, Unset)
  PROVE  /\ SettledStay
         /\ \A r \in Requests : (phase'[r] # "idle") <=> Begun(r) \/ r = q
  BY DEF HP!TypeOK, H!Call, SettledStay, H!Settled, Begun

\* A chunk that is refused: it begins and ends at once.
LEMMA RefusalEffect ==
  ASSUME HP!TypeOK, NEW q \in Requests, RefuseChunk(q)
  PROVE  /\ SettledStay
         /\ \A r \in Requests : (phase'[r] # "idle") <=> Begun(r) \/ r = q
  BY DEF HP!TypeOK, RefuseChunk, SettledStay, H!Settled, Begun

\* A step that leaves the loops alone.
LEMMA NoEffect ==
  ASSUME UNCHANGED loopVars
  PROVE  SettledStay /\ \A r \in Requests : (phase'[r] # "idle") <=> Begun(r)
  BY DEF loopVars, SettledStay, Begun

\* Which promises of the pool have settled.
LEMMA Outcomes ==
  ASSUME HP!TypeOK, NEW r \in Requests
  PROVE  /\ Outcome[r] = "rejected" => AuthenticationFailed(r)
         /\ Outcome[r] = "fulfilled" => H!Settled(r) /\ ~AuthenticationFailed(r)
<1>1. error[r] \in HP!ErrorObject \cup {HP!NoError}
  BY DEF HP!TypeOK
<1>2. EndsTheCall(error[r]) <=> error[r].class = "FgaApiAuthenticationError"
  BY <1>1, SMTT(30) DEF EndsTheCall, InstanceOf, HP!ErrorObject, HP!NoError, HP!ErrorClass,
              HP!Superclass, ErrorClass, Superclass
<1> QED BY <1>2 DEF Outcome, AuthenticationFailed, H!Settled

-----------------------------------------------------------------------------
\* The invariant is inductive.

\* It holds when write() is called.
LEMMA BulkInvariantInit == Init => BulkInvariant
<1> SUFFICES ASSUME Init PROVE BulkInvariant
  OBVIOUS
<1>1. HP!LoopInvariant
  BY LoopsInvariant
<1>2. /\ waiting = <<>> /\ executing = {} /\ yielded = <<>> /\ generator = "running"
      /\ collected = <<>> /\ stage = "called" /\ disabled \in BOOLEAN /\ conflict \in Conflicts
      /\ thrown = NoError
  BY BulkWriteAssumption DEF Init, Pool!Fresh
<1>3. \A r \in Requests : ~Begun(r)
  BY DEF Init, H!Init, Begun
<1>4. Types
  BY <1>2 DEF Types
<1>5. ModesApart /\ InOnePlace /\ Collected /\ StartedByThePool /\ Endings
  BY <1>2, <1>3, EmptyRange
  DEF ModesApart, InOnePlace, Collected, StartedByThePool, Endings, Past
<1> QED BY <1>1, <1>4, <1>5 DEF BulkInvariant

\* Once failed, an authentication has failed for good.
LEMMA FailuresStay ==
  ASSUME SettledStay
  PROVE  /\ \A r \in Requests : AuthenticationFailed(r) => phase'[r] = "rejected"
                                  /\ error'[r].class = "FgaApiAuthenticationError"
         /\ \A r \in Requests : H!Settled(r) /\ ~AuthenticationFailed(r) =>
                /\ phase'[r] \in {"resolved", "rejected"}
                /\ ~(phase'[r] = "rejected" /\ error'[r].class = "FgaApiAuthenticationError")
         /\ \A r \in Requests : Succeeded(r) => phase'[r] = "resolved"
  BY DEF SettledStay, AuthenticationFailed, Succeeded, H!Settled

\* A step that begins nothing and leaves write() and the pool alone.
LEMMA LoopOnlyStep ==
  ASSUME BulkInvariant, SettledStay, UNCHANGED <<callVars, poolVars>>,
         \A r \in Requests : (phase'[r] # "idle") <=> Begun(r)
  PROVE  Types' /\ ModesApart' /\ InOnePlace' /\ Collected' /\ StartedByThePool' /\ Endings'
<1> USE DEF BulkInvariant, callVars, poolVars
<1>1. Types'
  BY DEF Types
<1>2. ModesApart'
  BY FailuresStay DEF ModesApart, Begun, Succeeded, Requests
<1>3. InOnePlace'
  BY DEF InOnePlace, Planned, Injective, Range
<1>4. Collected'
  BY DEF Collected, Past, Injective, Range
<1>5. StartedByThePool'
  <2>1. Range(collected)' = Range(collected) /\ Range(yielded)' = Range(yielded)
    OBVIOUS
  <2>2. Range(collected) \subseteq Requests /\ Range(yielded) \subseteq Requests
    BY DEF Types, Range
  <2> QED BY <2>1, <2>2, FailuresStay
          DEF StartedByThePool, Begun, AuthenticationFailed, H!Settled
<1>6. Endings'
  BY FailuresStay DEF Endings, AuthenticationFailed, Begun, SettledStay, H!Settled
<1> QED BY <1>1, <1>2, <1>3, <1>4, <1>5, <1>6

\* Parts of the invariant that are about the calls only, primed one by one.
Part == Types /\ ModesApart /\ InOnePlace /\ Collected /\ StartedByThePool /\ Endings

\* What is thrown is an error object, as write() and as the loops know it.
LEMMA Errors ==
  /\ ErrorOf("FgaValidationError") \in ErrorObject
  /\ HP!TypeOK => \A r \in Requests : error[r] \in ErrorObject \cup {NoError}
<1>1. ErrorOf("FgaValidationError") \in ErrorObject
  BY DEF ErrorOf, ErrorObject, ErrorClass, Superclass
<1>2. HP!ErrorObject = ErrorObject /\ HP!NoError = NoError
  BY DEF HP!ErrorObject, ErrorObject, HP!ErrorClass, ErrorClass, HP!Superclass, Superclass,
         HP!NoError, NoError
<1> QED BY <1>1, <1>2 DEF HP!TypeOK

\* write() refuses the ids it was called with.
LEMMA RefuseIdsStep ==
  ASSUME BulkInvariant, RefuseIds
  PROVE  Part'
<1> USE DEF BulkInvariant, poolVars, Part
<1>1. /\ stage = "called" /\ stage' = "rejected" /\ thrown' = ErrorOf("FgaValidationError")
      /\ UNCHANGED <<disabled, conflict, collected, poolVars, phase, error>>
  BY DEF RefuseIds, loopVars
<1>2. collected = <<>> /\ \A r \in Requests : phase[r] = "idle"
  BY <1>1 DEF ModesApart, Begun
<1>3. Types'
  BY <1>1, Errors DEF Types
<1>4. ModesApart' /\ InOnePlace' /\ Collected'
  BY <1>1, <1>2 DEF ModesApart, InOnePlace, Collected, Begun
<1>5. StartedByThePool'
  BY <1>1 DEF StartedByThePool, Begun, H!Settled, AuthenticationFailed
<1>6. Endings'
  BY <1>1, <1>2 DEF Endings, Begun
<1> QED BY <1>3, <1>4, <1>5, <1>6

\* Transaction mode begins ...
LEMMA StartTransactionStep ==
  ASSUME BulkInvariant, StartTransaction
  PROVE  Part'
<1> USE DEF BulkInvariant, poolVars, Part
<1>1. /\ stage = "called" /\ ~disabled /\ stage' = "transaction"
      /\ UNCHANGED <<disabled, conflict, collected, thrown, poolVars>>
  BY DEF StartTransaction
<1>2. \A r \in Requests : (phase'[r] # "idle") <=> r = Transaction
  BY CallEffect, RequestsApart DEF StartTransaction, ModesApart, HP!LoopInvariant
<1>3. Types'
  BY <1>1 DEF Types
<1>4. ModesApart'
  BY <1>1, <1>2 DEF ModesApart, Begun
<1>5. InOnePlace' /\ Collected' /\ StartedByThePool' /\ Endings'
  BY <1>1 DEF InOnePlace, Collected, StartedByThePool, Endings
<1> QED BY <1>3, <1>4, <1>5

\* ... and ends.
LEMMA EndTransactionStep ==
  ASSUME BulkInvariant, EndTransaction
  PROVE  Part'
<1> USE DEF BulkInvariant, poolVars, Part
<1>1. /\ stage = "transaction" /\ ~disabled /\ stage' \in {"resolved", "rejected"}
      /\ stage' = "resolved" => phase[Transaction] = "resolved"
      /\ collected' = <<Transaction>> /\ thrown' = error[Transaction]
      /\ UNCHANGED <<disabled, conflict, poolVars, loopVars>>
  BY DEF EndTransaction, ModesApart
<1>2. phase' = phase
  BY <1>1 DEF loopVars
<1>3. Types'
  <2>1. thrown' \in ErrorObject \cup {NoError}
    BY <1>1, Errors, RequestsApart DEF HP!LoopInvariant
  <2> QED BY <1>1, <2>1, RequestsApart DEF Types
<1>4. ModesApart'
  BY <1>1, <1>2 DEF ModesApart, Begun, Succeeded
<1>5. InOnePlace' /\ Collected' /\ StartedByThePool' /\ Endings'
  BY <1>1 DEF InOnePlace, Collected, StartedByThePool, Endings
<1> QED BY <1>3, <1>4, <1>5

\* The pool of writes is given all of its requests.
LEMMA StartWritesStep ==
  ASSUME BulkInvariant, StartWrites
  PROVE  Part'
<1> USE DEF BulkInvariant, Part
<1>1. /\ stage = "called" /\ disabled /\ stage' = "writes"
      /\ waiting' = AsSequence(1, Len(WriteChunks))
      /\ executing' = {} /\ yielded' = <<>> /\ generator' = "running"
      /\ UNCHANGED <<disabled, conflict, collected, thrown, phase, error>>
  BY DEF StartWrites, loopVars
<1>2. /\ waiting' \in Seq(WriteRequests) /\ Range(waiting') = WriteRequests /\ Injective(waiting')
  BY <1>1, AsSequenceIs, RequestsApart DEF WriteRequests
<1>3. waiting' \in Seq(Requests)
  BY <1>2, RequestsApart
<1>4. collected = <<>> /\ \A r \in Requests : phase[r] = "idle"
  BY <1>1 DEF ModesApart, Begun
<1>5. Types'
  BY <1>1, <1>3 DEF Types
<1>6. ModesApart'
  BY <1>1, <1>4 DEF ModesApart, Begun
<1>7. InOnePlace'
  BY <1>1, <1>2, EmptyRange DEF InOnePlace, Planned
<1>8. Collected'
  BY <1>1, <1>4, EmptyRange DEF Collected, Past
<1>9. StartedByThePool'
  BY <1>1, <1>4, EmptyRange DEF StartedByThePool, Begun
<1>10. Endings'
  BY <1>1 DEF Endings
<1> QED BY <1>5, <1>6, <1>7, <1>8, <1>9, <1>10

\* The loop over a pool has ended: what it handed over is collected.
LEMMA NextStageStep ==
  ASSUME BulkInvariant, NextStage
  PROVE  Part'
<1> USE DEF BulkInvariant, Part
<1>1. /\ stage \in {"writes", "deletes"} /\ disabled /\ generator = "done"
      /\ waiting = <<>> /\ executing = {}
      /\ collected' = collected \o yielded
      /\ UNCHANGED <<disabled, conflict, thrown, phase, error>>
  BY DEF NextStage, ModesApart, Endings, loopVars
<1>2. collected \in Seq(Requests) /\ yielded \in Seq(Requests)
  BY DEF Types
<1>3. /\ Range(yielded) = Planned /\ Injective(yielded)
      /\ Range(collected) = Past /\ Injective(collected)
  BY <1>1, EmptyRange DEF InOnePlace, Collected
<1>4. Range(collected) \cap Range(yielded) = {}
  BY <1>1, <1>3, RequestsApart DEF Planned, Past
<1>5. /\ collected' \in Seq(Requests) /\ Injective(collected')
      /\ Range(collected') = Range(collected) \cup Range(yielded)
  BY <1>1, <1>2, <1>3, <1>4, ConcatRange
<1>6. /\ \A r \in Requests : Begun(r) => r \in Range(collected')
      /\ \A r \in Range(collected') : H!Settled(r) /\ ~AuthenticationFailed(r)
  BY <1>1, <1>5 DEF StartedByThePool
<1>7. CASE stage = "writes"
  <2>1. /\ stage' = "deletes" /\ executing' = {} /\ yielded' = <<>> /\ generator' = "running"
        /\ waiting' = AsSequence(Len(WriteChunks) + 1, Len(WriteChunks) + Len(DeleteChunks))
    BY <1>7 DEF NextStage
  <2>2. /\ waiting' \in Seq(DeleteRequests) /\ Range(waiting') = DeleteRequests
        /\ Injective(waiting')
    BY <2>1, AsSequenceIs, RequestsApart DEF DeleteRequests
  <2>3. waiting' \in Seq(Requests)
    BY <2>2, RequestsApart
  <2>4. Types'
    BY <1>1, <1>5, <2>1, <2>3 DEF Types
  <2>5. ModesApart'
    BY <1>1, <2>1 DEF ModesApart
  <2>6. InOnePlace'
    BY <2>1, <2>2, EmptyRange DEF InOnePlace, Planned
  <2>7. Collected'
    BY <1>3, <1>5, <1>7, <2>1 DEF Collected, Past, Planned
  <2>8. StartedByThePool'
    BY <1>1, <1>6, <2>1, EmptyRange DEF StartedByThePool, Begun, AuthenticationFailed, H!Settled
  <2>9. Endings'
    BY <2>1 DEF Endings
  <2> QED BY <2>4, <2>5, <2>6, <2>7, <2>8, <2>9
<1>8. CASE stage = "deletes"
  <2>1. stage' = "resolved" /\ UNCHANGED <<waiting, executing, yielded, generator>>
    BY <1>8 DEF NextStage, poolVars
  <2>2. Types'
    BY <1>1, <1>5, <2>1 DEF Types
  <2>3. ModesApart'
    BY <1>1, <2>1 DEF ModesApart
  <2>4. InOnePlace'
    BY <2>1 DEF InOnePlace
  <2>5. Collected'
    BY <1>3, <1>5, <1>8, <2>1 DEF Collected, Past, Planned
  <2>6. StartedByThePool'
    BY <1>1, <1>5, <1>6, <2>1 DEF StartedByThePool, Begun, AuthenticationFailed, H!Settled
  <2>7. Endings'
    BY <2>1 DEF Endings
  <2> QED BY <2>2, <2>3, <2>4, <2>5, <2>6, <2>7
<1> QED BY <1>1, <1>7, <1>8

\* The pool throws because of a failed authentication.
LEMMA AbortStep ==
  ASSUME BulkInvariant, NEW r \in Requests, Abort(r)
  PROVE  Part'
<1> USE DEF BulkInvariant, Part
<1>1. /\ stage \in {"writes", "deletes"} /\ disabled /\ stage' = "rejected"
      /\ thrown' = error[r] /\ Outcome[r] = "rejected" /\ generator' = "thrown"
      /\ UNCHANGED <<disabled, conflict, collected, waiting, executing, yielded, phase, error>>
  BY DEF Abort, Pool!Throw, loopVars, ModesApart
<1>2. AuthenticationFailed(r) /\ thrown' \in ErrorObject \cup {NoError}
  BY <1>1, Outcomes, Errors DEF HP!LoopInvariant
<1>3. Types'
  BY <1>1, <1>2 DEF Types
<1>4. ModesApart' /\ InOnePlace' /\ Collected'
  BY <1>1 DEF ModesApart, InOnePlace, Collected
<1>5. StartedByThePool'
  BY <1>1 DEF StartedByThePool, Begun, H!Settled, AuthenticationFailed
<1>6. Endings'
  BY <1>1, <1>2 DEF Endings, AuthenticationFailed
<1> QED BY <1>3, <1>4, <1>5, <1>6

\* The next request leaves the queue and begins, or is refused for its ids.
LEMMA LaunchChunkStep ==
  ASSUME BulkInvariant, LaunchChunk
  PROVE  Part'
<1> USE DEF BulkInvariant, Part
<1> DEFINE x == Head(waiting)
<1>1. /\ stage \in {"writes", "deletes"} /\ disabled /\ generator = "running" /\ waiting # <<>>
      /\ waiting \in Seq(Requests) /\ Injective(waiting)
      /\ executing' = executing \cup {x} /\ waiting' = Tail(waiting)
      /\ UNCHANGED <<yielded, generator, callVars>>
  BY DEF LaunchChunk, Pool!Launch, ModesApart, InOnePlace, Types
<1>2. /\ x \in Requests /\ x \in Range(waiting) /\ waiting' \in Seq(Requests)
      /\ Range(waiting') = Range(waiting) \ {x} /\ Injective(waiting')
  <2>1. /\ x \in Requests /\ waiting' \in Seq(Requests)
        /\ PP!Items(waiting') = PP!Items(waiting) \ {x} /\ x \in PP!Items(waiting)
        /\ \A j, k \in DOMAIN waiting' : waiting'[j] = waiting'[k] => j = k
    BY <1>1, FinitelyMany, BulkWriteAssumption, PP!TailItems DEF Injective
  <2> QED BY <2>1 DEF PP!Items, Range, Injective
<1>3. SettledStay /\ \A r \in Requests : (phase'[r] # "idle") <=> Begun(r) \/ r = x
  BY <1>2, CallEffect, RefusalEffect DEF LaunchChunk, HP!LoopInvariant
<1> HIDE DEF x
<1>4. Types'
  BY <1>1, <1>2 DEF Types, callVars
<1>5. ModesApart'
  BY <1>1 DEF ModesApart, callVars
<1>6. InOnePlace'
  BY <1>1, <1>2 DEF InOnePlace, Planned, callVars
<1>7. Collected'
  BY <1>1 DEF Collected, Past, callVars
<1>8. StartedByThePool'
  <2>1. Range(collected) \subseteq Requests /\ Range(yielded) \subseteq Requests
    BY DEF Types, Range
  <2> QED BY <1>1, <1>3, <2>1, FailuresStay
          DEF StartedByThePool, Begun, AuthenticationFailed, H!Settled, callVars
<1>9. Endings'
  BY <1>1 DEF Endings, callVars
<1> QED BY <1>4, <1>5, <1>6, <1>7, <1>8, <1>9

\* The pool takes one settled request, or ends.
LEMMA PoolStepStep ==
  ASSUME BulkInvariant, PoolStep
  PROVE  Part'
<1> USE DEF BulkInvariant, Part
<1>1. /\ stage \in {"writes", "deletes"} /\ disabled
      /\ UNCHANGED <<callVars, phase, error>>
  BY DEF PoolStep, ModesApart, loopVars
<1>2. ASSUME NEW r \in Requests, Pool!Yield(r)
      PROVE  Part'
  <2>1. /\ r \in executing /\ Outcome[r] = "fulfilled" /\ generator = "running"
        /\ executing' = executing \ {r} /\ yielded' = Append(yielded, r)
        /\ UNCHANGED <<waiting, generator>>
    BY <1>2 DEF Pool!Yield, Pool!Waits
  <2>2. yielded \in Seq(Requests) /\ Injective(yielded) /\ r \notin Range(yielded)
    BY <1>1, <2>1 DEF Types, InOnePlace
  <2>3. /\ yielded' \in Seq(Requests) /\ Range(yielded') = Range(yielded) \cup {r}
        /\ Injective(yielded')
    <3>1. r \notin PP!Items(yielded)
      BY <2>2 DEF PP!Items, Range
    <3>2. /\ yielded' \in Seq(Requests) /\ PP!Items(yielded') = PP!Items(yielded) \cup {r}
          /\ \A j, k \in DOMAIN yielded' : yielded'[j] = yielded'[k] => j = k
      BY <2>1, <2>2, <3>1, FinitelyMany, BulkWriteAssumption, PP!AppendItems DEF Injective
    <3> QED BY <3>2 DEF PP!Items, Range, Injective
  <2>4. H!Settled(r) /\ ~AuthenticationFailed(r)
    BY <2>1, Outcomes DEF HP!LoopInvariant
  <2>5. Types'
    BY <1>1, <2>1, <2>3 DEF Types, callVars
  <2>6. ModesApart'
    BY <1>1 DEF ModesApart, Begun, Succeeded, callVars
  <2>7. InOnePlace'
    BY <1>1, <2>1, <2>3 DEF InOnePlace, Planned, callVars
  <2>8. Collected'
    BY <1>1 DEF Collected, Past, callVars
  <2>9. StartedByThePool'
    BY <1>1, <2>1, <2>3, <2>4
    DEF StartedByThePool, Begun, AuthenticationFailed, H!Settled, callVars
  <2>10. Endings'
    BY <1>1, <2>1 DEF Endings, AuthenticationFailed, callVars
  <2> QED BY <2>5, <2>6, <2>7, <2>8, <2>9, <2>10
<1>3. CASE Pool!Finish
  <2>1. /\ UNCHANGED <<waiting, executing, yielded>> /\ generator' = "done"
        /\ waiting = <<>> /\ executing = {}
    BY <1>3 DEF Pool!Finish
  <2>2. Types'
    BY <1>1, <2>1 DEF Types, callVars
  <2>3. ModesApart'
    BY <1>1 DEF ModesApart, Begun, Succeeded, callVars
  <2>4. InOnePlace' /\ Collected'
    BY <1>1, <2>1 DEF InOnePlace, Planned, Collected, Past, callVars
  <2>5. StartedByThePool'
    BY <1>1, <2>1 DEF StartedByThePool, Begun, AuthenticationFailed, H!Settled, callVars
  <2>6. Endings'
    BY <1>1, <2>1 DEF Endings, callVars
  <2> QED BY <2>2, <2>3, <2>4, <2>5, <2>6
<1> QED BY <1>2, <1>3 DEF PoolStep

\* Every step keeps the invariant.
LEMMA BulkInvariantStep == BulkInvariant /\ [Next]_vars => BulkInvariant'
<1> SUFFICES ASSUME BulkInvariant, [Next]_vars PROVE BulkInvariant'
  OBVIOUS
<1>1. HP!LoopInvariant'
  BY LoopsInvariant DEF BulkInvariant, Types
<1>2. ASSUME Client
      PROVE  Part'
  BY <1>2, RefuseIdsStep, StartTransactionStep, EndTransactionStep, StartWritesStep,
     NextStageStep, AbortStep, LaunchChunkStep, PoolStepStep DEF Client
<1>3. ASSUME NEW r \in Requests, LoopStep(r) \/ Attempt(r)
      PROVE  Part'
  BY <1>3, LoopEffect, LoopOnlyStep DEF BulkInvariant, HP!LoopInvariant, Part
<1>4. ASSUME UNCHANGED <<callVars, poolVars, loopVars>>
      PROVE  Part'
  BY <1>4, NoEffect, LoopOnlyStep DEF Part
<1>5. ASSUME NEW r \in Requests, ArriveLate(r)
      PROVE  Part'
  BY <1>4, <1>5 DEF ArriveLate
<1>8. ASSUME SetIds
      PROVE  Part'
  BY <1>4, <1>8 DEF SetIds
<1>6. ASSUME UNCHANGED vars
      PROVE  Part'
  BY <1>4, <1>6 DEF vars
<1>7. Part'
  BY <1>2, <1>3, <1>5, <1>6, <1>8 DEF Next
<1> QED BY <1>1, <1>7 DEF BulkInvariant, Part

\* What holds at each place of write() (client.ts:507-589), with any number of chunks,
\* any limit, and any loss, delay or failure: the inductive invariant.
THEOREM BulkWriteCorrect == Spec => []BulkInvariant
  BY BulkInvariantInit, BulkInvariantStep, PTL DEF Spec

-----------------------------------------------------------------------------
\* What the invariant gives.

\* Outside transaction mode write() throws for a malformed model id, before any chunk, or
\* the error of a failed authentication, and for nothing else (client.ts:514, 551-563,
\* 571-583).
THEOREM OnlyAuthenticationEndsTheCall == Spec => []OnlyAuthenticationThrows
<1>1. BulkInvariant => OnlyAuthenticationThrows
  BY DEF BulkInvariant, Endings, StartedByThePool, OnlyAuthenticationThrows, Begun,
         AuthenticationFailed
<1> QED BY <1>1, BulkWriteCorrect, PTL

\* What the chunks hold is what was passed in.
LEMMA ChunksHoldAll ==
  ASSUME NEW items \in Seq(Tuple)
  PROVE  LET chunks == ChunkArray(items, MaxPerChunk)
         IN  Range(items) = UNION {Range(chunks[k]) : k \in DOMAIN chunks}
<1> DEFINE chunks == ChunkArray(items, MaxPerChunk)
<1>1. /\ \A k \in DOMAIN chunks : PP!IsPiece(chunks[k], items, MaxPerChunk, k)
      /\ \A i \in DOMAIN items :
           \E k \in DOMAIN chunks : \E j \in DOMAIN chunks[k] : i = (k - 1) * MaxPerChunk + j
  <2>1. MaxPerChunk \in Nat \ {0}
    BY BulkWriteAssumption
  <2>2. \A k \in DOMAIN chunks : PP!IsPiece(chunks[k], items, MaxPerChunk, k)
    BY <2>1, FinitelyMany, BulkWriteAssumption, PP!ChunksAreThePieces, SameChunks
  <2>3. PP!Covers(chunks, items, MaxPerChunk)
    BY <2>1, FinitelyMany, BulkWriteAssumption, PP!ChunksAreThePieces, SameChunks
  <2> QED BY <2>2, <2>3 DEF PP!Covers
<1> HIDE DEF chunks
<1>2. ASSUME NEW k \in DOMAIN chunks, NEW j \in DOMAIN chunks[k]
      PROVE  /\ (k - 1) * MaxPerChunk + j \in DOMAIN items
             /\ chunks[k][j] = items[(k - 1) * MaxPerChunk + j]
  BY <1>1 DEF PP!IsPiece
<1>3. ASSUME NEW k \in DOMAIN chunks PROVE Range(chunks[k]) \subseteq Range(items)
  BY <1>2 DEF Range
<1>4. ASSUME NEW i \in DOMAIN items
      PROVE  \E k \in DOMAIN chunks : items[i] \in Range(chunks[k])
  BY <1>1, <1>2 DEF Range
<1>5. Range(items) \subseteq UNION {Range(chunks[k]) : k \in DOMAIN chunks}
  BY <1>4 DEF Range
<1> QED BY <1>3, <1>5 DEF chunks

\* When write() returns, every tuple passed in is in its result, each request's once, and
\* no call to the API is still out (client.ts:548-588).
THEOREM EveryTupleIsReported == Spec => []ResultIsComplete
<1>1. ASSUME BulkInvariant, stage = "resolved"
      PROVE  /\ Injective(collected)
             /\ Range(collected) = IF disabled THEN WriteRequests \cup DeleteRequests
                                              ELSE {Transaction}
             /\ \A r \in Requests : Begun(r) => H!Settled(r)
  <2>1. CASE disabled
    <3>1. Past = WriteRequests \cup DeleteRequests
      BY <1>1, Zenon DEF Past
    <3> QED BY <1>1, <2>1, <3>1 DEF BulkInvariant, Collected, StartedByThePool
  <2>2. CASE ~disabled
    <3>1. collected = <<Transaction>> /\ phase[Transaction] = "resolved"
      BY <1>1, <2>2 DEF BulkInvariant, ModesApart, Succeeded
    <3>2. Injective(collected) /\ Range(collected) = {Transaction}
      BY <3>1 DEF Injective, Range
    <3> QED BY <1>1, <2>2, <3>1, <3>2 DEF BulkInvariant, ModesApart, H!Settled
  <2> QED BY <2>1, <2>2
<1>2. /\ Range(Writes) = UNION {Range(Body(r).writes) : r \in {Transaction}}
      /\ Range(Deletes) = UNION {Range(Body(r).deletes) : r \in {Transaction}}
  BY DEF Body
<1> DEFINE Pooled == WriteRequests \cup DeleteRequests
<1>3. /\ \A r \in WriteRequests : Body(r).writes = WriteChunks[r] /\ Body(r).deletes = <<>>
      /\ \A r \in DeleteRequests :
           Body(r).writes = <<>> /\ Body(r).deletes = DeleteChunks[r - Len(WriteChunks)]
  <2>1. ASSUME NEW r \in WriteRequests
        PROVE  Body(r).writes = WriteChunks[r] /\ Body(r).deletes = <<>>
    BY RequestsApart DEF Body
  <2>2. ASSUME NEW r \in DeleteRequests
        PROVE  Body(r).writes = <<>> /\ Body(r).deletes = DeleteChunks[r - Len(WriteChunks)]
    <3>1. r \notin WriteRequests /\ r # Transaction
      BY RequestsApart
    <3> QED BY <3>1 DEF Body
  <2> QED BY <2>1, <2>2
<1>4. /\ Range(Writes) = UNION {Range(WriteChunks[k]) : k \in DOMAIN WriteChunks}
      /\ Range(Deletes) = UNION {Range(DeleteChunks[k]) : k \in DOMAIN DeleteChunks}
  BY BulkWriteAssumption, ChunksHoldAll DEF WriteChunks, DeleteChunks
<1>5. Range(Writes) = UNION {Range(Body(r).writes) : r \in Pooled}
  <2>1. DOMAIN WriteChunks = WriteRequests
    BY RequestsApart DEF WriteRequests
  <2>2. \A r \in DeleteRequests : Range(Body(r).writes) = {}
    BY <1>3, EmptyRange
  <2>3. \A r \in WriteRequests : Range(Body(r).writes) = Range(WriteChunks[r])
    BY <1>3
  <2> QED BY <1>4, <2>1, <2>2, <2>3
<1>6. Range(Deletes) = UNION {Range(Body(r).deletes) : r \in Pooled}
  <2>1. DOMAIN DeleteChunks = 1 .. Len(DeleteChunks)
    BY RequestsApart
  <2>2. \A r \in WriteRequests : Range(Body(r).deletes) = {}
    BY <1>3, EmptyRange
  <2>3. \A r \in DeleteRequests :
          /\ r - Len(WriteChunks) \in DOMAIN DeleteChunks
          /\ Range(Body(r).deletes) = Range(DeleteChunks[r - Len(WriteChunks)])
    <3>1. \A r \in DeleteRequests : r - Len(WriteChunks) \in DOMAIN DeleteChunks
      BY <2>1, RequestsApart DEF DeleteRequests
    <3> QED BY <1>3, <3>1
  <2>4. \A k \in DOMAIN DeleteChunks :
          \E r \in DeleteRequests : Range(Body(r).deletes) = Range(DeleteChunks[k])
    <3> SUFFICES ASSUME NEW k \in DOMAIN DeleteChunks
                 PROVE  \E r \in DeleteRequests : Range(Body(r).deletes) = Range(DeleteChunks[k])
      OBVIOUS
    <3>1. Len(WriteChunks) + k \in DeleteRequests /\ (Len(WriteChunks) + k) - Len(WriteChunks) = k
      BY <2>1, RequestsApart DEF DeleteRequests
    <3> QED BY <2>3, <3>1
  <2>5. Range(Deletes) \subseteq UNION {Range(Body(r).deletes) : r \in Pooled}
    BY <1>4, <2>4
  <2>6. \A r \in Pooled : Range(Body(r).deletes) \subseteq Range(Deletes)
    BY <1>4, <2>2, <2>3
  <2> QED BY <2>5, <2>6
<1> HIDE DEF Pooled
<1>7. BulkInvariant => ResultIsComplete
  <2> SUFFICES ASSUME BulkInvariant, stage = "resolved" PROVE ResultIsComplete
    BY DEF ResultIsComplete
  <2>1. CASE disabled
    BY <1>1, <1>5, <1>6, <2>1 DEF ResultIsComplete, Injective, Pooled
  <2>2. CASE ~disabled
    BY <1>1, <1>2, <2>2 DEF ResultIsComplete, Injective
  <2> QED BY <2>1, <2>2
<1> QED BY <1>7, BulkWriteCorrect, PTL

\* A call succeeds only with an answer the server gave after carrying the request out.
LEMMA AcceptedStep ==
  BulkInvariant /\ SuccessWasAccepted /\ [Next]_vars => SuccessWasAccepted'
<1> SUFFICES ASSUME BulkInvariant, SuccessWasAccepted, [Next]_vars,
                    NEW r \in Requests, phase'[r] = "resolved"
             PROVE  r \in accepted'
  BY DEF SuccessWasAccepted, Succeeded
<1>1. phase \in [Requests -> HP!Phase] /\ waiting \in Seq(Requests)
          /\ accepted \subseteq accepted'
  <2>1. accepted \subseteq accepted'
    BY DEF Next, Client, RefuseIds, StartTransaction, EndTransaction, StartWrites, NextStage,
           Abort,
           SetIds,
           LaunchChunk, PoolStep, LoopStep, Attempt, ArriveLate, Serve, LoseAnswer, TurnAway,
           LoseAttempt, Apply, vars, serverVars
  <2> QED BY <2>1 DEF BulkInvariant, Types, HP!LoopInvariant, HP!TypeOK
<1>2. CASE phase[r] = "resolved"
  BY <1>1, <1>2 DEF SuccessWasAccepted, Succeeded
<1>3. ASSUME NEW q \in Requests, H!Succeed(q), Apply(q), Acceptable(q)
      PROVE  r \in accepted'
  BY <1>1, <1>2, <1>3 DEF H!Succeed, Apply
<1>4. ASSUME phase[r] # "resolved"
      PROVE  \E q \in Requests : H!Succeed(q) /\ Apply(q) /\ Acceptable(q)
  <2>1. ASSUME NEW q \in Requests, NEW p, p # "resolved", phase' = [phase EXCEPT ![q] = p]
        PROVE  FALSE
    BY <1>1, <1>4, <2>1
  <2>2. phase' # phase
    BY <1>4
  <2>3. Head(waiting) \in Requests \/ waiting = <<>>
    BY <1>1
  <2>4. ~Client
    BY <2>1, <2>2, <2>3, RequestsApart
    DEF Client, RefuseIds, StartTransaction, EndTransaction, StartWrites, NextStage, Abort,
        LaunchChunk, PoolStep, Pool!Launch, H!Call, RefuseChunk, loopVars
  <2>5. PICK q \in Requests : LoopStep(q) \/ Attempt(q) \/ ArriveLate(q)
    BY <2>2, <2>4 DEF Next, SetIds, vars, loopVars
  <2>6. ~ArriveLate(q)
    BY <2>2 DEF ArriveLate, loopVars
  <2>7. ~LoopStep(q)
    <3>1. H!Wake(q) => phase' = [phase EXCEPT ![q] = "sending"]
      <4> SUFFICES ASSUME H!Wake(q) PROVE phase' = [phase EXCEPT ![q] = "sending"]
        OBVIOUS
      <4>1. iterationCount[q] \in 1 .. maxRetry[q] /\ maxRetry[q] \in Nat
        BY DEF BulkInvariant, HP!LoopInvariant, HP!WhileSleeping, HP!TypeOK, H!Wake
      <4>2. H!LoopsAgain(iterationCount[q], maxRetry[q])
        BY <4>1 DEF H!LoopsAgain
      <4> QED BY <4>2 DEF H!Wake
    <3> QED BY <2>1, <3>1 DEF LoopStep, H!Authorize, H!Authorized, H!Unauthorized
  <2>8. \A err : ~AttemptFails(q, err)
    BY <2>1 DEF AttemptFails, H!Throw, H!Sleep
  <2> QED BY <2>5, <2>6, <2>7, <2>8 DEF Attempt, Serve, LoseAnswer, TurnAway, LoseAttempt
<1> QED BY <1>2, <1>3, <1>4

\* A tuple is reported as written only if the server has carried out an attempt of its
\* request, whatever was lost, repeated or late (client.ts:532-542, 564).
THEOREM SuccessIsAccepted == Spec => []SuccessWasAccepted
<1>1. Init => SuccessWasAccepted
  BY DEF Init, H!Init, SuccessWasAccepted, Succeeded
<1> QED BY <1>1, AcceptedStep, BulkWriteCorrect, PTL DEF Spec

\* What the server keeps, its tuples and requests of this call, and what the application
\* writes, the ids.
ServerTypes ==
  store \subseteq Tuple /\ late \subseteq Requests /\ accepted \subseteq Requests /\ ids \in Ids

\* Nothing else ever gets there.
LEMMA ServerTypesHold == Spec => []ServerTypes
<1>1. Init => ServerTypes
  BY BulkWriteAssumption DEF Init, ServerTypes
<1>2. ServerTypes /\ [Next]_vars => ServerTypes'
  <2> SUFFICES ASSUME ServerTypes, [Next]_vars PROVE ServerTypes'
    OBVIOUS
  <2>1. CASE UNCHANGED <<ids, serverVars>>
    BY <2>1 DEF ServerTypes, serverVars
  <2>7. CASE SetIds
    BY <2>7 DEF SetIds, ServerTypes, serverVars
  <2>2. \A r \in Requests : Range(Body(r).writes) \subseteq Tuple
    <3>1. Range(Writes) \subseteq Tuple /\ Range(<<>>) \subseteq Tuple
      BY BulkWriteAssumption DEF Range
    <3>2. ASSUME NEW r \in WriteRequests PROVE Range(WriteChunks[r]) \subseteq Tuple
      <4>1. WriteChunks[r] \in Seq(Tuple)
        BY RequestsApart DEF WriteRequests
      <4> QED BY <4>1 DEF Range
    <3> QED BY <3>1, <3>2 DEF Body
  <2>3. ASSUME NEW r \in Requests, Apply(r)
        PROVE  store' \subseteq Tuple /\ accepted' \subseteq Requests
    BY <2>2, <2>3 DEF Apply, ServerTypes
  <2>4. CASE Client
    BY <2>1, <2>4 DEF Client, RefuseIds, StartTransaction, EndTransaction, StartWrites,
                      NextStage, Abort, LaunchChunk, PoolStep
  <2>5. ASSUME NEW r \in Requests, LoopStep(r) \/ Attempt(r) \/ ArriveLate(r)
        PROVE  ServerTypes'
    BY <2>1, <2>3, <2>5 DEF LoopStep, Attempt, ArriveLate, Serve, LoseAnswer, TurnAway,
                            LoseAttempt, ServerTypes
  <2>6. CASE UNCHANGED vars
    BY <2>1, <2>6 DEF vars
  <2> QED BY <2>4, <2>5, <2>6, <2>7 DEF Next
<1> QED BY <1>1, <1>2, PTL DEF Spec

\* Type correctness of write(), of the pool and of the server (client.ts:508-588).
THEOREM BulkTypeCorrect == Spec => []TypeOK
<1>1. BulkInvariant /\ ServerTypes => TypeOK
  <2> SUFFICES ASSUME BulkInvariant, ServerTypes PROVE TypeOK
    OBVIOUS
  <2>1. Pool!TypeOK
    BY DEF BulkInvariant, Types, Pool!TypeOK, Outcome
  <2>2. H!TypeOK
    BY DEF BulkInvariant, HP!LoopInvariant, HP!TypeOK, H!TypeOK, HP!Phase, H!Phase,
           HP!Answered, H!Answered, HP!ErrorObject, H!ErrorObject, HP!NoError, H!NoError,
           HP!ErrorClass, H!ErrorClass, HP!Superclass, H!Superclass
  <2> QED BY <2>1, <2>2 DEF BulkInvariant, Types, ServerTypes, TypeOK
<1> QED BY <1>1, ServerTypesHold, BulkWriteCorrect, PTL
-----------------------------------------------------------------------------
\* What conflicts set to ignore are good for.

\* A failure of any other status is not thrown as a refusal of the write.
LEMMA OtherFailures ==
  ASSUME NEW err, err.status \notin {400, 422}
  PROVE  H!ErrorOf(H!ErrorClassOf(err)).name # "FgaApiValidationError"
<1>1. H!ErrorClassOf(err) # "FgaApiValidationError"
  BY DEF H!ErrorClassOf
<1> QED BY <1>1 DEF H!ErrorOf

\* An attempt fails as an invalid write only if the server does not accept it.
LEMMA ErrorStep ==
  ASSUME HP!LoopInvariant, Types, [Next]_vars, NEW r \in Requests,
         error'[r].name = "FgaApiValidationError"
  PROVE  error[r].name = "FgaApiValidationError" \/ ~Acceptable(r)
<1>1. DOMAIN error = Requests
  BY DEF HP!LoopInvariant, HP!TypeOK
<1>2. CASE error' = error
  BY <1>2
<1>3. ASSUME NEW q \in Requests, NEW err, H!Throw(q, err), err.status \notin {400, 422}
      PROVE  error[r].name = "FgaApiValidationError"
  <2>1. error' = [error EXCEPT ![q] = H!ErrorOf(H!ErrorClassOf(err))]
    BY <1>3 DEF H!Throw
  <2> QED BY <1>1, <1>3, <2>1, OtherFailures
<1>4. ASSUME NEW q \in Requests, H!Throw(q, InvalidWrite), ~Acceptable(q)
      PROVE  error[r].name = "FgaApiValidationError" \/ ~Acceptable(r)
  <2>1. \E e : error' = [error EXCEPT ![q] = e]
    BY <1>4 DEF H!Throw
  <2>2. CASE r = q
    BY <1>4, <2>2
  <2>3. CASE r # q
    BY <1>1, <2>1, <2>3
  <2> QED BY <2>2, <2>3
<1>5. ASSUME NEW q \in Requests, NEW e \in TokenErrors, H!Unauthorized(q, e)
      PROVE  error[r].name = "FgaApiValidationError"
  <2>1. error' = [error EXCEPT ![q] = e]
    BY <1>5 DEF H!Unauthorized
  <2> QED BY <1>1, <2>1, RefusalAssumption
<1>10. ASSUME NEW q \in Requests, RefuseChunk(q)
       PROVE  error[r].name = "FgaApiValidationError"
  <2>1. error' = [error EXCEPT ![q] = ErrorOf("FgaValidationError")]
    BY <1>10 DEF RefuseChunk
  <2> QED BY <1>1, <2>1 DEF ErrorOf
<1>6. CASE Client
  <2>1. CASE error' = error
    BY <1>2, <2>1
  <2>2. CASE LaunchChunk /\ error' # error
    <3>1. RefuseChunk(Head(waiting)) /\ Head(waiting) \in Requests
      BY <2>2 DEF LaunchChunk, Pool!Launch, H!Call, Types
    <3> QED BY <1>10, <3>1
  <2>3. LaunchChunk \/ error' = error
    BY <1>6
    DEF Client, RefuseIds, StartTransaction, EndTransaction, StartWrites, NextStage, Abort,
        PoolStep, H!Call, loopVars
  <2> QED BY <2>1, <2>2, <2>3
<1>11. CASE SetIds
  BY <1>2, <1>11 DEF SetIds, loopVars
<1>7. CASE UNCHANGED vars
  BY <1>2, <1>7 DEF vars, loopVars
<1>8. ASSUME NEW q \in Requests, LoopStep(q) \/ ArriveLate(q)
      PROVE  error[r].name = "FgaApiValidationError" \/ ~Acceptable(r)
  <2>1. \/ error' = error
        \/ \E e \in TokenErrors : H!Unauthorized(q, e)
    BY <1>8 DEF LoopStep, ArriveLate, H!Authorize, H!Authorized, H!Wake, loopVars
  <2> QED BY <1>2, <1>5, <2>1
<1>9. ASSUME NEW q \in Requests, Attempt(q)
      PROVE  error[r].name = "FgaApiValidationError" \/ ~Acceptable(r)
  <2>1. /\ NetworkError.status \notin {400, 422}
        /\ \A err \in Rejections : err.status \notin {400, 422}
    BY RefusalAssumption DEF NetworkError
  <2>2. \A err : H!Sleep(q, err) => error' = error
    BY DEF H!Sleep
  <2>3. H!Succeed(q) => error' = error
    BY DEF H!Succeed
  <2>4. CASE Serve(q)
    BY <1>2, <1>4, <2>2, <2>3, <2>4 DEF Serve, AttemptFails
  <2>5. CASE LoseAnswer(q) \/ LoseAttempt(q)
    BY <1>2, <1>3, <2>1, <2>2, <2>5 DEF LoseAnswer, LoseAttempt, AttemptFails
  <2>6. CASE TurnAway(q)
    BY <1>2, <1>3, <2>1, <2>2, <2>6 DEF TurnAway, AttemptFails
  <2> QED BY <1>9, <2>4, <2>5, <2>6 DEF Attempt
<1> QED BY <1>6, <1>7, <1>8, <1>9, <1>11 DEF Next

\* With both conflict options set to ignore no retry makes the server refuse a request it
\* has carried out, whatever answer was lost (client.ts:508, 523, 529, 551).
THEOREM IgnoringMakesRetriesSafe == Spec => []IgnoreMakesRetrySafe
<1>1. Init => IgnoreMakesRetrySafe
  BY DEF Init, H!Init, H!NoError, IgnoreMakesRetrySafe
<1>2. conflict' = conflict \/ ~[Next]_vars
  BY DEF Next, Client, RefuseIds, StartTransaction, EndTransaction, StartWrites, NextStage, Abort,
           SetIds,
         LaunchChunk, PoolStep, LoopStep, Attempt, ArriveLate, Serve, LoseAnswer, TurnAway,
         LoseAttempt, vars, callVars
<1>3. BulkInvariant /\ IgnoreMakesRetrySafe /\ [Next]_vars => IgnoreMakesRetrySafe'
  <2> SUFFICES ASSUME BulkInvariant, IgnoreMakesRetrySafe, [Next]_vars,
                      conflict = [onDuplicate |-> "ignore", onMissing |-> "ignore"],
                      NEW r \in Requests, ~Repeats(Body(r).writes \o Body(r).deletes),
                      error'[r].name = "FgaApiValidationError"
               PROVE  FALSE
    BY <1>2 DEF IgnoreMakesRetrySafe
  <2>1. Acceptable(r)
    BY DEF Acceptable, ConflictOf
  <2> QED BY <2>1, ErrorStep DEF BulkInvariant, IgnoreMakesRetrySafe
<1> QED BY <1>1, <1>3, BulkWriteCorrect, PTL DEF Spec
-----------------------------------------------------------------------------
\* Deletes come after the writes, but for an attempt that was given up.

\* An attempt of the request was given up: it is sent again, or has failed.
GivenUp(r) ==
  iterationCount[r] > 1 \/ (iterationCount[r] = 1 /\ phase[r] \in {"sleeping", "rejected"})

\* The requests are made in order: no delete before every write is over, and the server
\* sees those only that have been made.
MadeInOrder ==
  /\ \A r \in accepted : Begun(r)
  /\ \A r \in late : GivenUp(r)
  /\ disabled => ~Begun(Transaction)
  /\ disabled => \A d \in DeleteRequests, w \in WriteRequests : Begun(d) => H!Settled(w)

\* A tuple that is there after its delete has been written by such an attempt.
BackByALateWrite ==
  disabled =>
    \A d \in DeleteRequests : d \in accepted =>
      \A t \in Range(Body(d).deletes) \cap store :
        \E w \in WriteRequests : t \in Range(Body(w).writes) /\ GivenUp(w)

\* What a step of write() or of a loop does to the calls, as far as their order goes: at most
\* one begins, what has begun stays begun, what has settled settled, what was given up given up.
Keeps(begins) ==
  /\ SettledStay
  /\ UNCHANGED disabled
  /\ \A r \in Requests : (phase'[r] # "idle") <=> Begun(r) \/ r \in begins
  /\ \A r \in Requests : GivenUp(r) =>
       \/ iterationCount'[r] > 1
       \/ iterationCount'[r] = 1 /\ phase'[r] \in {"sleeping", "rejected"}

\* A loop goes on.
LEMMA LoopKeeps ==
  ASSUME HP!LoopInvariant, NEW q \in Requests, LoopStep(q) \/ Attempt(q)
  PROVE  Keeps({})
<1>1. /\ SettledStay /\ UNCHANGED disabled
      /\ \A r \in Requests : (phase'[r] # "idle") <=> Begun(r)
  BY LoopEffect DEF HP!LoopInvariant, callVars
<1>2. /\ phase \in [Requests -> HP!Phase] /\ iterationCount \in [Requests -> Nat]
      /\ maxRetry \in [Requests -> Nat]
  BY DEF HP!LoopInvariant, HP!TypeOK
<1>3. ASSUME H!Authorized(q) PROVE ~GivenUp(q) /\ \A r \in Requests \ {q} :
                 /\ phase'[r] = phase[r]
                                                     /\ iterationCount'[r] = iterationCount[r]
  BY <1>2, <1>3 DEF H!Authorized, GivenUp, HP!LoopInvariant, HP!NotYetSent
<1>4. ASSUME H!Wake(q) PROVE iterationCount'[q] > 1 /\ \A r \in Requests \ {q} :
                                /\ phase'[r] = phase[r] /\ iterationCount'[r] = iterationCount[r]
  <2>1. iterationCount[q] \in 1 .. maxRetry[q] /\ maxRetry[q] \in Nat
    BY <1>2, <1>4 DEF H!Wake, HP!LoopInvariant, HP!WhileSleeping
  <2>2. H!LoopsAgain(iterationCount[q], maxRetry[q])
    BY <2>1 DEF H!LoopsAgain
  <2>3. /\ iterationCount' = [iterationCount EXCEPT ![q] = @ + 1]
        /\ phase' = [phase EXCEPT ![q] = "sending"]
    BY <1>4, <2>2 DEF H!Wake
  <2> QED BY <1>2, <2>1, <2>3
<1>5. ASSUME NEW p \in {"resolved", "rejected", "sleeping"}, phase[q] \in {"sending",
                 "authorizing"},
             phase' = [phase EXCEPT ![q] = p], iterationCount' = iterationCount
      PROVE  \A r \in Requests : GivenUp(r) =>
               \/ iterationCount'[r] > 1
               \/ iterationCount'[r] = 1 /\ phase'[r] \in {"sleeping", "rejected"}
  BY <1>2, <1>5 DEF GivenUp
<1>6. \/ H!Authorized(q) \/ H!Wake(q)
      \/ \E p \in {"resolved", "rejected", "sleeping"} :
           /\ phase[q] \in {"sending", "authorizing"}
           /\ phase' = [phase EXCEPT ![q] = p] /\ iterationCount' = iterationCount
  BY DEF LoopStep, Attempt, H!Authorize, Serve, LoseAnswer, TurnAway, LoseAttempt, AttemptFails,
         H!Unauthorized, H!Succeed, H!Throw, H!Sleep
<1>7. \A r \in Requests : GivenUp(r) =>
        \/ iterationCount'[r] > 1
        \/ iterationCount'[r] = 1 /\ phase'[r] \in {"sleeping", "rejected"}
  BY <1>3, <1>4, <1>5, <1>6 DEF GivenUp
<1> QED BY <1>1, <1>7 DEF Keeps

\* Nothing happens to the loops.
LEMMA StillKeeps ==
  ASSUME UNCHANGED <<loopVars, disabled>>
  PROVE  Keeps({})
  BY NoEffect DEF Keeps, GivenUp, loopVars

\* A call begins.
LEMMA CallKeeps ==
  ASSUME HP!LoopInvariant, UNCHANGED disabled, NEW q \in Requests, H!Call(q, Unset)
  PROVE  Keeps({q})
<1>1. SettledStay /\ \A r \in Requests : (phase'[r] # "idle") <=> Begun(r) \/ r = q
  BY CallEffect DEF HP!LoopInvariant
<1>2. /\ phase \in [Requests -> HP!Phase] /\ iterationCount \in [Requests -> Nat]
      /\ phase[q] = "idle" /\ phase' = [phase EXCEPT ![q] = "authorizing"]
      /\ iterationCount' = iterationCount
  BY DEF HP!LoopInvariant, HP!TypeOK, H!Call
<1>3. ~GivenUp(q)
  BY <1>2 DEF GivenUp, HP!LoopInvariant, HP!NotYetSent
<1> QED BY <1>1, <1>2, <1>3 DEF Keeps, GivenUp

\* A chunk is refused.
LEMMA RefusalKeeps ==
  ASSUME HP!LoopInvariant, UNCHANGED disabled, NEW q \in Requests, RefuseChunk(q)
  PROVE  Keeps({q})
<1>1. SettledStay /\ \A r \in Requests : (phase'[r] # "idle") <=> Begun(r) \/ r = q
  BY RefusalEffect DEF HP!LoopInvariant
<1>2. /\ phase \in [Requests -> HP!Phase] /\ iterationCount \in [Requests -> Nat]
      /\ phase[q] = "idle" /\ phase' = [phase EXCEPT ![q] = "rejected"]
      /\ iterationCount' = iterationCount
  BY DEF HP!LoopInvariant, HP!TypeOK, RefuseChunk
<1>3. ~GivenUp(q)
  BY <1>2 DEF GivenUp, HP!LoopInvariant, HP!NotYetSent
<1> QED BY <1>1, <1>2, <1>3 DEF Keeps, GivenUp

\* What write() does to them: it begins none, the one of its transaction, or the next chunk,
\* a delete only when every write is over.
LEMMA ClientKeeps ==
  ASSUME BulkInvariant, MadeInOrder, Client
  PROVE  /\ UNCHANGED serverVars
         /\ \E begins \in SUBSET Requests :
              /\ Keeps(begins)
              /\ disabled => Transaction \notin begins
              /\ disabled /\ begins \cap DeleteRequests # {} =>
                     \A w \in WriteRequests : H!Settled(w)
<1> USE DEF BulkInvariant
<1>1. CASE StartTransaction
  <2>1. Keeps({Transaction}) /\ ~disabled
    BY <1>1, CallKeeps, RequestsApart DEF StartTransaction
  <2> QED BY <1>1, <2>1, RequestsApart DEF StartTransaction
<1>2. CASE RefuseIds \/ EndTransaction \/ StartWrites \/ NextStage \/ PoolStep
           \/ \E r \in Requests : Abort(r)
  <2>1. UNCHANGED <<loopVars, disabled, serverVars>>
    BY <1>2 DEF RefuseIds, EndTransaction, StartWrites, NextStage, Abort, PoolStep, callVars
  <2> QED BY <2>1, StillKeeps
<1>3. CASE LaunchChunk
  <2> DEFINE x == Head(waiting)
  <2>1. /\ stage \in {"writes", "deletes"} /\ waiting # <<>> /\ waiting \in Seq(Requests)
        /\ H!Call(x, Unset) \/ RefuseChunk(x)
        /\ UNCHANGED <<disabled, serverVars>> /\ disabled
    BY <1>3 DEF LaunchChunk, Pool!Launch, callVars, Types, ModesApart
  <2>2. x \in Requests /\ x \in Range(waiting)
    BY <2>1 DEF Range
  <2>3. x \in Planned
    BY <2>1, <2>2 DEF InOnePlace
  <2> HIDE DEF x
  <2>4. Keeps({x})
    BY <2>1, <2>2, CallKeeps, RefusalKeeps
  <2>5. x # Transaction
    BY <2>3, RequestsApart DEF Planned
  <2>6. ASSUME x \in DeleteRequests, NEW w \in WriteRequests PROVE H!Settled(w)
    <3>1. stage = "deletes"
      BY <2>1, <2>3, <2>6, RequestsApart DEF Planned
    <3>2. w \in Range(collected)
      BY <2>1, <3>1 DEF Collected, Past
    <3> QED BY <2>1, <3>2 DEF StartedByThePool
  <2> QED BY <2>1, <2>2, <2>4, <2>5, <2>6
<1> QED BY <1>1, <1>2, <1>3 DEF Client

\* The order is kept by a step that changes nothing at the server but what the calls made
\* allow: it carries out r, or leaves an attempt of r behind.
LEMMA OrderKept ==
  ASSUME MadeInOrder, NEW begins \in SUBSET Requests, Keeps(begins), ServerTypes,
         disabled => Transaction \notin begins,
         disabled /\ begins \cap DeleteRequests # {} => \A w \in WriteRequests : H!Settled(w),
         \A r \in accepted' : r \in Requests /\ (r \in accepted \/ Begun(r)),
         \A r \in late' :
           /\ r \in Requests
           /\ \/ r \in late
              \/ iterationCount'[r] > 1
              \/ iterationCount'[r] = 1 /\ phase'[r] \in {"sleeping", "rejected"}
  PROVE  MadeInOrder'
<1>1. \A r \in accepted' : Begun(r)'
  BY DEF MadeInOrder, Keeps, Begun
<1>2. \A r \in late' : GivenUp(r)'
  BY DEF MadeInOrder, Keeps, GivenUp
<1>3. disabled' => ~Begun(Transaction)'
  BY RequestsApart DEF MadeInOrder, Keeps, Begun
<1>4. ASSUME disabled', NEW d \in DeleteRequests, NEW w \in WriteRequests, Begun(d)'
      PROVE  H!Settled(w)'
  <2>1. H!Settled(w)
    BY <1>4, RequestsApart DEF MadeInOrder, Keeps, Begun
  <2> QED BY <2>1, RequestsApart DEF Keeps, SettledStay, H!Settled
<1> QED BY <1>1, <1>2, <1>3, <1>4 DEF MadeInOrder

\* No tuple comes back when no request is carried out.
LEMMA BackKept ==
  ASSUME BackByALateWrite, NEW begins, Keeps(begins), UNCHANGED <<store, accepted>>
  PROVE  BackByALateWrite'
<1> SUFFICES ASSUME disabled', NEW d \in DeleteRequests, d \in accepted',
                    NEW t \in Range(Body(d).deletes) \cap store'
             PROVE  \E w \in WriteRequests : t \in Range(Body(w).writes) /\ GivenUp(w)'
  BY DEF BackByALateWrite
<1>1. PICK w \in WriteRequests : t \in Range(Body(w).writes) /\ GivenUp(w)
  BY DEF BackByALateWrite, Keeps
<1>2. GivenUp(w)'
  BY <1>1, RequestsApart DEF Keeps, GivenUp
<1> QED BY <1>1, <1>2

\* What the bodies of the chunks hold: writes or deletes, not both.
LEMMA OneKind ==
  /\ \A r \in WriteRequests : Range(Body(r).deletes) = {}
  /\ \A r \in DeleteRequests : Range(Body(r).writes) = {}
<1>1. \A r \in WriteRequests : Body(r).deletes = <<>>
  BY RequestsApart DEF Body
<1>2. ASSUME NEW r \in DeleteRequests PROVE Body(r).writes = <<>>
  <2>1. r \notin WriteRequests /\ r # Transaction
    BY RequestsApart
  <2> QED BY <2>1 DEF Body
<1> QED BY <1>1, <1>2, EmptyRange

\* A request that is carried out brings a deleted tuple back only if it was given up.
LEMMA ApplyKeepsDeletes ==
  ASSUME MadeInOrder, BackByALateWrite, Keeps({}), NEW r \in Requests, Apply(r), Begun(r),
         r \in late \/ ~H!Settled(r)
  PROVE  BackByALateWrite'
<1> SUFFICES ASSUME disabled, NEW d \in DeleteRequests, d \in accepted',
                    NEW t \in Range(Body(d).deletes) \cap store'
             PROVE  \E w \in WriteRequests : t \in Range(Body(w).writes) /\ GivenUp(w)
  <2>1. \A w \in WriteRequests : GivenUp(w) => GivenUp(w)'
    BY RequestsApart DEF Keeps, GivenUp
  <2>2. disabled' = disabled
    BY DEF Keeps
  <2> QED BY <2>1, <2>2 DEF BackByALateWrite
<1>1. CASE t \in store /\ d \in accepted
  BY <1>1 DEF BackByALateWrite
<1>2. CASE ~(t \in store /\ d \in accepted)
  <2>1. /\ store' = (store \cup Range(Body(r).writes)) \ Range(Body(r).deletes)
        /\ accepted' = accepted \cup {r}
    BY <1>2 DEF Apply
  <2>2. d # r /\ d \in accepted /\ t \in Range(Body(r).writes)
    BY <1>2, <2>1
  <2>3. r \in WriteRequests
    <3>1. r # Transaction
      BY DEF MadeInOrder
    <3>2. r \notin DeleteRequests
      BY <2>2, OneKind
    <3> QED BY <3>1, <3>2 DEF Requests
  <2>4. H!Settled(r)
    BY <2>2, <2>3 DEF MadeInOrder
  <2>5. GivenUp(r)
    BY <2>4 DEF MadeInOrder
  <2> QED BY <2>2, <2>3, <2>5
<1> QED BY <1>1, <1>2

\* Both hold from the call on.
LEMMA OrderInit == Init => MadeInOrder /\ BackByALateWrite
  BY RequestsApart DEF Init, H!Init, MadeInOrder, BackByALateWrite, Begun

\* Every step keeps both.
LEMMA OrderStep ==
  BulkInvariant /\ ServerTypes /\ MadeInOrder /\ BackByALateWrite /\ [Next]_vars
    => MadeInOrder' /\ BackByALateWrite'
<1> SUFFICES ASSUME BulkInvariant, ServerTypes, MadeInOrder, BackByALateWrite, [Next]_vars
             PROVE  MadeInOrder' /\ BackByALateWrite'
  OBVIOUS
<1>1. HP!LoopInvariant /\ phase \in [Requests -> HP!Phase]
  BY DEF BulkInvariant, HP!LoopInvariant, HP!TypeOK
<1>2. CASE Client
  <2>1. PICK begins \in SUBSET Requests :
          /\ Keeps(begins)
          /\ disabled => Transaction \notin begins
          /\ disabled /\ begins \cap DeleteRequests # {} => \A w \in WriteRequests : H!Settled(w)
    BY <1>2, ClientKeeps
  <2>2. UNCHANGED serverVars
    BY <1>2, ClientKeeps
  <2>3. MadeInOrder'
    BY <2>1, <2>2, OrderKept DEF serverVars, ServerTypes
  <2> QED BY <2>1, <2>2, <2>3, BackKept DEF serverVars
<1>3. CASE SetIds \/ UNCHANGED vars
  <2>1. Keeps({}) /\ UNCHANGED <<store, accepted, late>>
    BY <1>3, StillKeeps DEF SetIds, vars, callVars, serverVars
  <2>2. MadeInOrder'
    BY <2>1, OrderKept DEF ServerTypes
  <2> QED BY <2>1, <2>2, BackKept
<1>4. ASSUME NEW q \in Requests, ArriveLate(q)
      PROVE  MadeInOrder' /\ BackByALateWrite'
  <2>1. Keeps({}) /\ q \in late /\ Apply(q) /\ late' = late \ {q}
    BY <1>4, StillKeeps DEF ArriveLate, callVars
  <2>2. Begun(q)
    BY <1>1, <2>1 DEF MadeInOrder, GivenUp, Begun, HP!LoopInvariant, HP!NotYetSent
  <2>3. MadeInOrder'
    BY <2>1, <2>2, OrderKept DEF ServerTypes, Apply
  <2> QED BY <2>1, <2>2, <2>3, ApplyKeepsDeletes
<1>5. ASSUME NEW q \in Requests, LoopStep(q)
      PROVE  MadeInOrder' /\ BackByALateWrite'
  <2>1. Keeps({}) /\ UNCHANGED <<store, accepted, late>>
    BY <1>1, <1>5, LoopKeeps DEF LoopStep, serverVars
  <2>2. MadeInOrder'
    BY <2>1, OrderKept DEF ServerTypes
  <2> QED BY <2>1, <2>2, BackKept
<1>6. ASSUME NEW q \in Requests, Attempt(q)
      PROVE  MadeInOrder' /\ BackByALateWrite'
  <2>1. Keeps({})
    BY <1>1, <1>6, LoopKeeps
  <2>2. phase[q] = "sending"
    BY <1>6 DEF Attempt, Serve, LoseAnswer, TurnAway, LoseAttempt, AttemptFails, H!Succeed,
                H!Throw, H!Sleep
  <2>3. Begun(q) /\ ~H!Settled(q) /\ (iterationCount[q] = 1 \/ iterationCount[q] > 1)
    BY <1>1, <2>2 DEF Begun, H!Settled, HP!LoopInvariant, HP!WhileSending, HP!TypeOK
  <2>4. CASE UNCHANGED late /\ Apply(q)
    <3>1. MadeInOrder'
      BY <2>1, <2>3, <2>4, OrderKept DEF ServerTypes, Apply
    <3> QED BY <2>1, <2>3, <2>4, <3>1, ApplyKeepsDeletes
  <2>5. CASE /\ UNCHANGED <<store, accepted>> /\ late' \in {late, late \cup {q}}
             /\ phase'[q] \in {"sleeping", "rejected"} /\ iterationCount' = iterationCount
    <3>1. MadeInOrder'
      BY <2>1, <2>3, <2>5, OrderKept DEF ServerTypes
    <3> QED BY <2>1, <2>5, <3>1, BackKept
  <2>6. \A err : AttemptFails(q, err) => /\ phase'[q] \in {"sleeping", "rejected"}
                                          /\ iterationCount' = iterationCount
    BY <1>1 DEF AttemptFails, H!Throw, H!Sleep
  <2> QED BY <1>6, <2>4, <2>5, <2>6
          DEF Attempt, Serve, LoseAnswer, TurnAway, LoseAttempt, serverVars
<1> QED BY <1>2, <1>3, <1>4, <1>5, <1>6 DEF Next

\* Outside transaction mode, a tuple whose delete was accepted is there at the end only if an
\* attempt to write it was given up (client.ts:549-586, common.ts:272).
THEOREM DeletesAreFinal == Spec => []DeletedTupleReturnsOnlyLate
<1>1. ASSUME BulkInvariant, SuccessWasAccepted, BackByALateWrite
      PROVE  DeletedTupleReturnsOnlyLate
  <2> SUFFICES ASSUME stage = "resolved", disabled, NEW d \in DeleteRequests, Succeeded(d),
                      NEW t \in Range(Body(d).deletes) \cap store
               PROVE  \E w \in WriteRequests :
                        /\ t \in Range(Body(w).writes)
                        /\ iterationCount[w] > 1 \/ (iterationCount[w] = 1 /\ ~Succeeded(w))
    BY DEF DeletedTupleReturnsOnlyLate
  <2>1. d \in accepted
    BY <1>1, RequestsApart DEF SuccessWasAccepted
  <2>2. PICK w \in WriteRequests : t \in Range(Body(w).writes) /\ GivenUp(w)
    BY <1>1, <2>1 DEF BackByALateWrite
  <2>3. iterationCount[w] > 1 \/ (iterationCount[w] = 1 /\ ~Succeeded(w))
    BY <2>2 DEF GivenUp, Succeeded
  <2> QED BY <2>2, <2>3
<1> QED BY <1>1, OrderInit, OrderStep, ServerTypesHold, SuccessIsAccepted, BulkWriteCorrect, PTL
        DEF Spec
=============================================================================

