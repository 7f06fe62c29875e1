------------------------ MODULE ClientBatchCheckProofs ------------------------
(***************************************************************************)
(* Theorems about ClientBatchCheck, for every list of checks, every limit, *)
(* every answer or failure of each, and every store id the application     *)
(* sets meanwhile.                                                         *)
(***************************************************************************)
EXTENDS ClientBatchCheck, FiniteSetTheorems, WellFoundedInduction, TLAPS

PP == INSTANCE AsyncPoolProofs
        WITH Item <- Check, Concurrency <- MaxParallelRequests, outcome <- Outcome

-----------------------------------------------------------------------------
\* The inductive invariant.

Injective(s) == \A j, k \in DOMAIN s : s[j] = s[k] => j = k

Types ==
  /\ method \in Methods /\ body \in Bodies /\ optionStoreId \in OptionStoreIds
  /\ stage \in {"called", "checking", "resolved", "rejected"}
  /\ result \in Seq([request : Check, allowed : BOOLEAN \cup {Unset},
                     error : ErrorObject \cup {NoError}])
  /\ relations \subseteq Check
  /\ thrown \in ErrorObject \cup {NoError}
  /\ storeId \in ClientStoreIds /\ past \in Seq(ClientStoreIds)
  /\ promise \in [Check -> {"none", "pending", "fulfilled", "rejected"}]
  /\ sentTo \in [Check -> ClientStoreIds \cup OptionStoreIds \cup {Unset}]
  /\ allowed \in [Check -> BOOLEAN \cup {Unset}]
  /\ error \in [Check -> ErrorObject \cup {NoError}]
  /\ verdicts \in [Check -> SUBSET BOOLEAN]
  /\ waiting \in Seq(Check)
  /\ executing \subseteq Check
  /\ yielded \in Seq(Check)
  /\ generator \in {"running", "done", "thrown"}

\* What is known of a single check.
Answers ==
  \A c \in Check :
    /\ promise[c] # "rejected" => error[c] = NoError
    /\ promise[c] = "rejected" => error[c] # NoError
    /\ promise[c] = "fulfilled" => allowed[c] # Unset
    /\ allowed[c] # Unset => allowed[c] \in verdicts[c]

\* Before the loop nothing has begun.
BeforeTheLoop ==
  stage = "called" =>
    /\ executing = {} /\ yielded = <<>> /\ result = <<>> /\ generator = "running"
    /\ \A c \in Check : promise[c] = "none"

\* In the loop each check is in one place, once ...
InOnePlace ==
  stage = "checking" =>
    /\ Range(waiting) \cup executing \cup Range(yielded) = Range(body)
    /\ Range(waiting) \cap executing = {}
    /\ Range(waiting) \cap Range(yielded) = {}
    /\ executing \cap Range(yielded) = {}
    /\ Injective(waiting) /\ Injective(yielded)
    /\ generator = "running"

\* ... what has begun was started by the pool, and what it handed over has settled with
\* no failed authentication.
StartedByThePool ==
  /\ stage = "checking" =>
       \A c \in Check : promise[c] # "none" => c \in executing \cup Range(yielded)
  /\ \A c \in Range(yielded) :
       promise[c] \in {"fulfilled", "rejected"} /\ ~AuthenticationFailed(c)

\* The results are those of the checks handed over, in that order.
ResultsMatch ==
  Len(result) = Len(yielded) /\ \A k \in DOMAIN yielded : result[k] = ResultOf(yielded[k])

\* How the call can end.
Endings ==
  /\ stage = "resolved" =>
       /\ Range(yielded) = Range(body) /\ Injective(yielded)
       /\ \A c \in Check : promise[c] # "none" => c \in Range(yielded)
       /\ method = "listRelations" =>
            /\ ErrorsIn(result) = {}
            /\ relations = {result[k].request : k \in {j \in DOMAIN result :
                   result[j].allowed = TRUE}}
  /\ stage = "rejected" /\ method = "clientBatchCheck" =>
       \E c \in Check : AuthenticationFailed(c) /\ thrown = error[c]

CheckInvariant ==
  /\ Types /\ Answers /\ BeforeTheLoop /\ InOnePlace /\ StartedByThePool /\ ResultsMatch
  /\ Endings

-----------------------------------------------------------------------------
\* Lemmas.

\* A check cannot be undecided and decided: undefined is no verdict.
LEMMA Values ==
  /\ Unset \notin BOOLEAN /\ NoError \notin ErrorObject
  /\ ErrorOf("FgaValidationError") \in ErrorObject
  /\ ErrorOf("FgaValidationError").class # "FgaApiAuthenticationError"
<1>1. Unset \notin BOOLEAN
  BY ClientBatchCheckAssumption
<1>2. NoError \notin ErrorObject
  BY DEF NoError, ErrorObject, ErrorClass, Superclass
<1>3. /\ ErrorOf("FgaValidationError") \in ErrorObject
      /\ ErrorOf("FgaValidationError").class # "FgaApiAuthenticationError"
  BY DEF ErrorOf, ErrorObject, ErrorClass, Superclass
<1> QED BY <1>1, <1>2, <1>3

\* The empty sequence has no items.
LEMMA EmptyRange == Range(<<>>) = {} /\ Injective(<<>>)
  BY DEF Range, Injective

\* What the pool's two operations on its queues do.
LEMMA PoolAssumption == PP!IsFiniteSet(Check) /\ MaxParallelRequests \in Int
  BY ClientBatchCheckAssumption DEF IsFiniteSet, PP!IsFiniteSet

LEMMA TailRange ==
  ASSUME NEW s \in Seq(Check), s # <<>>, Injective(s)
  PROVE  /\ Head(s) \in Check /\ Head(s) \in Range(s) /\ Tail(s) \in Seq(Check)
         /\ Range(Tail(s)) = Range(s) \ {Head(s)} /\ Injective(Tail(s))
<1>1. /\ Head(s) \in Check /\ Tail(s) \in Seq(Check)
      /\ PP!Items(Tail(s)) = PP!Items(s) \ {Head(s)} /\ Head(s) \in PP!Items(s)
      /\ \A j, k \in DOMAIN Tail(s) : Tail(s)[j] = Tail(s)[k] => j = k
  BY PoolAssumption, PP!TailItems DEF Injective
<1> QED BY <1>1 DEF PP!Items, Range, Injective

LEMMA AppendRange ==
  ASSUME NEW s \in Seq(Check), NEW c \in Check, c \notin Range(s), Injective(s)
  PROVE  /\ Append(s, c) \in Seq(Check)
         /\ Range(Append(s, c)) = Range(s) \cup {c} /\ Injective(Append(s, c))
<1>1. c \notin PP!Items(s)
  BY DEF PP!Items, Range
<1>2. /\ Append(s, c) \in Seq(Check)
      /\ PP!Items(Append(s, c)) = PP!Items(s) \cup {c}
      /\ \A j, k \in DOMAIN Append(s, c) : Append(s, c)[j] = Append(s, c)[k] => j = k
  BY <1>1, PoolAssumption, PP!AppendItems DEF Injective
<1> QED BY <1>2 DEF PP!Items, Range, Injective

\* Two sequences of the same items, each once, are of the same length.
LEMMA SameLength ==
  ASSUME NEW s \in Seq(Check), NEW t \in Seq(Check), Range(s) = Range(t),
         Injective(s), Injective(t)
  PROVE  Len(s) = Len(t)
<1> DEFINE S == Range(s)
<1>1. s \in Seq(S) /\ t \in Seq(S) /\ S \subseteq Check
  <2>1. /\ Len(s) \in Nat /\ DOMAIN s = 1 .. Len(s) /\ s \in [1 .. Len(s) -> Check]
        /\ Len(t) \in Nat /\ DOMAIN t = 1 .. Len(t) /\ t \in [1 .. Len(t) -> Check]
    OBVIOUS
  <2>2. s \in [1 .. Len(s) -> S] /\ t \in [1 .. Len(t) -> S]
    BY <2>1 DEF Range
  <2> HIDE DEF S
  <2>3. s \in Seq(S) /\ t \in Seq(S)
    BY <2>1, <2>2
  <2> QED BY <2>1, <2>3 DEF S, Range
<1>2. PP!IsFiniteSet(S)
  <2>1. IsFiniteSet(S)
    BY <1>1, ClientBatchCheckAssumption, FS_Subset
  <2> QED BY <2>1 DEF IsFiniteSet, PP!IsFiniteSet
<1>3. PP!Items(s) = S /\ PP!Items(t) = S
  BY DEF PP!Items, Range
<1> HIDE DEF S
<1>4. Len(s) = PP!Cardinality(S)
  BY <1>1, <1>2, <1>3, PoolAssumption, PP!InjectiveLength DEF Injective
<1>5. Len(t) = PP!Cardinality(S)
  BY <1>1, <1>2, <1>3, PoolAssumption, PP!InjectiveLength DEF Injective
<1> QED BY <1>4, <1>5

\* Of the places that hold an error there is a first.
LEMMA FirstOf ==
  ASSUME NEW T \in SUBSET Nat, T # {}
  PROVE  \E k \in T : \A j \in T : k <= j
<1>1. PICK k \in T : \A j \in T : <<j, k>> \notin OpToRel(<, Nat)
  BY NatLessThanWellFounded, WFMin
<1>2. \A j \in T : ~(j < k)
  BY <1>1, Zenon DEF OpToRel
<1> QED BY <1>2

\* Which promises of the pool have settled.
LEMMA Outcomes ==
  ASSUME Types, NEW c \in Check
  PROVE  /\ Outcome[c] = "rejected" => AuthenticationFailed(c)
         /\ Outcome[c] = "fulfilled" =>
              promise[c] \in {"fulfilled", "rejected"} /\ ~AuthenticationFailed(c)
<1>1. error[c] \in ErrorObject \cup {NoError}
  BY DEF Types
<1>2. EndsTheCall(error[c]) <=> error[c].class = "FgaApiAuthenticationError"
  BY <1>1, SMTT(30) DEF EndsTheCall, InstanceOf, ErrorObject, NoError, ErrorClass, Superclass
<1> QED BY <1>2 DEF Outcome, AuthenticationFailed

-----------------------------------------------------------------------------
\* The invariant is inductive.

LEMMA CheckInvariantInit == Init => CheckInvariant
<1> SUFFICES ASSUME Init PROVE CheckInvariant
  OBVIOUS
<1>1. waiting = <<>> /\ executing = {} /\ yielded = <<>> /\ generator = "running"
  BY DEF Init, Pool!Fresh
<1>2. Types
  BY <1>1 DEF Init, Types
<1>3. Answers /\ BeforeTheLoop
  BY <1>1 DEF Init, Answers, BeforeTheLoop
<1>4. InOnePlace /\ StartedByThePool /\ ResultsMatch /\ Endings
  BY <1>1, EmptyRange DEF Init, InOnePlace, StartedByThePool, ResultsMatch, Endings
<1> QED BY <1>2, <1>3, <1>4 DEF CheckInvariant



\* A call of listRelations without relations throws.
LEMMA RefuseCallStep ==
  ASSUME CheckInvariant, RefuseCall
  PROVE  CheckInvariant'
<1> USE DEF CheckInvariant, clientVars, requestVars, poolVars
<1>1. /\ stage = "called" /\ stage' = "rejected" /\ method = "listRelations"
      /\ thrown' \in ErrorObject
      /\ UNCHANGED <<method, body, optionStoreId, result, relations, clientVars,
                     requestVars, poolVars>>
  BY Values DEF RefuseCall
<1>2. Types'
  BY <1>1 DEF Types
<1>3. Answers' /\ BeforeTheLoop' /\ InOnePlace' /\ Endings'
  BY <1>1 DEF Answers, BeforeTheLoop, InOnePlace, Endings
<1>4. StartedByThePool'
  BY <1>1 DEF StartedByThePool, AuthenticationFailed
<1>5. ResultsMatch'
  BY <1>1 DEF ResultsMatch, ResultOf
<1> QED BY <1>2, <1>3, <1>4, <1>5

\* The pool is given all the checks.
LEMMA StartChecksStep ==
  ASSUME CheckInvariant, StartChecks
  PROVE  CheckInvariant'
<1> USE DEF CheckInvariant, clientVars, requestVars
<1>1. /\ stage = "called" /\ stage' = "checking" /\ waiting' = body
      /\ executing = {} /\ yielded = <<>> /\ result = <<>> /\ generator = "running"
      /\ \A c \in Check : promise[c] = "none"
      /\ UNCHANGED <<method, body, optionStoreId, result, relations, thrown, clientVars,
                     requestVars, executing, yielded, generator>>
  BY DEF StartChecks, BeforeTheLoop
<1>2. body \in Seq(Check) /\ Injective(body)
  BY ClientBatchCheckAssumption DEF Types, IsInjective, Injective
<1>3. Types'
  BY <1>1, <1>2 DEF Types
<1>4. Answers' /\ BeforeTheLoop' /\ Endings'
  BY <1>1 DEF Answers, BeforeTheLoop, Endings
<1>5. InOnePlace'
  BY <1>1, <1>2, EmptyRange DEF InOnePlace
<1>6. StartedByThePool'
  BY <1>1, EmptyRange DEF StartedByThePool
<1>7. ResultsMatch'
  BY <1>1 DEF ResultsMatch
<1> QED BY <1>3, <1>4, <1>5, <1>6, <1>7

\* A check leaves the queue and begins, or is refused for its store id.
LEMMA LaunchCheckStep ==
  ASSUME CheckInvariant, LaunchCheck
  PROVE  CheckInvariant'
<1> USE DEF CheckInvariant
<1> DEFINE x == Head(waiting)
<1>1. /\ stage = "checking" /\ generator = "running" /\ waiting # <<>>
      /\ executing' = executing \cup {x} /\ waiting' = Tail(waiting)
      /\ UNCHANGED <<yielded, generator, callVars, clientVars, verdicts, allowed>>
  BY DEF LaunchCheck, Pool!Launch
<1>2. waiting \in Seq(Check) /\ Injective(waiting)
  BY <1>1 DEF Types, InOnePlace
<1>3. /\ x \in Check /\ x \in Range(waiting) /\ waiting' \in Seq(Check)
      /\ Range(waiting') = Range(waiting) \ {x} /\ Injective(waiting')
  BY <1>1, <1>2, TailRange
<1>4. /\ promise' = [promise EXCEPT ![x] = "pending"]
             \/ promise' = [promise EXCEPT ![x] = "rejected"]
      /\ promise'[x] = "pending" => error' = error
      /\ promise'[x] = "rejected" => error' = [error EXCEPT ![x] = ErrorOf("FgaValidationError")]
      /\ sentTo' = sentTo \/ (StoreIsUsable /\ sentTo' = [sentTo EXCEPT ![x] = StoreOf])
  BY <1>3 DEF LaunchCheck, Types
<1> HIDE DEF x
<1>5. promise[x] = "none" /\ x \notin Range(yielded)
  BY <1>1, <1>3 DEF InOnePlace, StartedByThePool, Types
<1>6. /\ \A c \in Check \ {x} : promise'[c] = promise[c] /\ error'[c] = error[c]
      /\ promise'[x] \in {"pending", "rejected"}
      /\ error'[x] = IF promise'[x] = "rejected" THEN ErrorOf("FgaValidationError") ELSE error[x]
  BY <1>3, <1>4 DEF Types
<1>7. Types'
  <2>1. StoreOf \in ClientStoreIds \cup OptionStoreIds
    BY DEF StoreOf, Types
  <2>2. sentTo' \in [Check -> ClientStoreIds \cup OptionStoreIds \cup {Unset}]
    BY <1>4, <2>1 DEF Types
  <2>3. /\ promise' \in [Check -> {"none", "pending", "fulfilled", "rejected"}]
        /\ error' \in [Check -> ErrorObject \cup {NoError}]
    BY <1>4, <1>6, <1>3, Values DEF Types
  <2> QED BY <1>1, <1>3, <2>2, <2>3 DEF Types, callVars, clientVars
<1>8. Answers'
  BY <1>1, <1>3, <1>5, <1>6, Values DEF Answers
<1>9. BeforeTheLoop' /\ Endings'
  BY <1>1 DEF BeforeTheLoop, Endings, callVars
<1>10. InOnePlace'
  BY <1>1, <1>3 DEF InOnePlace, callVars
<1>11. Range(yielded) \subseteq Check \ {x}
  BY <1>5 DEF Types, Range
<1>12. StartedByThePool'
  BY <1>1, <1>5, <1>6, <1>11 DEF StartedByThePool, AuthenticationFailed, callVars
<1>13. ResultsMatch'
  <2>1. \A k \in DOMAIN yielded : yielded[k] \in Check \ {x}
    BY <1>11 DEF Range
  <2> QED BY <1>1, <1>6, <2>1 DEF ResultsMatch, ResultOf, callVars
<1> QED BY <1>7, <1>8, <1>9, <1>10, <1>12, <1>13

\* The result of a settled check is taken.
LEMMA CollectStep ==
  ASSUME CheckInvariant, NEW c \in Check, Collect(c)
  PROVE  CheckInvariant'
<1> USE DEF CheckInvariant, clientVars, requestVars
<1>1. /\ stage = "checking" /\ c \in executing /\ Outcome[c] = "fulfilled"
      /\ executing' = executing \ {c} /\ yielded' = Append(yielded, c)
      /\ result' = Append(result, ResultOf(c))
      /\ UNCHANGED <<waiting, generator, method, body, optionStoreId, stage, relations, thrown,
                     clientVars, requestVars>>
  BY DEF Collect, Pool!Yield, Pool!Waits
<1>2. yielded \in Seq(Check) /\ Injective(yielded) /\ c \notin Range(yielded)
  BY <1>1 DEF Types, InOnePlace
<1>3. /\ yielded' \in Seq(Check) /\ Range(yielded') = Range(yielded) \cup {c}
      /\ Injective(yielded')
  BY <1>1, <1>2, AppendRange
<1>4. promise[c] \in {"fulfilled", "rejected"} /\ ~AuthenticationFailed(c)
  BY <1>1, Outcomes
<1>5. ResultOf(c) \in [request : Check, allowed : BOOLEAN \cup {Unset},
                       error : ErrorObject \cup {NoError}]
  BY DEF ResultOf, Types
<1>6. Types'
  BY <1>1, <1>3, <1>5 DEF Types
<1>7. Answers' /\ BeforeTheLoop' /\ Endings'
  BY <1>1 DEF Answers, BeforeTheLoop, Endings
<1>8. InOnePlace'
  BY <1>1, <1>3 DEF InOnePlace
<1>9. StartedByThePool'
  BY <1>1, <1>3, <1>4 DEF StartedByThePool, AuthenticationFailed
<1>10. ResultsMatch'
  <2> DEFINE R == [request : Check, allowed : BOOLEAN \cup {Unset},
                   error : ErrorObject \cup {NoError}]
  <2>1. result \in Seq(R) /\ ResultOf(c) \in R
    BY <1>5 DEF Types
  <2> HIDE DEF R
  <2>2. /\ Len(result) \in Nat /\ DOMAIN result = 1 .. Len(result)
        /\ Len(result') = Len(result) + 1
        /\ result'[Len(result) + 1] = ResultOf(c)
        /\ \A k \in 1 .. Len(result) : result'[k] = result[k]
    BY <1>1, <2>1
  <2>3. /\ Len(yielded) \in Nat /\ DOMAIN yielded = 1 .. Len(yielded)
        /\ Len(yielded') = Len(yielded) + 1 /\ DOMAIN yielded' = 1 .. (Len(yielded) + 1)
        /\ yielded'[Len(yielded) + 1] = c
        /\ \A k \in 1 .. Len(yielded) : yielded'[k] = yielded[k]
    BY <1>1, <1>2
  <2>4. Len(result) = Len(yielded) /\ \A k \in 1 .. Len(yielded) :
            result[k] = ResultOf(yielded[k])
    BY <2>3 DEF ResultsMatch
  <2>5. \A k \in 1 .. (Len(yielded) + 1) : k \in 1 .. Len(yielded) \/ k = Len(yielded) + 1
    BY <2>3
  <2>6. \A k \in 1 .. (Len(yielded) + 1) : result'[k] = ResultOf(yielded'[k])
    BY <2>2, <2>3, <2>4, <2>5
  <2> QED BY <1>1, <2>2, <2>3, <2>4, <2>6 DEF ResultsMatch, ResultOf
<1> QED BY <1>6, <1>7, <1>8, <1>9, <1>10

\* The pool throws what a check failed with.
LEMMA AbortStep ==
  ASSUME CheckInvariant, NEW c \in Check, Abort(c)
  PROVE  CheckInvariant'
<1> USE DEF CheckInvariant, clientVars, requestVars
<1>1. /\ stage = "checking" /\ Outcome[c] = "rejected" /\ thrown' = error[c]
             /\ stage' = "rejected"
      /\ generator' = "thrown"
      /\ UNCHANGED <<method, body, optionStoreId, result, relations, clientVars,
                     requestVars, waiting, executing, yielded>>
  BY DEF Abort, Pool!Throw
<1>2. AuthenticationFailed(c)
  BY <1>1, Outcomes
<1>3. Types'
  BY <1>1 DEF Types
<1>4. Answers' /\ BeforeTheLoop' /\ InOnePlace'
  BY <1>1 DEF Answers, BeforeTheLoop, InOnePlace
<1>5. StartedByThePool'
  BY <1>1 DEF StartedByThePool, AuthenticationFailed
<1>6. ResultsMatch'
  BY <1>1 DEF ResultsMatch, ResultOf
<1>7. Endings'
  BY <1>1, <1>2 DEF Endings, AuthenticationFailed
<1> QED BY <1>3, <1>4, <1>5, <1>6, <1>7

\* The loop has ended normally.
LEMMA EndChecksStep ==
  ASSUME CheckInvariant, EndChecks
  PROVE  CheckInvariant'
<1> USE DEF CheckInvariant, clientVars, requestVars
<1>1. /\ stage = "checking" /\ waiting = <<>> /\ executing = {} /\ generator' = "done"
      /\ stage' \in {"resolved", "rejected"}
      /\ UNCHANGED <<method, body, optionStoreId, result, clientVars,
                     requestVars, waiting, executing, yielded>>
  BY DEF EndChecks, Pool!Finish
<1>2. /\ DOMAIN result \subseteq Nat
      /\ \A k \in DOMAIN result :
           result[k].request \in Check /\ result[k].error \in ErrorObject \cup {NoError}
  <2> DEFINE R == [request : Check, allowed : BOOLEAN \cup {Unset},
                   error : ErrorObject \cup {NoError}]
  <2>1. result \in Seq(R)
    BY DEF Types
  <2>2. \A x \in R : x.request \in Check /\ x.error \in ErrorObject \cup {NoError}
    OBVIOUS
  <2> HIDE DEF R
  <2>3. DOMAIN result \subseteq Nat /\ \A k \in DOMAIN result : result[k] \in R
    BY <2>1
  <2> QED BY <2>2, <2>3
<1>3. ASSUME method = "listRelations", ErrorsIn(result) # {}
      PROVE  /\ stage' = "rejected" /\ UNCHANGED relations
             /\ thrown' \in ErrorObject \cup {NoError}
  <2> DEFINE first == CHOOSE k \in ErrorsIn(result) : \A j \in ErrorsIn(result) : k <= j
  <2>1. ErrorsIn(result) \in SUBSET Nat
    BY <1>2 DEF ErrorsIn
  <2>2. first \in ErrorsIn(result)
    BY <1>3, <2>1, FirstOf
  <2>3. stage' = "rejected" /\ thrown' = result[first].error /\ UNCHANGED relations
    BY <1>3 DEF EndChecks
  <2> HIDE DEF first
  <2> QED BY <1>2, <2>2, <2>3 DEF ErrorsIn
<1>4. ASSUME ~(method = "listRelations" /\ ErrorsIn(result) # {})
      PROVE  /\ stage' = "resolved" /\ UNCHANGED thrown /\ relations' \subseteq Check
             /\ relations' = {result[k].request : k \in {j \in DOMAIN result :
                    result[j].allowed = TRUE}}
  <2>1. /\ stage' = "resolved" /\ UNCHANGED thrown
        /\ relations' = {result[k].request : k \in {j \in DOMAIN result :
               result[j].allowed = TRUE}}
    BY <1>4 DEF EndChecks
  <2> QED BY <1>2, <2>1
<1>5. /\ thrown' \in ErrorObject \cup {NoError} /\ relations' \subseteq Check
      /\ stage' = "rejected" => method = "listRelations"
      /\ stage' = "resolved" /\ method = "listRelations" =>
           /\ ErrorsIn(result) = {}
           /\ relations' = {result[k].request : k \in {j \in DOMAIN result :
                  result[j].allowed = TRUE}}
  BY <1>3, <1>4 DEF Types
<1>6. Types'
  BY <1>1, <1>5 DEF Types
<1>7. Answers' /\ BeforeTheLoop' /\ InOnePlace'
  BY <1>1 DEF Answers, BeforeTheLoop, InOnePlace
<1>8. StartedByThePool'
  BY <1>1 DEF StartedByThePool, AuthenticationFailed
<1>9. ResultsMatch'
  BY <1>1 DEF ResultsMatch, ResultOf
<1>10. Endings'
  <2>1. /\ Range(yielded) = Range(body) /\ Injective(yielded)
        /\ \A c \in Check : promise[c] # "none" => c \in Range(yielded)
    BY <1>1, EmptyRange DEF InOnePlace, StartedByThePool
  <2> QED BY <1>1, <1>5, <2>1 DEF Endings, ErrorsIn
<1> QED BY <1>6, <1>7, <1>8, <1>9, <1>10

\* The server evaluates a check, answers it, or it fails: nothing the loop has taken
\* changes.
LEMMA RequestStep ==
  ASSUME CheckInvariant, NEW c \in Check, Evaluate(c) \/ Answer(c) \/ Fail(c)
  PROVE  CheckInvariant'
<1> USE DEF CheckInvariant
<1>1. /\ promise[c] = "pending"
      /\ UNCHANGED <<callVars, clientVars, poolVars, sentTo>>
  BY DEF Evaluate, Answer, Fail
<1>2. /\ promise' \in [Check -> {"none", "pending", "fulfilled", "rejected"}]
      /\ promise'[c] \in {"pending", "fulfilled", "rejected"}
      /\ allowed' \in [Check -> BOOLEAN \cup {Unset}]
      /\ error' \in [Check -> ErrorObject \cup {NoError}]
      /\ verdicts' \in [Check -> SUBSET BOOLEAN]
  <2>1. CASE Evaluate(c)
    BY <1>1, <2>1 DEF Types, Evaluate
  <2>2. CASE Answer(c)
    BY <1>1, <2>2 DEF Types, Answer
  <2>3. CASE Fail(c)
    BY <1>1, <2>3, ClientBatchCheckAssumption DEF Types, Fail
  <2> QED BY <2>1, <2>2, <2>3
<1>3. \A d \in Check \ {c} : /\ promise'[d] = promise[d] /\ allowed'[d] = allowed[d]
                             /\ error'[d] = error[d] /\ verdicts'[d] = verdicts[d]
  BY DEF Types, Evaluate, Answer, Fail
<1>4. /\ promise'[c] # "rejected" => error'[c] = error[c]
      /\ promise'[c] = "rejected" => error'[c] \in Errors
      /\ promise'[c] = "fulfilled" => allowed'[c] # Unset
      /\ allowed'[c] # Unset => allowed'[c] \in verdicts'[c]
  <2>1. CASE Evaluate(c)
    BY <1>1, <2>1 DEF Evaluate, Types, Answers
  <2>2. CASE Answer(c)
    BY <1>1, <2>2 DEF Answer, Types, Answers
  <2>3. CASE Fail(c)
    BY <1>1, <2>3 DEF Fail, Types, Answers
  <2> QED BY <2>1, <2>2, <2>3
<1>5. Types'
  BY <1>1, <1>2 DEF Types, callVars, clientVars, poolVars
<1>6. Answers'
  BY <1>1, <1>3, <1>4, Values, ClientBatchCheckAssumption DEF Answers
<1>7. BeforeTheLoop' /\ InOnePlace'
  <2>1. BeforeTheLoop'
    BY <1>1 DEF BeforeTheLoop, callVars, poolVars
  <2>2. InOnePlace'
    BY <1>1 DEF InOnePlace, callVars, poolVars
  <2> QED BY <2>1, <2>2
<1>8. Range(yielded) \subseteq Check \ {c}
  BY <1>1, SMTT(30) DEF StartedByThePool, Types, Range
<1>9. StartedByThePool'
  BY <1>1, <1>2, <1>3, <1>8 DEF StartedByThePool, AuthenticationFailed, callVars, poolVars
<1>10. ResultsMatch'
  <2>1. \A k \in DOMAIN yielded : yielded[k] \in Check \ {c}
    BY <1>8 DEF Range
  <2> QED BY <1>1, <1>3, <2>1 DEF ResultsMatch, ResultOf, callVars, poolVars
<1>11. Endings'
  <2>1. \A d \in Check : AuthenticationFailed(d) => d # c
    BY <1>1 DEF AuthenticationFailed
  <2> QED BY <1>1, <1>2, <1>3, <2>1 DEF Endings, AuthenticationFailed, callVars, poolVars
<1> QED BY <1>5, <1>6, <1>7, <1>9, <1>10, <1>11

\* The application sets client.storeId, or nothing happens.
LEMMA SetStoreIdStep ==
  ASSUME CheckInvariant, UNCHANGED <<callVars, requestVars, poolVars>>,
         storeId' \in ClientStoreIds, past' \in Seq(ClientStoreIds)
  PROVE  CheckInvariant'
<1> USE DEF CheckInvariant, callVars, requestVars, poolVars
<1>1. Types'
  BY DEF Types
<1>2. Answers' /\ BeforeTheLoop' /\ InOnePlace'
  BY DEF Answers, BeforeTheLoop, InOnePlace
<1>3. StartedByThePool' /\ Endings'
  BY DEF StartedByThePool, Endings, AuthenticationFailed
<1>4. ResultsMatch'
  BY DEF ResultsMatch, ResultOf
<1> QED BY <1>1, <1>2, <1>3, <1>4

LEMMA CheckInvariantStep == CheckInvariant /\ [Next]_vars => CheckInvariant'
<1> SUFFICES ASSUME CheckInvariant, [Next]_vars PROVE CheckInvariant'
  OBVIOUS
<1>1. CASE Client
  BY <1>1, RefuseCallStep, StartChecksStep, LaunchCheckStep, EndChecksStep, CollectStep, AbortStep
  DEF Client
<1>2. ASSUME NEW c \in Check, Evaluate(c) \/ Settle(c) PROVE CheckInvariant'
  BY <1>2, RequestStep DEF Settle
<1>3. ASSUME NEW s \in ClientStoreIds, SetStoreId(s) PROVE CheckInvariant'
  <2>1. past' \in Seq(ClientStoreIds)
    BY <1>3 DEF SetStoreId, CheckInvariant, Types
  <2> QED BY <1>3, <2>1, SetStoreIdStep DEF SetStoreId
<1>4. CASE UNCHANGED vars
  <2>1. storeId' \in ClientStoreIds /\ past' \in Seq(ClientStoreIds)
    BY <1>4 DEF CheckInvariant, Types, vars, clientVars
  <2> QED BY <1>4, <2>1, SetStoreIdStep DEF vars
<1> QED BY <1>1, <1>2, <1>3, <1>4 DEF Next

\* What holds at each place of the loop over the checks (client.ts:682-699), for any list
\* of checks, any limit and any failures: the inductive invariant.
THEOREM ClientBatchCheckCorrect == Spec => []CheckInvariant
  BY CheckInvariantInit, CheckInvariantStep, PTL DEF Spec

-----------------------------------------------------------------------------
\* What the invariant gives.

\* Type correctness of the call, its requests and its pool (client.ts:676-702, 860-884).
THEOREM ClientBatchCheckTypeCorrect == Spec => []TypeOK
<1>1. CheckInvariant => TypeOK
  <2> SUFFICES ASSUME CheckInvariant PROVE TypeOK
    OBVIOUS
  <2>1. Outcome \in [Check -> {"pending", "fulfilled", "rejected"}]
    BY DEF Outcome
  <2> QED BY <2>1 DEF CheckInvariant, Types, TypeOK, Pool!TypeOK
<1> QED BY <1>1, ClientBatchCheckCorrect, PTL

\* The place of a check in the result.
LEMMA PlaceOf ==
  ASSUME CheckInvariant, NEW c \in Range(yielded)
  PROVE  \E k \in DOMAIN result : result[k] = ResultOf(c)
<1>1. PICK k \in DOMAIN yielded : yielded[k] = c
  BY DEF Range
<1>2. DOMAIN result = 1 .. Len(result) /\ DOMAIN yielded = 1 .. Len(yielded)
  BY DEF CheckInvariant, Types
<1> QED BY <1>1, <1>2 DEF CheckInvariant, ResultsMatch

\* When clientBatchCheck returns, each check passed in has one result with its own answer
\* or its own error (client.ts:682-701).
THEOREM EachCheckIsAnswered == Spec => []EachCheckHasItsResult
<1>1. CheckInvariant => EachCheckHasItsResult
  <2> SUFFICES ASSUME CheckInvariant, stage = "resolved" PROVE EachCheckHasItsResult
    BY DEF EachCheckHasItsResult
  <2>1. Range(yielded) = Range(body) /\ Injective(yielded)
    BY DEF CheckInvariant, Endings
  <2>2. /\ body \in Seq(Check) /\ Injective(body) /\ yielded \in Seq(Check)
    BY ClientBatchCheckAssumption DEF CheckInvariant, Types, IsInjective, Injective
  <2>3. Len(result) = Len(body)
    BY <2>1, <2>2, SameLength DEF CheckInvariant, ResultsMatch
  <2>4. ASSUME NEW c \in Range(body)
        PROVE  \E k \in DOMAIN result :
                 /\ result[k].request = c
                 /\ IF promise[c] = "fulfilled"
                    THEN result[k].allowed = allowed[c] /\ result[k].error = NoError
                    ELSE result[k].allowed = Unset /\ result[k].error = error[c]
    <3>1. c \in Check /\ (promise[c] = "fulfilled" => error[c] = NoError)
      BY <2>2 DEF Range, CheckInvariant, Answers
    <3>2. PICK k \in DOMAIN result : result[k] = ResultOf(c)
      BY <2>1, PlaceOf
    <3> QED BY <3>1, <3>2 DEF ResultOf
  <2> QED BY <2>3, <2>4 DEF EachCheckHasItsResult
<1> QED BY <1>1, ClientBatchCheckCorrect, PTL

\* listRelations returns exactly the relations the server found to hold at some time
\* during the call, and never takes a failure for a denial (client.ts:878-883).
THEOREM NoFailureIsADenial == Spec => []RelationsAreJustified
<1>1. CheckInvariant => RelationsAreJustified
  <2> SUFFICES ASSUME CheckInvariant, stage = "resolved", method = "listRelations"
               PROVE  RelationsAreJustified
    BY DEF RelationsAreJustified
  <2>1. /\ Range(yielded) = Range(body) /\ ErrorsIn(result) = {}
        /\ relations = {result[k].request : k \in {j \in DOMAIN result :
               result[j].allowed = TRUE}}
    BY DEF CheckInvariant, Endings
  <2>2. yielded \in Seq(Check) /\ DOMAIN result = DOMAIN yielded
    BY DEF CheckInvariant, Types, ResultsMatch
  <2>3. \A k \in DOMAIN result : result[k] = ResultOf(yielded[k]) /\ result[k].error = NoError
    BY <2>1, <2>2 DEF CheckInvariant, ResultsMatch, ErrorsIn
  <2>4. ASSUME NEW c \in Range(body)
        PROVE  /\ c \in Check /\ promise[c] = "fulfilled" /\ allowed[c] \in BOOLEAN
               /\ allowed[c] \in verdicts[c]
               /\ allowed[c] = TRUE => c \in relations
    <3>1. PICK k \in DOMAIN yielded : yielded[k] = c
      BY <2>1 DEF Range
    <3>2. c \in Check /\ result[k] = ResultOf(c) /\ error[c] = NoError
      BY <2>2, <2>3, <3>1 DEF ResultOf
    <3>3. promise[c] = "fulfilled"
      BY <2>1, <3>2 DEF CheckInvariant, StartedByThePool, Answers
    <3>4. allowed[c] \in BOOLEAN /\ allowed[c] \in verdicts[c]
      BY <3>2, <3>3 DEF CheckInvariant, Answers, Types
    <3>5. allowed[c] = TRUE => c \in relations
      BY <2>1, <2>2, <3>1, <3>2, <3>3 DEF ResultOf
    <3> QED BY <3>2, <3>3, <3>4, <3>5
  <2>5. ASSUME NEW c \in relations
        PROVE  c \in Range(body) /\ allowed[c] = TRUE
    <3>1. PICK k \in DOMAIN result : result[k].request = c /\ result[k].allowed = TRUE
      BY <2>1
    <3>2. result[k] = ResultOf(yielded[k]) /\ yielded[k] = c
      BY <2>3, <3>1 DEF ResultOf
    <3>3. c \in Range(body)
      BY <2>1, <2>2, <3>1, <3>2 DEF Range
    <3>4. promise[c] = "fulfilled"
      BY <2>4, <3>3
    <3> QED BY <3>1, <3>2, <3>3, <3>4 DEF ResultOf
  <2>6. ASSUME NEW c \in Range(body) PROVE (c \in relations) \in verdicts[c]
    <3>1. CASE allowed[c] = TRUE
      <4>1. (c \in relations) = TRUE
        BY <2>4, <3>1
      <4> QED BY <2>4, <3>1, <4>1
    <3>2. CASE allowed[c] = FALSE
      <4>1. (c \in relations) = FALSE
        <5>1. ASSUME c \in relations PROVE FALSE
          <6>1. allowed[c] = TRUE
            BY <2>5, <5>1
          <6> QED BY <3>2, <6>1
        <5> QED BY <5>1
      <4> QED BY <2>4, <3>2, <4>1
    <3> QED BY <2>4, <3>1, <3>2
  <2> QED BY <2>4, <2>5, <2>6 DEF RelationsAreJustified
<1> QED BY <1>1, ClientBatchCheckCorrect, PTL

\* A failed authentication of a check, and no other failure, makes clientBatchCheck throw,
\* and it throws that error (client.ts:688-698).
THEOREM OnlyAuthenticationThrows == Spec => []AuthenticationEndsTheCall
<1>1. CheckInvariant => AuthenticationEndsTheCall
  BY DEF CheckInvariant, Endings, StartedByThePool, AuthenticationEndsTheCall,
         AuthenticationFailed
<1> QED BY <1>1, ClientBatchCheckCorrect, PTL

-----------------------------------------------------------------------------
\* The stores of a call.

\* How many checks have begun.
Begun == Len(body) - Len(waiting)

\* The checks begin in the order of the body; those in the queue are its end.
InOrder ==
  /\ stage = "called" => \A c \in Check : sentTo[c] = Unset
  /\ stage = "checking" =>
       /\ Len(waiting) <= Len(body)
       /\ \A i \in DOMAIN waiting : waiting[i] = body[Begun + i]
       /\ \A j \in DOMAIN body : j > Begun => sentTo[body[j]] = Unset

\* The client's store id is the last it has had, and a check that was sent went to the
\* call's own store, or to one the client has had.
KnownStores ==
  /\ past # <<>> /\ storeId = past[Len(past)]
  /\ \A c \in Check : sentTo[c] # Unset =>
       IF optionStoreId # Unset THEN sentTo[c] = optionStoreId ELSE sentTo[c] \in Range(past)

StoreInvariant == InOrder /\ KnownStores /\ SplitFollowsTheClient

LEMMA StoreInvariantInit == Init => StoreInvariant
<1> SUFFICES ASSUME Init PROVE StoreInvariant
  OBVIOUS
<1>1. \A c \in Check : sentTo[c] = Unset
  BY DEF Init
<1>2. \A j \in DOMAIN body : body[j] \in Check
  BY ClientBatchCheckAssumption DEF Init
<1>3. past # <<>> /\ storeId = past[Len(past)]
  BY DEF Init
<1> QED BY <1>1, <1>2, <1>3 DEF Init, StoreInvariant, InOrder, KnownStores, SplitFollowsTheClient

\* The queue is the body at first.
LEMMA StoresAtTheStart ==
  ASSUME CheckInvariant, StoreInvariant, StartChecks
  PROVE  StoreInvariant'
<1>1. /\ stage = "called" /\ stage' = "checking" /\ waiting' = body
      /\ UNCHANGED <<body, optionStoreId, sentTo, storeId, past>>
  BY DEF StartChecks, clientVars, requestVars
<1>2. body \in Seq(Check) /\ \A c \in Check : sentTo[c] = Unset
  BY <1>1, ClientBatchCheckAssumption DEF CheckInvariant, Types, StoreInvariant, InOrder
<1>3. Begun' = 0
  BY <1>1, <1>2 DEF Begun
<1>4. InOrder'
  BY <1>1, <1>2, <1>3 DEF InOrder
<1> QED BY <1>1, <1>4 DEF StoreInvariant, KnownStores, SplitFollowsTheClient

\* The check that begins goes to the store of the call, or to the one the client has now.
LEMMA StoresAtALaunch ==
  ASSUME CheckInvariant, StoreInvariant, LaunchCheck
  PROVE  StoreInvariant'
<1> DEFINE x == Head(waiting)
           n == Begun
<1>1. /\ stage = "checking" /\ waiting # <<>> /\ waiting' = Tail(waiting)
      /\ UNCHANGED <<stage, body, optionStoreId, storeId, past>>
      /\ sentTo' = sentTo \/ (StoreIsUsable /\ sentTo' = [sentTo EXCEPT ![x] = StoreOf])
  BY DEF LaunchCheck, Pool!Launch, callVars, clientVars
<1>2. /\ waiting \in Seq(Check) /\ body \in Seq(Check) /\ past \in Seq(ClientStoreIds)
      /\ sentTo \in [Check -> ClientStoreIds \cup OptionStoreIds \cup {Unset}]
      /\ \A j, k \in DOMAIN body : body[j] = body[k] => j = k
  BY ClientBatchCheckAssumption DEF CheckInvariant, Types, IsInjective
<1>3. /\ Len(waiting) \in Nat \ {0} /\ Len(body) \in Nat /\ Len(waiting) <= Len(body)
      /\ DOMAIN body = 1 .. Len(body) /\ DOMAIN waiting = 1 .. Len(waiting)
      /\ x = waiting[1] /\ x \in Check
  BY <1>1, <1>2 DEF StoreInvariant, InOrder
<1>4. n \in Nat /\ n + 1 \in DOMAIN body /\ x = body[n + 1]
  BY <1>1, <1>3 DEF StoreInvariant, InOrder, Begun
<1>5. /\ Begun' = n + 1 /\ DOMAIN waiting' = 1 .. (Len(waiting) - 1)
      /\ Len(waiting') = Len(waiting) - 1
      /\ \A i \in DOMAIN waiting' : waiting'[i] = waiting[i + 1]
  BY <1>1, <1>2, <1>3 DEF Begun
<1>6. /\ \A c \in Check \ {x} : sentTo'[c] = sentTo[c]
      /\ sentTo'[x] = sentTo[x] \/ sentTo'[x] = StoreOf
  BY <1>1, <1>2
<1>7. sentTo[x] = Unset /\ \A j \in DOMAIN body : j > n => sentTo[body[j]] = Unset
  BY <1>1, <1>3, <1>4 DEF StoreInvariant, InOrder
<1>8. \A j \in DOMAIN body : body[j] \in Check /\ (j # n + 1 => body[j] # x)
  BY <1>2, <1>4
<1>9. /\ Len(past) \in Nat \ {0} /\ DOMAIN past = 1 .. Len(past)
      /\ storeId = past[Len(past)] /\ Len(past) \in DOMAIN past
  BY <1>2 DEF StoreInvariant, KnownStores
<1>10. sentTo'[x] = Unset \/ sentTo'[x] = IF optionStoreId # Unset THEN optionStoreId ELSE past[Len(past)]
  BY <1>6, <1>7, <1>9 DEF StoreOf
<1>11. \A c \in Check : sentTo[c] # Unset =>
         IF optionStoreId # Unset THEN sentTo[c] = optionStoreId ELSE sentTo[c] \in Range(past)
  BY DEF StoreInvariant, KnownStores
<1> HIDE DEF x, n
<1>12. InOrder'
  <2>1. /\ stage' = "checking" /\ Len(waiting') <= Len(body')
    BY <1>1, <1>3, <1>5
  <2>2. ASSUME NEW i \in DOMAIN waiting' PROVE waiting'[i] = body'[Begun' + i]
    <3>1. i \in 1 .. (Len(waiting) - 1) /\ i + 1 \in DOMAIN waiting
      BY <1>3, <1>5
    <3>2. waiting[i + 1] = body[n + (i + 1)]
      BY <1>1, <3>1 DEF StoreInvariant, InOrder, n
    <3>3. n + (i + 1) = (n + 1) + i
      BY <1>4, <3>1
    <3> QED BY <1>1, <1>5, <3>2, <3>3
  <2>3. ASSUME NEW j \in DOMAIN body', j > Begun' PROVE sentTo'[body'[j]] = Unset
    <3>1. j \in DOMAIN body /\ j > n /\ j # n + 1
      BY <1>1, <1>3, <1>4, <1>5, <2>3
    <3> QED BY <1>1, <1>6, <1>7, <1>8, <3>1
  <2> QED BY <2>1, <2>2, <2>3 DEF InOrder
<1>13. KnownStores'
  <2>1. ASSUME NEW c \in Check, sentTo'[c] # Unset
        PROVE  IF optionStoreId # Unset THEN sentTo'[c] = optionStoreId
               ELSE sentTo'[c] \in Range(past)
    <3>1. CASE c = x
      BY <1>9, <1>10, <2>1, <3>1 DEF Range
    <3>2. CASE c # x
      BY <1>6, <1>11, <2>1, <3>2
    <3> QED BY <3>1, <3>2
  <2> QED BY <1>1, <2>1 DEF StoreInvariant, KnownStores
<1>14. SplitFollowsTheClient'
  <2> SUFFICES ASSUME NEW j \in DOMAIN body, NEW k \in DOMAIN body, j <= k,
                      sentTo'[body[j]] # Unset, sentTo'[body[k]] # Unset
               PROVE  IF optionStoreId # Unset
                      THEN sentTo'[body[j]] = optionStoreId /\ sentTo'[body[k]] = optionStoreId
                      ELSE \E a, b \in DOMAIN past :
                             a <= b /\ past[a] = sentTo'[body[j]] /\ past[b] = sentTo'[body[k]]
    BY <1>1 DEF SplitFollowsTheClient
  <2>1. k <= n + 1
    BY <1>3, <1>4, <1>6, <1>7, <1>8
  <2>2. CASE k # n + 1
    <3>1. j # n + 1
      BY <1>3, <1>4, <2>1, <2>2
    <3>2. sentTo'[body[j]] = sentTo[body[j]] /\ sentTo'[body[k]] = sentTo[body[k]]
      BY <1>6, <1>8, <2>2, <3>1
    <3> QED BY <3>2 DEF StoreInvariant, SplitFollowsTheClient
  <2>3. CASE k = n + 1
    <3>1. IF optionStoreId # Unset THEN sentTo'[body[k]] = optionStoreId
          ELSE sentTo'[body[k]] = past[Len(past)]
      BY <1>4, <1>10, <2>3
    <3>2. IF optionStoreId # Unset THEN sentTo'[body[j]] = optionStoreId
          ELSE sentTo'[body[j]] \in Range(past)
      BY <1>8, <1>1, <1>13 DEF KnownStores
    <3>3. \A a \in DOMAIN past : a <= Len(past)
      BY <1>9
    <3>4. CASE optionStoreId # Unset
      BY <3>1, <3>2, <3>4
    <3>5. CASE optionStoreId = Unset
      <4>1. PICK a \in DOMAIN past : past[a] = sentTo'[body[j]]
        BY <3>2, <3>5 DEF Range
      <4> QED BY <1>9, <3>1, <3>3, <3>5, <4>1
    <3> QED BY <3>4, <3>5
  <2> QED BY <2>2, <2>3
<1> QED BY <1>12, <1>13, <1>14 DEF StoreInvariant

\* The application sets the store id: what was sent stays where it went.
LEMMA StoresAtAChange ==
  ASSUME CheckInvariant, StoreInvariant, NEW s \in ClientStoreIds, SetStoreId(s)
  PROVE  StoreInvariant'
<1>1. /\ storeId' = s /\ past' = Append(past, s)
      /\ UNCHANGED <<stage, body, optionStoreId, sentTo, waiting>>
  BY DEF SetStoreId, callVars, requestVars, poolVars
<1>2. past \in Seq(ClientStoreIds)
  BY DEF CheckInvariant, Types
<1>3. /\ Len(past) \in Nat /\ DOMAIN past = 1 .. Len(past)
      /\ DOMAIN past' = 1 .. (Len(past) + 1) /\ Len(past') = Len(past) + 1
      /\ past'[Len(past) + 1] = s /\ \A a \in DOMAIN past : past'[a] = past[a]
  BY <1>1, <1>2
<1>4. InOrder'
  BY <1>1 DEF StoreInvariant, InOrder, Begun
<1>5. KnownStores'
  <2>1. past' # <<>> /\ storeId' = past'[Len(past')]
    BY <1>1, <1>3
  <2>2. \A v \in Range(past) : v \in Range(past')
    BY <1>3 DEF Range
  <2> QED BY <1>1, <2>1, <2>2 DEF StoreInvariant, KnownStores
<1>6. SplitFollowsTheClient'
  <2>1. \A a \in DOMAIN past : a \in DOMAIN past'
    BY <1>3
  <2> QED BY <1>1, <1>3, <2>1 DEF StoreInvariant, SplitFollowsTheClient
<1> QED BY <1>4, <1>5, <1>6 DEF StoreInvariant

\* No other step sends a check, and none returns to the loop.
LEMMA StoresElsewhere ==
  ASSUME StoreInvariant, UNCHANGED <<body, optionStoreId, sentTo, waiting, storeId, past>>,
         stage' = stage \/ stage' \in {"resolved", "rejected"}
  PROVE  StoreInvariant'
<1>1. InOrder'
  BY DEF StoreInvariant, InOrder, Begun
<1> QED BY <1>1 DEF StoreInvariant, KnownStores, SplitFollowsTheClient

\* A call is split over two stores by the application only: with a store id of its own all
\* its checks go there, and without one their stores follow, in the order of the checks,
\* the values client.storeId has had since the call (client.ts:281-292, 682-688).
THEOREM ChecksFollowTheClient == Spec => []SplitFollowsTheClient
<1>1. CheckInvariant /\ StoreInvariant /\ [Next]_vars => StoreInvariant'
  <2> SUFFICES ASSUME CheckInvariant, StoreInvariant, [Next]_vars PROVE StoreInvariant'
    OBVIOUS
  <2>1. CASE StartChecks
    BY <2>1, StoresAtTheStart
  <2>2. CASE LaunchCheck
    BY <2>2, StoresAtALaunch
  <2>3. ASSUME NEW s \in ClientStoreIds, SetStoreId(s) PROVE StoreInvariant'
    BY <2>3, StoresAtAChange
  <2>4. CASE RefuseCall \/ EndChecks \/ \E c \in Check : Collect(c) \/ Abort(c)
    <3>1. /\ UNCHANGED <<body, optionStoreId, sentTo, waiting, storeId, past>>
          /\ stage' = stage \/ stage' \in {"resolved", "rejected"}
      BY <2>4 DEF RefuseCall, EndChecks, Collect, Abort, Pool!Yield, Pool!Throw, Pool!Finish,
                  clientVars, requestVars, poolVars
    <3> QED BY <3>1, StoresElsewhere
  <2>5. CASE \E c \in Check : Evaluate(c) \/ Settle(c)
    <3>1. UNCHANGED <<callVars, clientVars, poolVars, sentTo>>
      BY <2>5 DEF Settle, Evaluate, Answer, Fail
    <3> QED BY <3>1, StoresElsewhere DEF callVars, clientVars, poolVars
  <2>6. CASE UNCHANGED vars
    BY <2>6, StoresElsewhere DEF vars, callVars, clientVars, requestVars, poolVars
  <2> QED BY <2>1, <2>2, <2>3, <2>4, <2>5, <2>6 DEF Next, Client
<1>2. StoreInvariant => SplitFollowsTheClient
  BY DEF StoreInvariant
<1> QED BY <1>1, <1>2, StoreInvariantInit, ClientBatchCheckCorrect, PTL DEF Spec
=============================================================================
