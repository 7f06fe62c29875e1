--------------------------- MODULE ClientBatchCheck ---------------------------
(***************************************************************************)
(* OpenFgaClient.clientBatchCheck and listRelations on top of it           *)
(* (src/client.ts:676-702, 860-884): one Check request for every item, run *)
(* by the pool (AsyncPool), the answers collected as they settle.          *)
(*                                                                         *)
(* While a call is under way the application may set client.storeId, which *)
(* every check reads when it starts.  A Check request is the promise       *)
(* RemoteCall describes: the server may evaluate it several times, each    *)
(* time on the relationships of that moment, and it is answered once, with *)
(* the last verdict, or fails.                                             *)
(***************************************************************************)
EXTENDS SdkErrors, Sequences, FiniteSets, Functions

CONSTANTS
  Check,               \* the checks; for listRelations the relations
  Bodies,              \* what may be passed: sequences of different checks
  Methods,             \* the methods called, "clientBatchCheck" and "listRelations"
  MaxParallelRequests, \* options.maxParallelRequests
  ClientStoreIds,      \* the values of client.storeId considered
  MaxChanges,          \* bound: how often the application sets it during the call
  OptionStoreIds,      \* the values of options.storeId considered
  Malformed,           \* store ids that are no ULID
  Errors,              \* the errors a Check request can be rejected with
  Unset                \* undefined

ASSUME ClientBatchCheckAssumption ==
  /\ Bodies \subseteq Seq(Check)
  /\ \A b \in Bodies : IsInjective(b)
  /\ IsFiniteSet(Check)
  /\ Methods \subseteq {"clientBatchCheck", "listRelations"}
  /\ MaxParallelRequests \in Int
  /\ MaxChanges \in Nat
  /\ Unset \notin Malformed \cup BOOLEAN
  /\ Errors \subseteq ErrorObject

VARIABLES
  method, body, optionStoreId, \* the call
  stage,     \* called, checking, resolved or rejected
  result,    \* the results collected, in order
  relations, \* what listRelations returns
  thrown,    \* what the call throws
  storeId,   \* client.storeId
  past,      \* its values since the call was made, the present one last (history)
  \* the Check requests
  promise,   \* none, pending, fulfilled or rejected
  sentTo,    \* the store in its path
  allowed,   \* the server's last verdict, Unset until there is one
  error,     \* what it was rejected with
  verdicts,  \* all of its verdicts (history)
  \* the pool
  waiting, executing, yielded, generator

poolVars    == <<waiting, executing, yielded, generator>>
requestVars == <<promise, sentTo, allowed, error, verdicts>>
callVars    == <<method, body, optionStoreId, stage, result, relations, thrown>>
clientVars  == <<storeId, past>>
vars        == <<callVars, clientVars, requestVars, poolVars>>

\* Mutant: every error ends the call.
AnyErrorEndsTheCall(e) == InstanceOf(e, "FgaError")

\* The catch of each check: which errors it throws on.
EndsTheCall(e) == InstanceOf(e, "FgaApiAuthenticationError")

\* What has become of the promise the pool was given for a check.
Outcome ==
  [c \in Check |->
     IF promise[c] = "rejected" /\ EndsTheCall(error[c]) THEN "rejected"
     ELSE IF promise[c] \in {"fulfilled", "rejected"} THEN "fulfilled"
     ELSE "pending"]

Pool == INSTANCE AsyncPool
          WITH Item <- Check, Concurrency <- MaxParallelRequests, outcome <- Outcome

-----------------------------------------------------------------------------
\* Mutant: the client's own store id comes first.
ClientStoreFirst == IF storeId # Unset THEN storeId ELSE optionStoreId

\* getStoreId(options): the store, and whether it throws.
StoreOf       == IF optionStoreId # Unset THEN optionStoreId ELSE storeId
StoreIsUsable == StoreOf # Unset /\ StoreOf \notin Malformed

\* Mutant: what the check answered is looked up by its place.
ResultByPlace(c) ==
  [request |-> body[Len(result) + 1],
   allowed |-> IF promise[c] = "fulfilled" THEN allowed[c] ELSE Unset,
   error   |-> error[c]]

\* The element of `result` for a check: the response with _request, or the error.
ResultOf(c) ==
  [request |-> c,
   allowed |-> IF promise[c] = "fulfilled" THEN allowed[c] ELSE Unset,
   error   |-> error[c]]

\* Mutant: a failed check counts as one that is not allowed.
ErrorsAreDenials(results) == {}

\* The places of the results that have an error.
ErrorsIn(results) == {k \in DOMAIN results : results[k].error # NoError}

Init ==
  /\ method \in Methods /\ body \in Bodies /\ optionStoreId \in OptionStoreIds
  /\ stage = "called"
  /\ result = <<>> /\ relations = {} /\ thrown = NoError
  /\ storeId \in ClientStoreIds /\ past = <<storeId>>
  /\ promise = [c \in Check |-> "none"]
  /\ sentTo  = [c \in Check |-> Unset]
  /\ allowed = [c \in Check |-> Unset]
  /\ error   = [c \in Check |-> NoError]
  /\ verdicts = [c \in Check |-> {}]
  /\ Pool!Fresh(<<>>)

\* listRelations without relations throws before anything is sent.
RefuseCall ==
  /\ stage = "called"
  /\ method = "listRelations" /\ body = <<>>
  /\ stage'  = "rejected"
  /\ thrown' = ErrorOf("FgaValidationError")
  /\ UNCHANGED <<method, body, optionStoreId, result, relations, clientVars,
                 requestVars, poolVars>>

\* Mutant: the last check is started first.
StartChecksBackwards ==
  /\ stage = "called"
  /\ method = "listRelations" => body # <<>>
  /\ stage'   = "checking"
  /\ waiting' = [k \in DOMAIN body |-> body[Len(body) + 1 - k]]
  /\ UNCHANGED <<method, body, optionStoreId, result, relations, thrown, clientVars,
                 requestVars, executing, yielded, generator>>

\* The pool is given the checks.
StartChecks ==
  /\ stage = "called"
  /\ method = "listRelations" => body # <<>>
  /\ stage'   = "checking"
  /\ waiting' = body
  /\ UNCHANGED <<method, body, optionStoreId, result, relations, thrown, clientVars,
                 requestVars, executing, yielded, generator>>

\* The pool starts a check, which reads the store id, and throws if it cannot be used.
LaunchCheck ==
  /\ stage = "checking"
  /\ Pool!Launch
  /\ LET c == Head(waiting)
     IN  IF StoreIsUsable
         THEN /\ promise' = [promise EXCEPT ![c] = "pending"]
              /\ sentTo'  = [sentTo EXCEPT ![c] = StoreOf]
              /\ UNCHANGED <<allowed, error>>
         ELSE /\ promise' = [promise EXCEPT ![c] = "rejected"]
              /\ error'   = [error EXCEPT ![c] = ErrorOf("FgaValidationError")]
              /\ UNCHANGED <<sentTo, allowed>>
  /\ UNCHANGED <<callVars, clientVars, verdicts>>

\* The loop takes the result of a check that has settled ...
Collect(c) ==
  /\ stage = "checking"
  /\ Pool!Yield(c)
  /\ result' = Append(result, ResultOf(c))
  /\ UNCHANGED <<method, body, optionStoreId, stage, relations, thrown, clientVars,
                 requestVars>>

\* ... or is ended by the error of one.
Abort(c) ==
  /\ stage = "checking"
  /\ Pool!Throw(c)
  /\ stage'  = "rejected"
  /\ thrown' = error[c]
  /\ UNCHANGED <<method, body, optionStoreId, result, relations, clientVars,
                 requestVars>>

\* The loop has ended: clientBatchCheck returns; listRelations throws the first error
\* there is or returns the relations that are allowed.
EndChecks ==
  /\ stage = "checking"
  /\ Pool!Finish
  /\ IF method = "listRelations" /\ ErrorsIn(result) # {}
     THEN LET first == CHOOSE k \in ErrorsIn(result) : \A j \in ErrorsIn(result) : k <= j
          IN  /\ stage' = "rejected" /\ thrown' = result[first].error
              /\ UNCHANGED relations
     ELSE /\ stage' = "resolved"
          /\ relations' = {result[k].request : k \in {j \in DOMAIN result : result[j].allowed = TRUE}}
          /\ UNCHANGED thrown
  /\ UNCHANGED <<method, body, optionStoreId, result, clientVars, requestVars>>

-----------------------------------------------------------------------------
\* The server evaluates a check that is waiting for its answer, once per attempt.
\* Somebody may have written or deleted a relationship in between.
Evaluate(c) ==
  /\ promise[c] = "pending"
  /\ \E verdict \in BOOLEAN :
       /\ allowed'  = [allowed EXCEPT ![c] = verdict]
       /\ verdicts' = [verdicts EXCEPT ![c] = @ \cup {verdict}]
  /\ UNCHANGED <<callVars, clientVars, promise, sentTo, error, poolVars>>

Answer(c) ==
  /\ promise[c] = "pending" /\ allowed[c] # Unset
  /\ promise' = [promise EXCEPT ![c] = "fulfilled"]
  /\ UNCHANGED <<callVars, clientVars, sentTo, allowed, error, verdicts, poolVars>>

Fail(c) ==
  /\ promise[c] = "pending"
  /\ promise' = [promise EXCEPT ![c] = "rejected"]
  /\ \E e \in Errors : error' = [error EXCEPT ![c] = e]
  /\ UNCHANGED <<callVars, clientVars, sentTo, allowed, verdicts, poolVars>>

\* The application writes to client.storeId.
SetStoreId(s) ==
  /\ stage = "checking"
  /\ Len(past) <= MaxChanges
  /\ storeId' = s
  /\ past' = Append(past, s)
  /\ UNCHANGED <<callVars, requestVars, poolVars>>

Client ==
  \/ RefuseCall \/ StartChecks \/ LaunchCheck \/ EndChecks
  \/ \E c \in Check : Collect(c) \/ Abort(c)

Settle(c) == Answer(c) \/ Fail(c)

Next ==
  \/ Client
  \/ \E c \in Check : Evaluate(c) \/ Settle(c)
  \/ \E s \in ClientStoreIds \ {storeId} : SetStoreId(s)

Spec == Init /\ [][Next]_vars
-----------------------------------------------------------------------------
AuthenticationFailed(c) ==
  promise[c] = "rejected" /\ error[c].class = "FgaApiAuthenticationError"

\* Every variable stays in its range (the locals of client.ts:676-702, 860-884).
TypeOK ==
  /\ method \in Methods /\ body \in Bodies /\ optionStoreId \in OptionStoreIds
  /\ stage \in {"called", "checking", "resolved", "rejected"}
  /\ result \in Seq([request : Check, allowed : BOOLEAN \cup {Unset},
                     error : ErrorObject \cup {NoError}])
  /\ relations \subseteq Check
  /\ thrown \in ErrorObject \cup {NoError}
  /\ storeId \in ClientStoreIds /\ past \in Seq(ClientStoreIds)
  /\ promise \in [Check -> {"none", "pending", "fulfilled", "rejected"}]
  /\ sentTo \in [Check -> ClientStoreIds \cup OptionStoreIds \cup {Unset}]
  /\ allowed \in [Check -> BOOLEAN \cup {Unset}]
  /\ error \in [Check -> ErrorObject \cup {NoError}]
  /\ verdicts \in [Check -> SUBSET BOOLEAN]
  /\ Pool!TypeOK

\* When clientBatchCheck returns, each check passed in has one result with its own
\* answer, or its own error and no answer, in whatever order they settled
\* (client.ts:682-701).
EachCheckHasItsResult ==
  stage = "resolved" =>
    /\ Len(result) = Len(body)
    /\ \A c \in Range(body) : \E k \in DOMAIN result :
         /\ result[k].request = c
         /\ IF promise[c] = "fulfilled"
            THEN result[k].allowed = allowed[c] /\ result[k].error = NoError
            ELSE result[k].allowed = Unset /\ result[k].error = error[c]

\* listRelations never takes a failure for a denial: the server found every relation
\* it returns to hold, and every other one it was asked about not to, at some time
\* during the call (client.ts:878-883).  It is no snapshot: these times differ.
RelationsAreJustified ==
  stage = "resolved" /\ method = "listRelations" =>
    /\ relations \subseteq Range(body)
    /\ \A c \in Range(body) : (c \in relations) \in verdicts[c]
    /\ \A c \in Range(body) : promise[c] = "fulfilled"

\* A failed authentication of any check, and no other failure, makes clientBatchCheck
\* throw, and what is thrown is the error of a check, never lost (client.ts:688-698).
AuthenticationEndsTheCall ==
  /\ stage = "resolved" => ~\E c \in Check : AuthenticationFailed(c)
  /\ stage = "rejected" /\ method = "clientBatchCheck" =>
       \E c \in Check : AuthenticationFailed(c) /\ thrown = error[c]

\* A call is split over two stores by the application only.  With a store id of its own all
\* checks go there.  Without one their stores, in the order of the checks, follow the
\* values client.storeId has had since the call: no check goes to the store of an earlier
\* call or to one that a check before it had left, and as long as the application sets
\* nothing all go to one store (client.ts:281-292, 682-688).
SplitFollowsTheClient ==
  \A j, k \in DOMAIN body :
    j <= k /\ sentTo[body[j]] # Unset /\ sentTo[body[k]] # Unset =>
      IF optionStoreId # Unset
      THEN sentTo[body[j]] = optionStoreId /\ sentTo[body[k]] = optionStoreId
      ELSE \E a, b \in DOMAIN past :
             a <= b /\ past[a] = sentTo[body[j]] /\ past[b] = sentTo[body[k]]

-----------------------------------------------------------------------------
\* README.md:641: "It will return `allowed: false` if it encounters an error, and will
\* return the error in the body."  What the code returns is undefined (client.ts:693).
DocumentedAllowedFalse ==
  stage = "resolved" /\ method = "clientBatchCheck" =>
    \A k \in DOMAIN result : result[k].error # NoError => result[k].allowed = FALSE
=============================================================================
