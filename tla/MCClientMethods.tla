---------------------------- MODULE MCClientMethods ----------------------------
(***************************************************************************)
(* Instances of ClientMethods for TLC: two calls and one change of the     *)
(* client's fields.  Waits are of no interest: the minimum wait is 0.      *)
(***************************************************************************)
EXTENDS ClientMethods, TLC

CONSTANTS c1, c2, s1, s2, s3, s4, s5, s6, m1, m2, m3, m4, m5, m6, bad, MaxRetry

\* Two stores at first, one of them with two models; each attempt of two calls may
\* make one more store or model.
MCCall        == {c1, c2}
MCStoreId     == {s1, s2, s3, s4, s5, s6}
MCModelId     == {m1, m2, m3, m4, m5, m6}
MCFirstModels == s1 :> <<m1, m2>> @@ s2 :> <<>>
MCMalformed   == {bad}

MCRetryParams == {[maxRetry |-> MaxRetry, minWaitInMs |-> 0]}
MCRejections  == {[axios |-> TRUE, status |-> 500, retryAfter |-> 0]}

Options(methods, stores, ids) ==
  [method : methods, storeId : stores, authorizationModelId : ids]

\* The calls that change something at the server or look for the latest model, with the
\* client's ids and with some of their own, ...
Movers ==
  Options({"createStore", "deleteStore", "writeAuthorizationModel", "writeAssertions",
           "readLatestAuthorizationModel", "checkValidApiConnection"}, {Unset}, {Unset})
    \cup Options({"deleteStore", "readLatestAuthorizationModel"}, {s2}, {Unset})
    \cup Options({"writeAssertions", "checkValidApiConnection"}, {Empty}, {m1})
\* ... and the others, some of them with malformed ids.
Readers ==
  Options(Method \ {o.method : o \in Movers}, {Unset}, {Unset})
    \cup Options({"readAuthorizationModel", "readAssertions", "batchCheck"}, {Unset}, {bad})
    \cup Options({"check"}, {bad, m1}, {Unset})

\* Movers in any combination; every reader together with a call that deletes its store.
MCPrograms ==
  [MCCall -> Movers]
    \cup {p \in [MCCall -> Readers \cup Options({"deleteStore"}, {Unset}, {Unset})] :
            \E c \in MCCall : p[c].method = "deleteStore"}

MCClientStoreIds == {s1, s2}
MCClientModelIds == {Empty, m2}

MCSymmetry == Permutations(MCCall)
=============================================================================
