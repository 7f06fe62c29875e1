----------------------------- MODULE RemoteCall -----------------------------
(***************************************************************************)
(* What a caller of the SDK may rely on for one API call, whatever the     *)
(* retry loop does: the promise settles at most once and only after the    *)
(* call was started; it is fulfilled only after the request went out; and  *)
(* the request goes out once and then at most `retries` times more, never  *)
(* again after the promise has settled.                                    *)
(***************************************************************************)
EXTENDS Naturals

CONSTANTS Request, \* the calls
          Retries  \* the numbers of retries a call may be started with

VARIABLES promise, \* "none" until the call is made, then pending, then settled
          sent,    \* how many times the request was put on the wire
          retries  \* how many times it may be put there again

vars == <<promise, sent, retries>>

Init ==
  /\ promise = [r \in Request |-> "none"]
  /\ sent    = [r \in Request |-> 0]
  /\ retries = [r \in Request |-> 0]

Start(r) ==
  /\ promise[r] = "none"
  /\ \E n \in Retries : retries' = [retries EXCEPT ![r] = n]
  /\ promise' = [promise EXCEPT ![r] = "pending"]
  /\ UNCHANGED sent

\* A call refused before anything was sent.
Refuse(r) ==
  /\ promise[r] = "none"
  /\ promise' = [promise EXCEPT ![r] = "rejected"]
  /\ UNCHANGED <<sent, retries>>

Send(r) ==
  /\ promise[r] = "pending"
  /\ sent[r] < retries[r] + 1
  /\ sent' = [sent EXCEPT ![r] = @ + 1]
  /\ UNCHANGED <<promise, retries>>

Fulfil(r) ==
  /\ promise[r] = "pending"
  /\ sent[r] > 0
  /\ promise' = [promise EXCEPT ![r] = "fulfilled"]
  /\ UNCHANGED <<sent, retries>>

Reject(r) ==
  /\ promise[r] = "pending"
  /\ promise' = [promise EXCEPT ![r] = "rejected"]
  /\ UNCHANGED <<sent, retries>>

Next == \E r \in Request : Start(r) \/ Refuse(r) \/ Send(r) \/ Fulfil(r) \/ Reject(r)

Spec == Init /\ [][Next]_vars
=============================================================================
