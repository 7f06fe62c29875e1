--------------------------- MODULE MCCredentials ---------------------------
(* Instances of Credentials for TLC: see the .cfg files for the bounds. *)
EXTENDS Credentials, TLC

MCFailures ==
  {[axios |-> TRUE, status |-> s, retryAfter |-> 0] : s \in {0, 403, 404, 500}}

\* The callers are alike; sound, as no liveness property is checked.
Symmetry == Permutations(Caller)
=============================================================================
