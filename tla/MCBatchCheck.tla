----------------------------- MODULE MCBatchCheck -----------------------------
(* Instances of BatchCheck for TLC: see the .cfg files for the bounds. *)
EXTENDS BatchCheck

CONSTANTS o1, o2, o3

MCObject == {o1, o2, o3}
MCBodies == {<<>>, <<o1, o2, o3>>, <<o1, o2, o1>>}
MCErrors == {ErrorOf("FgaApiAuthenticationError"), ErrorOf("FgaApiInternalError")}
=============================================================================
