------------------------- MODULE MCClientBatchCheck -------------------------
(* Instances of ClientBatchCheck for TLC: see the .cfg files for the bounds. *)
EXTENDS ClientBatchCheck

CONSTANTS c1, c2, c3

MCCheck      == {c1, c2, c3}
MCBodies     == {<<>>, <<c1, c2, c3>>}
MCErrors     == {ErrorOf("FgaApiAuthenticationError"), ErrorOf("FgaApiNotFoundError")}
=============================================================================
