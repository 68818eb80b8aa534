--------------------------- MODULE MCGatewayClient ---------------------------
(***************************************************************************)
(* One caller of start() and two of request(): the two requests that       *)
(* authorizationUsageReporter issues together, beside the start loop.      *)
(***************************************************************************)
EXTENDS GatewayClient, TLC

CONSTANTS s1, r1, r2
=============================================================================
