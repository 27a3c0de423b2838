--------------------------- MODULE MCGatewayTrust ---------------------------
(* The instance of GatewayTrust that TLC checks. *)
EXTENDS GatewayTrust
=============================================================================
