--------------------------- MODULE MCGatewayInstall ---------------------------
(* GatewayInstall with the groups of the lab.                              *)
EXTENDS GatewayInstall
=============================================================================
