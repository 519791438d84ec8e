--------------------------- MODULE MCHostTransfer ---------------------------
(* The instance the configurations of HostTransfer are checked on.          *)
EXTENDS HostClaims
=============================================================================
