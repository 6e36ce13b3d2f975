---------------------------- MODULE MCMDNSClaims ----------------------------
(* MDNSClaims of two hosts, with the bounds of the configuration. *)
EXTENDS MDNSClaims
=============================================================================
