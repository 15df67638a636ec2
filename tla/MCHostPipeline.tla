--------------------------- MODULE MCHostPipeline ---------------------------
(* HostPipeline for TLC; the cfg gives the constants.                      *)
EXTENDS HostPipeline
=============================================================================
