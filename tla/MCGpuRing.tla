----------------------------- MODULE MCGpuRing ------------------------------
(* GpuRing for TLC; the cfg gives the constants.                           *)
EXTENDS GpuRing
=============================================================================
