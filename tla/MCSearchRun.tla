---------------------------- MODULE MCSearchRun -----------------------------
(* SearchRun for TLC; the cfg gives the constants.                         *)
EXTENDS SearchRun
=============================================================================
