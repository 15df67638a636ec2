--------------------------- MODULE MCOutputFiles ----------------------------
(* OutputFiles for TLC; the cfg gives the constants.                       *)
EXTENDS OutputFiles
=============================================================================
