---------------------------- MODULE MCBestState -----------------------------
(* BestState for TLC: the cfg names two workers.  No symmetry, because the *)
(* run also checks the refinement, a temporal formula.                     *)
EXTENDS BestState
=============================================================================
