------------------------------ MODULE MCChains ------------------------------
(* Chains for TLC.                                                         *)
EXTENDS Chains

(* Every backend, with batches below MIN_PIPELINED_BATCH addresses, which  *)
(* SequentialSource fills, and with larger ones.                           *)
AllSetups == Kernels \X Sources

(* Metal as it is by default.                                              *)
MetalSetups == {"persist"} \X Sources
=============================================================================
