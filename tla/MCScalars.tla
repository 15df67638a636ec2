----------------------------- MODULE MCScalars ------------------------------
(***************************************************************************)
(* Chains and ScalarBytes for TLC, over one range of scalars: the chains   *)
(* take for granted the sums that the byte loops compute.  The two share   *)
(* no state, so that one of them rests while the other one runs.           *)
(***************************************************************************)
EXTENDS MCChains, ScalarBytes

(* A backend before its self-test.                                         *)
ChainsRest == Init /\ kernel = "chunk" /\ source = "sequential" /\ capacity = 2

(* A call that has returned.                                               *)
LoopsRest ==
  /\ routine = "offset" /\ start = 1 /\ addend = 0
  /\ bytes = BytesOf(1) /\ carry = 0 /\ place = 0 /\ done = TRUE

ScalarsInit ==
  \/ Init /\ LoopsRest
  \/ LoopInit /\ ChainsRest

ScalarsNext ==
  \/ Next /\ LoopsRest /\ UNCHANGED loop
  \/ LoopNext /\ ChainsRest /\ UNCHANGED vars

ScalarsSpec == ScalarsInit /\ [][ScalarsNext]_<< vars, loop >>
=============================================================================
