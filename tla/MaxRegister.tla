---------------------------- MODULE MaxRegister -----------------------------
(***************************************************************************)
(* What BestState promises to the workers and to the thread that writes    *)
(* the closest-candidate file: one register that atomically keeps the best *)
(* sound candidate decided so far.  No lock, no hint, no failure in the    *)
(* middle of an update.                                                    *)
(***************************************************************************)
EXTENDS Candidates

VARIABLES
  best,     (* The register's content, or None.                            *)
  decided,  (* The candidates whose comparison with the register is over.  *)
  shown     (* What the last reader of the register saw.                   *)

vars == << best, decided, shown >>

Init ==
  /\ best = None
  /\ decided = {}
  /\ shown = None

(* A candidate that improves on the register replaces it.                  *)
Replace(c) ==
  /\ Improves(c, best)
  /\ c.sound
  /\ best' = c
  /\ decided' = decided \union {c}
  /\ UNCHANGED shown

(* Any other candidate leaves it as it is.                                 *)
Keep(c) ==
  /\ ~ Improves(c, best)
  /\ decided' = decided \union {c}
  /\ UNCHANGED << best, shown >>

Read ==
  /\ shown' = best
  /\ UNCHANGED << best, decided >>

Next ==
  \/ \E c \in Candidate : Replace(c) \/ Keep(c)
  \/ Read

Spec == Init /\ [][Next]_vars
=============================================================================
