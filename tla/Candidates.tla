----------------------------- MODULE Candidates -----------------------------
(***************************************************************************)
(* The closest candidates the search compares (src/search.rs).  A          *)
(* candidate is an address that matches some digits of the target, with    *)
(* the key the program believes it belongs to.  Digits and keys are        *)
(* abstracted to the lengths of the two matches; `sound' says whether the  *)
(* key really derives the address, which is what cpu::verify_address       *)
(* finds out.                                                              *)
(***************************************************************************)
EXTENDS Naturals

CONSTANTS
  Worker,     (* The search threads.                                       *)
  MaxPrefix,  (* Digits of the requested prefix.                           *)
  MaxSuffix,  (* Digits of the requested suffix.                           *)
  MaxTries,   (* Bound: the largest local attempt number of a candidate.   *)
  None        (* No candidate: Option::None.                               *)

Candidate ==
  [ worker : Worker,
    prefix : 0 .. MaxPrefix,
    suffix : 0 .. MaxSuffix,
    tries  : 1 .. MaxTries,
    sound  : BOOLEAN ]

ASSUME CandidatesAssumption ==
  /\ MaxPrefix \in Nat
  /\ MaxSuffix \in Nat
  /\ MaxTries \in Nat \ {0}
  /\ None \notin Candidate

Score(c) == c.prefix + c.suffix

(***************************************************************************)
(* The lexicographic rank (score, prefix, suffix, Reverse(tries)): a       *)
(* outranks b iff rank(a) > rank(b).  The tie-break on tries compares the  *)
(* workers' LOCAL attempt numbers.                                         *)
(***************************************************************************)
Outranks(a, b) ==
  \/ Score(a) > Score(b)
  \/ /\ Score(a) = Score(b)
     /\ \/ a.prefix > b.prefix
        \/ a.prefix = b.prefix /\ a.suffix > b.suffix
        \/ a.prefix = b.prefix /\ a.suffix = b.suffix /\ a.tries < b.tries

(* What a match-free address never does: replace a candidate.              *)
Improves(c, best) ==
  /\ Score(c) > 0
  /\ best = None \/ Outranks(c, best)
=============================================================================
