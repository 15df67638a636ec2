----------------------------- MODULE ChainKeys ------------------------------
(***************************************************************************)
(* A batch of private keys as the host and the GPU exchange it: one start  *)
(* scalar per chain, every address of the chain being start + i.           *)
(*                                                                         *)
(* The scalars themselves are abstracted to where they come from: `fill'   *)
(* numbers the CSPRNG fill (fill_secret_keys of src/search.rs, so two      *)
(* fills never hold the same scalars) and `step' counts how often all the  *)
(* starts have since been moved on by the stride (advance_chain_starts of  *)
(* src/backend/mod.rs).  Two batches hold the same scalars iff both agree. *)
(***************************************************************************)
EXTENDS Naturals

KeyBatch == [fill : Nat, step : Nat]

Fresh(n) == [fill |-> n, step |-> 0]

(* Every start moved on by the stride: k becomes k + S, and the point k*G  *)
(* becomes (k + S)*G.                                                      *)
Advance(keys) == [keys EXCEPT !.step = @ + 1]
=============================================================================
