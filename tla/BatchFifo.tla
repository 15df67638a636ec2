----------------------------- MODULE BatchFifo ------------------------------
(***************************************************************************)
(* What a GPU backend promises to the search loop (the trait               *)
(* AddressBackend of src/backend/mod.rs): batches come back in the order   *)
(* they were submitted, at most Capacity of them in flight, each with the  *)
(* addresses of exactly its own keys; "a batch is either fully derived or  *)
(* rejected".                                                              *)
(***************************************************************************)
EXTENDS Naturals, Sequences

CONSTANTS
  Batches,   (* The batches of keys a caller may submit.                   *)
  Capacity,  (* inflight_capacity().                                       *)
  NoBatch    (* No result yet.                                             *)

VARIABLES
  queue,     (* The batches submitted and not collected, oldest first.     *)
  got,       (* The last result: the keys and whose addresses came back.   *)
  open       (* No call has failed and the backend has not been dropped.   *)

vars == << queue, got, open >>

Init ==
  /\ queue = << >>
  /\ got = NoBatch
  /\ open = TRUE

Submit(keys) ==
  /\ open
  /\ Len(queue) < Capacity
  /\ queue' = Append(queue, keys)
  /\ UNCHANGED << got, open >>

Collect ==
  /\ open
  /\ queue # << >>
  /\ got' = [keys |-> Head(queue), addresses |-> Head(queue)]
  /\ queue' = Tail(queue)
  /\ UNCHANGED open

(* An error, a panic or the normal end: nothing more is delivered.         *)
Close ==
  /\ open' = FALSE
  /\ queue' = << >>
  /\ UNCHANGED got

Next ==
  \/ \E keys \in Batches : Submit(keys)
  \/ Collect
  \/ Close

Spec == Init /\ [][Next]_vars
=============================================================================
