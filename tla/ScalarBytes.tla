---------------------------- MODULE ScalarBytes -----------------------------
(***************************************************************************)
(* The byte loops of src/backend/mod.rs that add to a scalar, one byte a   *)
(* step: offset_secret_key, chain_start_accepted around it, and the        *)
(* increments of expand_chain_keys.  ChainRules says what they compute.    *)
(***************************************************************************)
EXTENDS ChainRules

CONSTANTS
  Base,      (* 256: the values of a byte.                                 *)
  Width,     (* 32: the bytes of a scalar.                                 *)
  LowBytes,  (* 8: the bytes that chain_start_accepted reads as a u64.     *)
  MaxAddend  (* Bound: the largest offset.                                 *)

(* The place value of the i-th byte, a shift by i bytes.                   *)
Power[i \in 0 .. Width] == IF i = 0 THEN 1 ELSE Base * Power[i - 1]

(* The bytes also hold some numbers from Order upwards, and any chain      *)
(* length fits in the low ones.                                            *)
ASSUME BytesAssumption ==
  /\ Base \in Nat \ {0, 1} /\ Width \in Nat /\ LowBytes \in 0 .. Width
  /\ Order < Power[Width]
  /\ MaxAddend \in Nat

VARIABLES
  routine,  (* "offset", "accepted" or "expand".                           *)
  start,    (* The scalar it is called for.                                *)
  addend,   (* What is to be added.                                        *)
  bytes,    (* The bytes, the lowest at 0.                                 *)
  carry,    (* What is still to be added at `place' and above.             *)
  place,    (* The next byte.                                              *)
  done

loop == << routine, start, addend, bytes, carry, place, done >>

Places == 0 .. Width - 1

BytesOf(k) == [i \in Places |-> (k \div Power[i]) % Base]

(* The number that the n low bytes hold.                                   *)
Value(b, n) ==
  LET low[i \in 0 .. Width] ==
        IF i = 0 THEN 0 ELSE low[i - 1] + b[i - 1] * Power[i - 1]
  IN  low[n]

(* chain_start_accepted adds len - 1 for a len of at least two, which it   *)
(* compares as a u64; expand_chain_keys increments from one address of an  *)
(* accepted chain to the next.                                             *)
Addends(r) ==
  CASE r = "offset"   -> 0 .. MaxAddend
    [] r = "accepted" -> 1 .. Power[LowBytes] - 2
    [] r = "expand"   -> {1}

LoopInit ==
  /\ routine \in {"offset", "accepted", "expand"}
  /\ start \in Scalar
  /\ addend \in Addends(routine)
  /\ bytes = BytesOf(start)
  /\ carry = addend
  /\ place = 0
  /\ done = FALSE

-----------------------------------------------------------------------------
(* The low byte of the carry is added to this byte, and the rest of the    *)
(* carry goes on with the carry of this sum.                               *)
Truncated(sum) == sum % Base

CarryOfSum(sum) == sum \div Base

CarryOn(sum) == (carry \div Base) + (sum \div Base)

AddByte ==
  /\ ~ done /\ place < Width /\ carry > 0
  /\ LET sum == bytes[place] + (carry % Base) IN
     /\ bytes' = [bytes EXCEPT ![place] = Truncated(sum)]
     /\ carry' = CarryOn(sum)
  /\ place' = place + 1
  /\ UNCHANGED << routine, start, addend, done >>

Finish ==
  /\ ~ done /\ (place = Width \/ carry = 0)
  /\ done' = TRUE
  /\ UNCHANGED << routine, start, addend, bytes, carry, place >>

Done == done /\ UNCHANGED loop

LoopNext == AddByte \/ Finish \/ Done

LoopSpec == LoopInit /\ [][LoopNext]_loop

-----------------------------------------------------------------------------
(* The results.  from_byte_array takes what is a scalar; a carry beyond    *)
(* the last byte is no scalar, and wraps an increment.                     *)
OffsetResult ==
  IF carry = 0 /\ Value(bytes, Width) \in Scalar
  THEN Value(bytes, Width) ELSE NoScalar

Small(k, len) ==
  LET b == BytesOf(k) IN
  /\ \A i \in LowBytes .. Width - 1 : b[i] = 0
  /\ Value(b, LowBytes) < len

AcceptedResult == ~ Small(start, addend + 1) /\ OffsetResult # NoScalar

(* offset_secret_key, chain_start_accepted and the increments of           *)
(* expand_chain_keys are what ChainRules says: at the edge of the range    *)
(* and of the bytes, and for lengths near the start.  The increments       *)
(* agree as long as the chain stays in the range, which they do not check. *)
(* No carry is lost or doubled, also of an offset longer than a byte.      *)
ResultIsOffset ==
  done =>
    CASE routine = "offset"   -> OffsetResult = Offset(start, addend)
      [] routine = "accepted" ->
           AcceptedResult = ChainStartAccepted(start, addend + 1)
      [] routine = "expand"   ->
           Offset(start, 1) # NoScalar =>
             carry = 0 /\ Value(bytes, Width) = Offset(start, 1)
=============================================================================
