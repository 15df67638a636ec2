----------------------------- MODULE ChainRules -----------------------------
(***************************************************************************)
(* Which scalars may start a chain k, k+1, ..., k+len-1 of private keys:   *)
(* the host's rules (src/backend/mod.rs, and fill_secret_keys of           *)
(* src/search.rs).                                                         *)
(*                                                                         *)
(* A private key is a scalar in 1 .. Order-1.  0 is none, so it stands for *)
(* the None of offset_secret_key; ScalarBytes shows that the byte loops of *)
(* the code compute what the operators below say.                          *)
(***************************************************************************)
EXTENDS Integers

CONSTANTS
  Order,     (* n, the order of secp256k1.                                 *)
  Stride,    (* Addresses per chain, increment_stride().                   *)
  Headroom   (* PERSIST_HEADROOM_BATCHES.                                  *)

ASSUME StrideAssumption == Stride \in Nat \ {0}

ASSUME HeadroomAssumption == Headroom \in Nat \ {0}

(* The self-test's chain start and its span are small scalars.             *)
ASSUME OrderAssumption == Order \in Nat /\ Order > 2 * Stride + 8

Scalar == 1 .. Order - 1

NoScalar == 0

(* k + offset, if that is still a scalar.                                  *)
Offset(k, offset) == IF k + offset \in Scalar THEN k + offset ELSE NoScalar

-----------------------------------------------------------------------------
(* chain_count: the chains of a batch of `count' addresses are those that  *)
(* have a first address.                                                   *)
Chains(count) == {c \in 0 .. count - 1 : c * Stride < count}

(* The last chain may be shorter.                                          *)
ChainLen(count, c) ==
  IF count - c * Stride < Stride THEN count - c * Stride ELSE Stride

WholeChains(count) == count % Stride = 0

(* chain_key: the scalar of an address.                                    *)
ChainKey(starts, index) == Offset(starts[index \div Stride], index % Stride)

(* Every i in 0 .. len-1 is to be added to k without meeting k = i or      *)
(* k + i = Order.                                                          *)
ChainStartAccepted(k, len) ==
  \/ len <= 1
  \/ k >= len /\ Offset(k, len - 1) # NoScalar

(* What fill_secret_keys asks of a candidate for a chain of `len'          *)
(* addresses; `persist' as its caller says.                                *)
FillAcceptedShort(k, len, persist) ==
  /\ ChainStartAccepted(k, len)
  /\ persist => Offset(k, Stride * Headroom) # NoScalar

FillAcceptedTight(k, len, persist) ==
  ChainStartAccepted(k, IF persist /\ len > 1 THEN len + 1 ELSE len)

FillAccepted(k, len, persist) ==
  /\ ChainStartAccepted(k, IF persist /\ len > 1 THEN len + 1 ELSE len)
  /\ persist => Offset(k, Stride * Headroom) # NoScalar

(* advance_chain_starts: may the chain that starts at k move on?           *)
AdvanceAccepted(k) ==
  /\ Offset(k, Stride) # NoScalar
  /\ ChainStartAccepted(Offset(k, Stride), Stride + 1)
=============================================================================
