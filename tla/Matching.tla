------------------------------ MODULE Matching ------------------------------
(***************************************************************************)
(* From the digits a user asks for to the candidate and the hit of a       *)
(* batch: validate_targets and hex_to_nibbles of src/main.rs, then         *)
(* evaluate_batch of src/search.rs with its two early-exit loops over the  *)
(* nibbles of an address.                                                  *)
(*                                                                         *)
(* Characters are their bytes, as in the code; an address is a sequence of *)
(* bytes, the most significant first.                                      *)
(***************************************************************************)
EXTENDS Integers, Sequences, FiniteSets

CONSTANTS
  AddressBytes,  (* The bytes of an address, 20 in the code.               *)
  Address,       (* The addresses a backend may derive.                    *)
  Batch,         (* The batches of them.                                   *)
  Text,          (* What a user may ask for.                               *)
  None           (* Option::None.                                          *)

Digits == 2 * AddressBytes

ASSUME MatchingAssumption ==
  /\ AddressBytes \in Nat \ {0}
  /\ Address \subseteq [1 .. AddressBytes -> 0 .. 255]
  /\ Batch \subseteq Seq(Address) \ {<< >>}
  /\ Text \subseteq Seq(0 .. 255)
  /\ None \notin Nat \union [index : Nat, prefix : Nat, suffix : Nat]

VARIABLES
  pc,           (* Where the program is.                                   *)
  asked,        (* --prefix and --suffix; forgotten once converted.        *)
  want_prefix,  (* Targets.prefix, in nibbles.                             *)
  want_suffix,  (* Targets.suffix.                                         *)
  addresses,    (* The batch.                                              *)
  index,        (* The address at hand.                                    *)
  prefix,       (* The digits it matches so far.                           *)
  suffix,
  best,         (* The best candidate of the batch so far.                 *)
  hit           (* The index of the first hit so far.                      *)

targets == << want_prefix, want_suffix >>

matched == << index, prefix, suffix >>

vars == << pc, asked, targets, addresses, matched, best, hit >>

Forgotten == [prefix |-> << >>, suffix |-> << >>]

Init ==
  /\ pc = "validate"
  /\ asked \in [prefix : Text, suffix : Text]
  /\ want_prefix = << >>
  /\ want_suffix = << >>
  /\ addresses = << >>
  /\ index = 1
  /\ prefix = 0
  /\ suffix = 0
  /\ best = None
  /\ hit = None

-----------------------------------------------------------------------------
(***************************************************************************)
(* The targets.                                                            *)
(***************************************************************************)
Decimal == 48 .. 57

Upper == 65 .. 70

Lower == 97 .. 102

IsHex(s) == \A i \in DOMAIN s : s[i] \in Decimal \union Upper \union Lower

(* hex_to_nibbles, for one byte.                                           *)
NibbleOf(b) ==
  CASE b \in Decimal -> b - 48
    [] b \in Lower -> b - 97 + 10
    [] b \in Upper -> b - 65 + 10

HexToNibbles(s) == [i \in DOMAIN s |-> NibbleOf(s[i])]

LowerCase(b) == IF b \in 65 .. 90 THEN b + 32 ELSE b

SameByte(a, b) == a = b

(* eq_ignore_ascii_case, byte by byte.                                     *)
SameLetter(a, b) == LowerCase(a) = LowerCase(b)

(* The digits both targets fix.                                            *)
Overlap == Len(asked.prefix) + Len(asked.suffix) - Digits

OverlapAgrees ==
  \A i \in 1 .. Overlap :
    SameLetter(asked.prefix[Len(asked.prefix) - Overlap + i], asked.suffix[i])

(* validate_targets, in the order of its checks.                           *)
Valid ==
  /\ IsHex(asked.prefix) /\ IsHex(asked.suffix)
  /\ Len(asked.prefix) <= Digits /\ Len(asked.suffix) <= Digits
  /\ OverlapAgrees

Validate ==
  /\ pc = "validate"
  /\ pc' = IF Valid THEN "convert" ELSE "refused"
  /\ UNCHANGED << asked, targets, addresses, matched, best, hit >>

Convert ==
  /\ pc = "convert"
  /\ want_prefix' = HexToNibbles(asked.prefix)
  /\ want_suffix' = HexToNibbles(asked.suffix)
  /\ asked' = Forgotten
  /\ pc' = "derive"
  /\ UNCHANGED << addresses, matched, best, hit >>

(* The number of digits the estimates of the search are made from.         *)
EffectiveFixed(p, s) ==
  IF Len(p) + Len(s) <= Digits THEN Len(p) + Len(s) ELSE Digits

-----------------------------------------------------------------------------
(***************************************************************************)
(* evaluate_batch.                                                         *)
(***************************************************************************)
Derive ==
  /\ pc = "derive"
  /\ addresses' \in Batch
  /\ pc' = "prefix"
  /\ UNCHANGED << asked, targets, matched, best, hit >>

(* nibble_at: the high half of a byte comes first.                         *)
NibbleAt(address, position) ==
  LET byte == address[position \div 2 + 1]
  IN  IF position % 2 = 0 THEN byte \div 16 ELSE byte % 16

(* One turn of the loop of prefix_match_len_bytes.                         *)
MatchPrefix ==
  /\ pc = "prefix"
  /\ IF /\ prefix < Len(want_prefix)
        /\ NibbleAt(addresses[index], prefix) = want_prefix[prefix + 1]
       THEN prefix' = prefix + 1 /\ UNCHANGED pc
       ELSE pc' = "suffix" /\ UNCHANGED prefix
  /\ UNCHANGED << asked, targets, addresses, index, suffix, best, hit >>

SuffixDigitForwards == want_suffix[suffix + 1]

(* One turn of the loop of suffix_match_len_bytes, from the last digit.    *)
SuffixDigit == want_suffix[Len(want_suffix) - suffix]

MatchSuffix ==
  /\ pc = "suffix"
  /\ IF /\ suffix < Len(want_suffix)
        /\ NibbleAt(addresses[index], Digits - 1 - suffix) = SuffixDigit
       THEN suffix' = suffix + 1 /\ UNCHANGED pc
       ELSE pc' = "compare" /\ UNCHANGED suffix
  /\ UNCHANGED << asked, targets, addresses, index, prefix, best, hit >>

Candidate == [index |-> index, prefix |-> prefix, suffix |-> suffix]

OutranksLater(c, d) ==
  \/ c.prefix + c.suffix > d.prefix + d.suffix
  \/ /\ c.prefix + c.suffix = d.prefix + d.suffix
     /\ c.prefix >= d.prefix

(* BatchCandidate.rank: (prefix + suffix, prefix, suffix, Reverse(index)). *)
Outranks(c, d) ==
  \/ c.prefix + c.suffix > d.prefix + d.suffix
  \/ /\ c.prefix + c.suffix = d.prefix + d.suffix
     /\ \/ c.prefix > d.prefix
        \/ c.prefix = d.prefix /\ c.index < d.index

Improves == prefix + suffix > 0 /\ (best = None \/ Outranks(Candidate, best))

IsHit == prefix = Len(want_prefix) /\ suffix = Len(want_suffix)

Compare ==
  /\ pc = "compare"
  /\ best' = IF Improves THEN Candidate ELSE best
  /\ hit' = IF hit = None /\ IsHit THEN index ELSE hit
  /\ IF index < Len(addresses)
       THEN index' = index + 1 /\ prefix' = 0 /\ suffix' = 0 /\ pc' = "prefix"
       ELSE pc' = "done" /\ UNCHANGED matched
  /\ UNCHANGED << asked, targets, addresses >>

Terminated == pc \in {"refused", "done"} /\ UNCHANGED vars

Next ==
  \/ Validate
  \/ Convert
  \/ Derive
  \/ MatchPrefix
  \/ MatchSuffix
  \/ Compare
  \/ Terminated

Spec == Init /\ [][Next]_vars

-----------------------------------------------------------------------------
(***************************************************************************)
(* What the code is compared with: addresses as they are written, one      *)
(* nibble after the other (address_nibbles).                               *)
(***************************************************************************)
Nibbles(address) ==
  [i \in 1 .. Digits |->
     IF i % 2 = 1 THEN address[(i + 1) \div 2] \div 16
                  ELSE address[(i + 1) \div 2] % 16]

(* The first k, or the last k, digits are those asked for.                 *)
Begins(a, p, k) == \A i \in 1 .. k : Nibbles(a)[i] = p[i]

Ends(a, s, k) == \A i \in 0 .. k - 1 : Nibbles(a)[Digits - i] = s[Len(s) - i]

Matches(a, p, s) == Begins(a, p, Len(p)) /\ Ends(a, s, Len(s))

PrefixLength(a, p) ==
  CHOOSE k \in 0 .. Len(p) :
    Begins(a, p, k) /\ (k < Len(p) => ~ Begins(a, p, k + 1))

SuffixLength(a, s) ==
  CHOOSE k \in 0 .. Len(s) :
    Ends(a, s, k) /\ (k < Len(s) => ~ Ends(a, s, k + 1))

(* The characters of a digit, and the value of a typed one.                *)
Typed(n) == IF n < 10 THEN {48 + n} ELSE {55 + n, 87 + n}

Means(b) == CHOOSE n \in 0 .. 15 : b \in Typed(n)

(* An address may carry what is asked for.                                 *)
Possible(p, s) ==
  /\ IsHex(p) /\ IsHex(s)
  /\ Len(p) <= Digits /\ Len(s) <= Digits
  /\ \E n \in [1 .. Digits -> {Means(p[i]) : i \in DOMAIN p} \union
                              {Means(s[i]) : i \in DOMAIN s} \union {0}] :
       /\ \A i \in DOMAIN p : n[i] = Means(p[i])
       /\ \A i \in DOMAIN s : n[Digits - Len(s) + i] = Means(s[i])

(* The addresses, written with some alphabet, that the targets allow.      *)
Allowed(alphabet) ==
  {n \in [1 .. Digits -> alphabet] :
     /\ \A i \in DOMAIN want_prefix : n[i] = want_prefix[i]
     /\ \A i \in DOMAIN want_suffix :
          n[Digits - Len(want_suffix) + i] = want_suffix[i]}

-----------------------------------------------------------------------------
(* Every variable has its type.                                            *)
TypeOK ==
  /\ pc \in {"validate", "refused", "convert", "derive", "prefix", "suffix",
             "compare", "done"}
  /\ asked \in [prefix : Text \union {<< >>}, suffix : Text \union {<< >>}]
  /\ want_prefix \in Seq(0 .. 15) /\ Len(want_prefix) <= Digits
  /\ want_suffix \in Seq(0 .. 15) /\ Len(want_suffix) <= Digits
  /\ addresses \in Batch \union {<< >>}
  /\ index \in Nat \ {0}
  /\ prefix \in 0 .. Len(want_prefix)
  /\ suffix \in 0 .. Len(want_suffix)
  /\ best \in [index : Nat \ {0}, prefix : Nat, suffix : Nat] \union {None}
  /\ hit \in (Nat \ {0}) \union {None}

(***************************************************************************)
(* A search is refused exactly when no address can satisfy it: the two     *)
(* targets are compared where they overlap, whatever their case.  The      *)
(* digits the estimates count on are those the targets really fix: of all  *)
(* addresses one in 16^k is allowed (here: of the 2^Digits written in two  *)
(* digits one in 2^k), also when the targets overlap.                      *)
(***************************************************************************)
RefusesTheImpossible ==
  /\ pc = "refused" => ~ Possible(asked.prefix, asked.suffix)
  /\ pc = "convert" => Possible(asked.prefix, asked.suffix)

ChanceIsExact ==
  pc = "derive" =>
    LET k == EffectiveFixed(want_prefix, want_suffix)
        used == {want_prefix[i] : i \in DOMAIN want_prefix} \union
                {want_suffix[i] : i \in DOMAIN want_suffix}
        pair == {0, 10}
    IN  used \subseteq pair =>
          Cardinality(Allowed(pair)) = 2 ^ (Digits - k)

TargetsAreExact == RefusesTheImpossible /\ ChanceIsExact

(* The first hit of a batch is the first address that, as it is written,   *)
(* begins and ends with the targets; no batch with one goes without a hit. *)
HitIsFirst ==
  pc = "done" =>
    LET hits == {i \in DOMAIN addresses :
                   Matches(addresses[i], want_prefix, want_suffix)}
    IN  IF hits = {} THEN hit = None
                     ELSE hit \in hits /\ \A i \in hits : hit <= i

(***************************************************************************)
(* The candidate offered for a batch outranks every other one of it, with  *)
(* the lowest index and so the lowest attempt number among equals, and its *)
(* two lengths are those of its address; a hit, if anything was asked for, *)
(* is the candidate, so that the saved record of a search that ends is the *)
(* hit's.                                                                  *)
(***************************************************************************)
BestOfBatch ==
  pc = "done" =>
    LET all == {[index |-> i, prefix |-> PrefixLength(addresses[i], want_prefix),
                 suffix |-> SuffixLength(addresses[i], want_suffix)] :
                  i \in DOMAIN addresses}
        close == {c \in all : c.prefix + c.suffix > 0}
        wide == Digits + Len(addresses) + 1
        value(c) == (c.prefix + c.suffix) * wide * wide + c.prefix * wide
                      - c.index
    IN  /\ close = {} => best = None
        /\ close # {} => /\ best \in close
                         /\ \A c \in close \ {best} : value(best) > value(c)
                         /\ hit # None => best.index = hit
=============================================================================
