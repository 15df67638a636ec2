--------------------------- MODULE MatchingProofs ---------------------------
(***************************************************************************)
(* Proofs about Matching, for every length of an address, every batch and  *)
(* every pair of targets.                                                  *)
(*                                                                         *)
(* The properties speak of a finished batch.  Inductive is what the loops  *)
(* have found on their way: Matched says that the digits counted so far    *)
(* agree, and that a loop that has ended did so at the first digit that    *)
(* does not; BestSoFar and HitSoFar are the properties of the addresses    *)
(* compared already.  That a hit is the candidate of its batch follows     *)
(* from the two, as nothing outranks the first address with all digits.    *)
(* That the targets agree where they overlap (Agreed) makes each address   *)
(* they allow a choice of digits for the positions they leave free.        *)
(***************************************************************************)
EXTENDS Matching, FiniteSetTheorems, FunctionTheorems, TLAPS

(* The lengths that an address agrees with a prefix or suffix to.          *)
PrefixIs(a, p, k) ==
  /\ k \in 0 .. Len(p)
  /\ Begins(a, p, k)
  /\ k < Len(p) => ~ Begins(a, p, k + 1)

SuffixIs(a, s, k) ==
  /\ k \in 0 .. Len(s)
  /\ Ends(a, s, k)
  /\ k < Len(s) => ~ Ends(a, s, k + 1)

Working == pc \in {"prefix", "suffix", "compare"}

(* The addresses that have been compared.                                  *)
Seen == IF pc = "done" THEN 1 .. index ELSE 1 .. index - 1

CandidateOf(as, i, p, s) ==
  [index |-> i, prefix |-> PrefixLength(as[i], p),
   suffix |-> SuffixLength(as[i], s)]

Lengths(i) == CandidateOf(addresses, i, want_prefix, want_suffix)

IsClose(c) == c.prefix + c.suffix > 0

IsFull(c) == c.prefix = Len(want_prefix) /\ c.suffix = Len(want_suffix)

-----------------------------------------------------------------------------
(* Only a valid pair of texts is converted.                                *)
Validated ==
  /\ pc = "refused" => ~ Valid
  /\ pc = "convert" => Valid

(* Where the loop over the batch is.                                       *)
Position ==
  /\ pc \notin {"done"} /\ ~ Working =>
       index = 1 /\ prefix = 0 /\ suffix = 0 /\ best = None /\ hit = None
  /\ Working \/ pc = "done" => addresses \in Batch /\ index \in DOMAIN addresses
  /\ pc = "done" => index = Len(addresses)

(* What the digit loops know of the address at hand.                       *)
Matched ==
  /\ pc = "prefix" => /\ Begins(addresses[index], want_prefix, prefix)
                      /\ suffix = 0
  /\ pc \in {"suffix", "compare"} =>
       /\ PrefixIs(addresses[index], want_prefix, prefix)
       /\ Ends(addresses[index], want_suffix, suffix)
  /\ pc = "compare" => SuffixIs(addresses[index], want_suffix, suffix)

(* The lengths of what has been compared are well defined.                 *)
Measured ==
  \A i \in Seen :
    /\ PrefixIs(addresses[i], want_prefix, Lengths(i).prefix)
    /\ SuffixIs(addresses[i], want_suffix, Lengths(i).suffix)

BestSoFar ==
  /\ best = None => \A i \in Seen : ~ IsClose(Lengths(i))
  /\ best # None => /\ best.index \in Seen
                    /\ best = Lengths(best.index)
                    /\ IsClose(best)
                    /\ \A i \in Seen \ {best.index} : Outranks(best, Lengths(i))

HitSoFar ==
  /\ hit = None => \A i \in Seen : ~ IsFull(Lengths(i))
  /\ hit # None => /\ hit \in Seen
                   /\ IsFull(Lengths(hit))
                   /\ \A i \in Seen : IsFull(Lengths(i)) => hit <= i

IInv ==
  /\ TypeOK
  /\ Validated
  /\ Position
  /\ Matched
  /\ Measured
  /\ BestSoFar
  /\ HitSoFar

-----------------------------------------------------------------------------
(* The half bytes the loops look at are the digits of the written address. *)
LEMMA NibbleIsDigit ==
  ASSUME NEW a, NEW position \in 0 .. Digits - 1
  PROVE  Nibbles(a)[position + 1] = NibbleAt(a, position)
<1> position \in Nat /\ Digits \in Nat /\ position < Digits
  BY MatchingAssumption DEF Digits
<1>1. position + 1 \in 1 .. Digits
  OBVIOUS
<1>2. CASE position % 2 = 0
  <2>1. (position + 1) % 2 = 1 /\ (position + 1 + 1) \div 2 = position \div 2 + 1
    BY <1>2
  <2> QED
    BY <1>1, <1>2, <2>1 DEF Nibbles, NibbleAt
<1>3. CASE position % 2 # 0
  <2>1. (position + 1) % 2 # 1 /\ (position + 1 + 1) \div 2 = position \div 2 + 1
    BY <1>3
  <2> QED
    BY <1>1, <1>3, <2>1 DEF Nibbles, NibbleAt
<1> QED
  BY <1>2, <1>3

(* One more digit agrees.                                                  *)
LEMMA NextDigit ==
  ASSUME NEW a, NEW p, NEW k \in Nat
  PROVE  /\ Begins(a, p, 0) /\ Ends(a, p, 0)
         /\ Begins(a, p, k + 1) <=>
              Begins(a, p, k) /\ Nibbles(a)[k + 1] = p[k + 1]
         /\ Ends(a, p, k + 1) <=>
              Ends(a, p, k) /\ Nibbles(a)[Digits - k] = p[Len(p) - k]
<1>1. Begins(a, p, 0) /\ Ends(a, p, 0)
  BY DEF Begins, Ends
<1>2. 1 .. k + 1 = (1 .. k) \union {k + 1} /\ 0 .. k + 1 - 1 = (0 .. k - 1) \union {k}
  OBVIOUS
<1>3. Begins(a, p, k + 1) <=> Begins(a, p, k) /\ Nibbles(a)[k + 1] = p[k + 1]
  BY <1>2, Zenon DEF Begins
<1>4. Ends(a, p, k + 1) <=>
        Ends(a, p, k) /\ Nibbles(a)[Digits - k] = p[Len(p) - k]
  <2> DEFINE Same(i) == Nibbles(a)[Digits - i] = p[Len(p) - i]
  <2>1. Ends(a, p, k + 1) <=> \A i \in 0 .. k + 1 - 1 : Same(i)
    BY DEF Ends
  <2>2. Ends(a, p, k) <=> \A i \in 0 .. k - 1 : Same(i)
    BY DEF Ends
  <2> HIDE DEF Same
  <2>3. Ends(a, p, k + 1) <=> Ends(a, p, k) /\ Same(k)
    BY <2>1, <2>2
  <2> QED
    BY <2>3 DEF Same
<1> QED
  BY <1>1, <1>3, <1>4

(* The same in the nibbles of the loops.                                   *)
LEMMA NextNibble ==
  ASSUME NEW a, NEW p, NEW k \in 0 .. Digits - 1
  PROVE  /\ Begins(a, p, k + 1) <=>
              Begins(a, p, k) /\ NibbleAt(a, k) = p[k + 1]
         /\ Ends(a, p, k + 1) <=>
              Ends(a, p, k) /\ NibbleAt(a, Digits - 1 - k) = p[Len(p) - k]
<1>1. Digits \in Nat /\ k \in Nat
  BY MatchingAssumption DEF Digits
<1>2. Nibbles(a)[k + 1] = NibbleAt(a, k)
  BY NibbleIsDigit
<1>3. Nibbles(a)[Digits - k] = NibbleAt(a, Digits - 1 - k)
  <2>1. Digits - 1 - k \in 0 .. Digits - 1 /\ Digits - 1 - k + 1 = Digits - k
    BY <1>1
  <2>2. Nibbles(a)[Digits - 1 - k + 1] = NibbleAt(a, Digits - 1 - k)
    BY <2>1, NibbleIsDigit
  <2> QED
    BY <2>1, <2>2
<1>4. Begins(a, p, k + 1) <=> Begins(a, p, k) /\ NibbleAt(a, k) = p[k + 1]
  BY <1>1, <1>2, NextDigit
<1>5. Ends(a, p, k + 1) <=>
        Ends(a, p, k) /\ NibbleAt(a, Digits - 1 - k) = p[Len(p) - k]
  BY <1>1, <1>3, NextDigit
<1> QED
  BY <1>4, <1>5

(* The lengths are unique.                                                 *)
LEMMA LengthsAre ==
  ASSUME NEW a, NEW p \in Seq(Nat), NEW k
  PROVE  /\ PrefixIs(a, p, k) => PrefixLength(a, p) = k
         /\ SuffixIs(a, p, k) => SuffixLength(a, p) = k
<1> Len(p) \in Nat
  OBVIOUS
<1>1. ASSUME PrefixIs(a, p, k) PROVE PrefixLength(a, p) = k
  <2> DEFINE P(j) == Begins(a, p, j) /\ (j < Len(p) => ~ Begins(a, p, j + 1))
  <2>1. k \in 0 .. Len(p) /\ P(k)
    BY <1>1 DEF PrefixIs
  <2>2. \A i, j \in 0 .. Len(p) : i < j /\ Begins(a, p, j) => Begins(a, p, i + 1)
    BY DEF Begins
  <2>3. \A j \in 0 .. Len(p) : P(j) => j = k
    BY <2>1, <2>2
  <2>4. PrefixLength(a, p) = CHOOSE j \in 0 .. Len(p) : P(j)
    BY DEF PrefixLength
  <2> HIDE DEF P
  <2> QED
    BY <2>1, <2>3, <2>4
<1>2. ASSUME SuffixIs(a, p, k) PROVE SuffixLength(a, p) = k
  <2> DEFINE P(j) == Ends(a, p, j) /\ (j < Len(p) => ~ Ends(a, p, j + 1))
  <2>1. k \in 0 .. Len(p) /\ P(k)
    BY <1>2 DEF SuffixIs
  <2>2. \A i, j \in 0 .. Len(p) : i < j /\ Ends(a, p, j) => Ends(a, p, i + 1)
    BY DEF Ends
  <2>3. \A j \in 0 .. Len(p) : P(j) => j = k
    BY <2>1, <2>2
  <2>4. SuffixLength(a, p) = CHOOSE j \in 0 .. Len(p) : P(j)
    BY DEF SuffixLength
  <2> HIDE DEF P
  <2> QED
    BY <2>1, <2>3, <2>4
<1> QED
  BY <1>1, <1>2

(* An address has all digits of the targets iff it begins and ends so.     *)
LEMMA FullIsMatch ==
  ASSUME NEW a, NEW p \in Seq(Nat), NEW s \in Seq(Nat), NEW k, NEW l,
         PrefixIs(a, p, k), SuffixIs(a, s, l)
  PROVE  Matches(a, p, s) <=> k = Len(p) /\ l = Len(s)
<1> Len(p) \in Nat /\ Len(s) \in Nat
  OBVIOUS
<1>1. Begins(a, p, Len(p)) <=> k = Len(p)
  <2>1. k < Len(p) /\ Begins(a, p, Len(p)) => Begins(a, p, k + 1)
    BY DEF PrefixIs, Begins
  <2> QED
    BY <2>1 DEF PrefixIs
<1>2. Ends(a, s, Len(s)) <=> l = Len(s)
  <2>1. l < Len(s) /\ Ends(a, s, Len(s)) => Ends(a, s, l + 1)
    BY DEF SuffixIs, Ends
  <2> QED
    BY <2>1 DEF SuffixIs
<1> QED
  BY <1>1, <1>2 DEF Matches

(* Of two different candidates of a batch one outranks the other.          *)
LEMMA OutranksOrder ==
  ASSUME NEW a \in [index : Nat, prefix : Nat, suffix : Nat],
         NEW b \in [index : Nat, prefix : Nat, suffix : Nat],
         NEW c \in [index : Nat, prefix : Nat, suffix : Nat]
  PROVE  /\ Outranks(a, b) /\ Outranks(b, c) => Outranks(a, c)
         /\ a.index = b.index \/ Outranks(a, b) \/ Outranks(b, a)
         /\ IsClose(a) /\ ~ IsClose(b) => Outranks(a, b)
<1> /\ {a.index, a.prefix, a.suffix} \subseteq Nat
    /\ {b.index, b.prefix, b.suffix} \subseteq Nat
    /\ {c.index, c.prefix, c.suffix} \subseteq Nat
  OBVIOUS
<1>1. Outranks(a, b) /\ Outranks(b, c) => Outranks(a, c)
  BY DEF Outranks
<1>2. a.index = b.index \/ Outranks(a, b) \/ Outranks(b, a)
  BY DEF Outranks
<1>3. IsClose(a) /\ ~ IsClose(b) => Outranks(a, b)
  BY DEF Outranks, IsClose
<1> QED
  BY <1>1, <1>2, <1>3

-----------------------------------------------------------------------------
LEMMA InitIInv == Init => IInv
BY MatchingAssumption
   DEF Init, IInv, TypeOK, Validated, Position, Matched, Measured, BestSoFar,
       HitSoFar, Working, Seen, Digits

LEMMA ValidateIInv ==
  ASSUME IInv, Validate
  PROVE  IInv'
<1>1. /\ pc = "validate" /\ pc' \in {"convert", "refused"}
      /\ pc' = "convert" <=> Valid
      /\ UNCHANGED << asked, targets, addresses, matched, best, hit >>
  BY DEF Validate
<1> UNCHANGED << asked, want_prefix, want_suffix, addresses, index, prefix,
                 suffix, best, hit >>
  BY <1>1 DEF targets, matched
<1>2. Valid' = Valid
  BY DEF Valid, IsHex, Overlap, OverlapAgrees
<1>3. TypeOK' /\ Validated'
  BY <1>1, <1>2 DEF IInv, TypeOK, Validated
<1>4. Position' /\ Matched' /\ index = 1 /\ best = None /\ hit = None
  BY <1>1 DEF IInv, Position, Matched, Working
<1>5. Measured' /\ BestSoFar' /\ HitSoFar'
  BY <1>1, <1>4 DEF Measured, BestSoFar, HitSoFar, Seen
<1> QED
  BY <1>3, <1>4, <1>5 DEF IInv

(* hex_to_nibbles returns as many nibbles as there are digits.             *)
LEMMA NibblesOfHex ==
  ASSUME NEW s \in Seq(0 .. 255), IsHex(s)
  PROVE  HexToNibbles(s) \in Seq(0 .. 15) /\ Len(HexToNibbles(s)) = Len(s)
<1> Len(s) \in Nat /\ DOMAIN s = 1 .. Len(s)
  OBVIOUS
<1>1. \A b \in Decimal \union Upper \union Lower : NibbleOf(b) \in 0 .. 15
  <2> SUFFICES ASSUME NEW b \in Decimal \union Upper \union Lower
               PROVE  NibbleOf(b) \in 0 .. 15
    OBVIOUS
  <2> USE DEF Decimal, Upper, Lower
  <2>1. CASE b \in Decimal
    <3>1. b \notin Lower /\ b \notin Upper
      BY <2>1
    <3> HIDE DEF Decimal, Upper, Lower
    <3>2. NibbleOf(b) = b - 48
      BY <2>1, <3>1 DEF NibbleOf
    <3> QED
      BY <2>1, <3>2 DEF Decimal
  <2>2. CASE b \in Lower
    <3>1. b \notin Decimal /\ b \notin Upper
      BY <2>2
    <3> HIDE DEF Decimal, Upper, Lower
    <3>2. NibbleOf(b) = b - 97 + 10
      BY <2>2, <3>1 DEF NibbleOf
    <3> QED
      BY <2>2, <3>2 DEF Lower
  <2>3. CASE b \in Upper
    <3>1. b \notin Decimal /\ b \notin Lower
      BY <2>3
    <3> HIDE DEF Decimal, Upper, Lower
    <3>2. NibbleOf(b) = b - 65 + 10
      BY <2>3, <3>1 DEF NibbleOf
    <3> QED
      BY <2>3, <3>2 DEF Upper
  <2> QED
    BY <2>1, <2>2, <2>3
<1>2. HexToNibbles(s) \in [1 .. Len(s) -> 0 .. 15]
  BY <1>1 DEF HexToNibbles, IsHex
<1> QED
  BY <1>2

LEMMA ConvertIInv ==
  ASSUME IInv, Convert
  PROVE  IInv'
<1>1. /\ pc = "convert" /\ pc' = "derive"
      /\ want_prefix' = HexToNibbles(asked.prefix)
      /\ want_suffix' = HexToNibbles(asked.suffix)
      /\ asked' = Forgotten
      /\ UNCHANGED << addresses, matched, best, hit >>
  BY DEF Convert
<1> UNCHANGED << addresses, index, prefix, suffix, best, hit >>
  BY <1>1 DEF matched
<1>2. /\ index = 1 /\ prefix = 0 /\ suffix = 0 /\ best = None /\ hit = None
      /\ Valid
  BY <1>1 DEF IInv, Position, Validated, Working
<1>3. asked.prefix \in Seq(0 .. 255) /\ asked.suffix \in Seq(0 .. 255)
  <2>1. Text \subseteq Seq(0 .. 255) /\ << >> \in Seq(0 .. 255)
    BY MatchingAssumption
  <2>2. asked.prefix \in Text \union {<< >>} /\ asked.suffix \in Text \union {<< >>}
    BY DEF IInv, TypeOK
  <2> QED
    BY <2>1, <2>2, Zenon
<1>4. /\ want_prefix' \in Seq(0 .. 15) /\ Len(want_prefix') <= Digits
      /\ want_suffix' \in Seq(0 .. 15) /\ Len(want_suffix') <= Digits
  BY <1>1, <1>2, <1>3, NibblesOfHex DEF Valid
<1>5. prefix' \in 0 .. Len(want_prefix') /\ suffix' \in 0 .. Len(want_suffix')
  BY <1>2, <1>4
<1>6. asked' \in [prefix : Text \union {<< >>}, suffix : Text \union {<< >>}]
  BY <1>1 DEF Forgotten
<1>7. TypeOK'
  BY <1>1, <1>2, <1>4, <1>5, <1>6 DEF IInv, TypeOK
<1>8. Validated' /\ Position' /\ Matched'
  BY <1>1, <1>2 DEF Validated, Position, Matched, Working
<1>9. Measured' /\ BestSoFar' /\ HitSoFar'
  BY <1>1, <1>2 DEF Measured, BestSoFar, HitSoFar, Seen
<1> QED
  BY <1>7, <1>8, <1>9 DEF IInv

LEMMA DeriveIInv ==
  ASSUME IInv, Derive
  PROVE  IInv'
<1>1. /\ pc = "derive" /\ pc' = "prefix" /\ addresses' \in Batch
      /\ UNCHANGED << asked, targets, matched, best, hit >>
  BY DEF Derive
<1> UNCHANGED << asked, want_prefix, want_suffix, index, prefix, suffix, best,
                 hit >>
  BY <1>1 DEF targets, matched
<1>2. index = 1 /\ prefix = 0 /\ suffix = 0 /\ best = None /\ hit = None
  BY <1>1 DEF IInv, Position, Working
<1>3. addresses' \in Seq(Address) /\ addresses' # << >>
  BY <1>1, MatchingAssumption
<1>4. 1 \in DOMAIN addresses'
  BY <1>3
<1>5. TypeOK' /\ Validated' /\ Position'
  BY <1>1, <1>2, <1>4 DEF IInv, TypeOK, Validated, Position, Working
<1>6. Matched'
  BY <1>1, <1>2, NextDigit DEF Matched
<1>7. Measured' /\ BestSoFar' /\ HitSoFar'
  BY <1>1, <1>2 DEF Measured, BestSoFar, HitSoFar, Seen
<1> QED
  BY <1>5, <1>6, <1>7 DEF IInv

(* The digit loops leave alone what has been compared.                     *)
LEMMA StillCompared ==
  ASSUME IInv, Working, Working',
         UNCHANGED << asked, targets, addresses, index, best, hit >>
  PROVE  Validated' /\ Position' /\ Measured' /\ BestSoFar' /\ HitSoFar'
<1> UNCHANGED << asked, want_prefix, want_suffix, addresses, index, best, hit >>
  BY DEF targets
<1>1. Validated' /\ Position'
  BY DEF IInv, Validated, Position, Working
<1>2. Seen' = Seen /\ \A i : Lengths(i)' = Lengths(i)
  BY DEF Seen, Working, Lengths
<1>3. Measured'
  BY <1>2 DEF IInv, Measured
<1>4. BestSoFar'
  BY <1>2 DEF IInv, BestSoFar
<1>5. HitSoFar'
  BY <1>2 DEF IInv, HitSoFar, IsFull
<1> QED
  BY <1>1, <1>3, <1>4, <1>5

LEMMA MatchPrefixIInv ==
  ASSUME IInv, MatchPrefix
  PROVE  IInv'
<1> DEFINE a == addresses[index]
<1>1. /\ pc = "prefix"
      /\ UNCHANGED << asked, targets, addresses, index, suffix, best, hit >>
  BY DEF MatchPrefix
<1> UNCHANGED << asked, want_prefix, want_suffix, addresses, index, suffix,
                 best, hit >>
  BY <1>1 DEF targets
<1>2. /\ want_prefix \in Seq(Nat) /\ Len(want_prefix) \in Nat
      /\ Len(want_prefix) <= Digits /\ Digits \in Nat
      /\ prefix \in 0 .. Len(want_prefix)
  <2>1. want_prefix \in Seq(0 .. 15)
    BY DEF IInv, TypeOK
  <2>2. want_prefix \in Seq(Nat) /\ Len(want_prefix) \in Nat
    BY <2>1
  <2> QED
    BY <2>2, MatchingAssumption DEF IInv, TypeOK, Digits
<1>3. Begins(a, want_prefix, prefix) /\ suffix = 0
  BY <1>1 DEF IInv, Matched
<1>3a. prefix < Len(want_prefix) =>
        (Begins(a, want_prefix, prefix + 1)
           <=> NibbleAt(a, prefix) = want_prefix[prefix + 1])
  BY <1>2, <1>3, NextNibble
<1>4. CASE /\ prefix < Len(want_prefix)
           /\ NibbleAt(addresses[index], prefix) = want_prefix[prefix + 1]
  <2>1. prefix' = prefix + 1 /\ pc' = pc
    BY <1>4 DEF MatchPrefix
  <2>2. prefix \in 0 .. Digits - 1 /\ prefix \in Nat
    BY <1>2, <1>4
  <2>3. Begins(a, want_prefix, prefix + 1)
    BY <1>3, <1>4, <1>3a
  <2>4. Matched'
    BY <1>1, <1>3, <2>1, <2>3 DEF Matched
  <2>5. prefix' \in 0 .. Len(want_prefix')
    BY <1>2, <1>4, <2>1
  <2>6. TypeOK'
    BY <2>1, <2>5 DEF IInv, TypeOK
  <2> QED
    BY <1>1, <2>1, <2>4, <2>6, StillCompared DEF IInv, Working
<1>5. CASE ~ /\ prefix < Len(want_prefix)
             /\ NibbleAt(addresses[index], prefix) = want_prefix[prefix + 1]
  <2>1. prefix' = prefix /\ pc' = "suffix"
    BY <1>5 DEF MatchPrefix
  <2>2. prefix < Len(want_prefix) => ~ Begins(a, want_prefix, prefix + 1)
    BY <1>5, <1>3a
  <2>3. PrefixIs(a, want_prefix, prefix) /\ Ends(a, want_suffix, 0)
    BY <1>2, <1>3, <2>2, NextDigit DEF PrefixIs
  <2>4. Matched'
    BY <1>3, <2>1, <2>3 DEF Matched
  <2>5. TypeOK'
    BY <2>1 DEF IInv, TypeOK
  <2> QED
    BY <1>1, <2>1, <2>4, <2>5, StillCompared DEF IInv, Working
<1> QED
  BY <1>4, <1>5

LEMMA MatchSuffixIInv ==
  ASSUME IInv, MatchSuffix
  PROVE  IInv'
<1> DEFINE a == addresses[index]
<1>1. /\ pc = "suffix"
      /\ UNCHANGED << asked, targets, addresses, index, prefix, best, hit >>
  BY DEF MatchSuffix
<1> UNCHANGED << asked, want_prefix, want_suffix, addresses, index, prefix,
                 best, hit >>
  BY <1>1 DEF targets
<1>2. /\ want_suffix \in Seq(Nat) /\ Len(want_suffix) \in Nat
      /\ Len(want_suffix) <= Digits /\ Digits \in Nat
      /\ suffix \in 0 .. Len(want_suffix)
  <2>1. want_suffix \in Seq(0 .. 15)
    BY DEF IInv, TypeOK
  <2>2. want_suffix \in Seq(Nat) /\ Len(want_suffix) \in Nat
    BY <2>1
  <2> QED
    BY <2>2, MatchingAssumption DEF IInv, TypeOK, Digits
<1>3. Ends(a, want_suffix, suffix) /\ PrefixIs(a, want_prefix, prefix)
  BY <1>1 DEF IInv, Matched
<1>4. suffix < Len(want_suffix) =>
        (Ends(a, want_suffix, suffix + 1)
           <=> NibbleAt(a, Digits - 1 - suffix) = SuffixDigit)
  BY <1>2, <1>3, NextNibble DEF SuffixDigit
<1>5. CASE /\ suffix < Len(want_suffix)
           /\ NibbleAt(addresses[index], Digits - 1 - suffix) = SuffixDigit
  <2>1. suffix' = suffix + 1 /\ pc' = pc
    BY <1>5 DEF MatchSuffix
  <2>2. Ends(a, want_suffix, suffix + 1)
    BY <1>4, <1>5
  <2>3. Matched'
    BY <1>1, <1>3, <2>1, <2>2 DEF Matched
  <2>4. suffix' \in 0 .. Len(want_suffix')
    BY <1>2, <1>5, <2>1
  <2>5. TypeOK'
    BY <2>1, <2>4 DEF IInv, TypeOK
  <2> QED
    BY <1>1, <2>1, <2>3, <2>5, StillCompared DEF IInv, Working
<1>6. CASE ~ /\ suffix < Len(want_suffix)
             /\ NibbleAt(addresses[index], Digits - 1 - suffix) = SuffixDigit
  <2>1. suffix' = suffix /\ pc' = "compare"
    BY <1>6 DEF MatchSuffix
  <2>2. suffix < Len(want_suffix) => ~ Ends(a, want_suffix, suffix + 1)
    BY <1>4, <1>6
  <2>3. SuffixIs(a, want_suffix, suffix)
    BY <1>2, <1>3, <2>2 DEF SuffixIs
  <2>4. Matched'
    BY <1>3, <2>1, <2>3 DEF Matched
  <2>5. TypeOK'
    BY <2>1 DEF IInv, TypeOK
  <2> QED
    BY <1>1, <2>1, <2>4, <2>5, StillCompared DEF IInv, Working
<1> QED
  BY <1>5, <1>6

(* What is compared is a candidate of numbers.                             *)
LEMMA LengthsType ==
  ASSUME IInv, NEW i \in Seen
  PROVE  Lengths(i) \in [index : Nat, prefix : Nat, suffix : Nat]
<1>1. i \in Nat
  BY DEF Seen, IInv, TypeOK
<1>2. Len(want_prefix) \in Nat /\ Len(want_suffix) \in Nat
  BY DEF IInv, TypeOK
<1>3. Lengths(i).prefix \in Nat /\ Lengths(i).suffix \in Nat
  BY <1>2 DEF IInv, Measured, PrefixIs, SuffixIs
<1> QED
  BY <1>1, <1>3 DEF Lengths, CandidateOf

(* What Compare does: one more address is measured.                        *)
LEMMA CompareDoes ==
  ASSUME IInv, Compare
  PROVE  /\ UNCHANGED << asked, want_prefix, want_suffix, addresses >>
         /\ \A i : Lengths(i)' = Lengths(i)
         /\ index \in Nat \ {0} /\ Seen = 1 .. index - 1 /\ Seen' = 1 .. index
         /\ Lengths(index) = Candidate
         /\ PrefixIs(addresses[index], want_prefix, prefix)
         /\ SuffixIs(addresses[index], want_suffix, suffix)
         /\ Candidate \in [index : Nat, prefix : Nat, suffix : Nat]
<1>1. pc = "compare" /\ UNCHANGED << asked, targets, addresses >>
  BY DEF Compare
<1>2. UNCHANGED << asked, want_prefix, want_suffix, addresses >>
  BY <1>1 DEF targets
<1>3. \A i : Lengths(i)' = Lengths(i)
  BY <1>2 DEF Lengths
<1>4. index \in Nat \ {0}
  BY DEF IInv, TypeOK
<1>5. Seen' = 1 .. index
  <2>1. CASE index < Len(addresses)
    <3>1. index' = index + 1 /\ pc' = "prefix"
      BY <2>1 DEF Compare
    <3> QED
      BY <1>4, <3>1 DEF Seen
  <2>2. CASE ~ index < Len(addresses)
    <3>1. index' = index /\ pc' = "done"
      BY <2>2 DEF Compare, matched
    <3> QED
      BY <3>1 DEF Seen
  <2> QED
    BY <2>1, <2>2
<1>6. /\ PrefixIs(addresses[index], want_prefix, prefix)
      /\ SuffixIs(addresses[index], want_suffix, suffix)
  BY <1>1 DEF IInv, Matched
<1>7. want_prefix \in Seq(Nat) /\ want_suffix \in Seq(Nat)
  <2>1. want_prefix \in Seq(0 .. 15) /\ want_suffix \in Seq(0 .. 15)
    BY DEF IInv, TypeOK
  <2> QED
    BY <2>1
<1>8. Lengths(index) = Candidate
  BY <1>6, <1>7, LengthsAre DEF Lengths, CandidateOf, Candidate
<1>9. Candidate \in [index : Nat, prefix : Nat, suffix : Nat]
  <2>1. prefix \in Nat /\ suffix \in Nat
    BY <1>6, <1>7 DEF PrefixIs, SuffixIs
  <2> QED
    BY <1>4, <2>1 DEF Candidate
<1> QED
  BY <1>1, <1>2, <1>3, <1>4, <1>5, <1>6, <1>8, <1>9 DEF Seen

LEMMA CompareTypes ==
  ASSUME IInv, Compare
  PROVE  TypeOK' /\ Validated' /\ Position' /\ Matched'
<1>1. /\ pc = "compare" /\ UNCHANGED << asked, targets, addresses >>
      /\ best' = IF Improves THEN Candidate ELSE best
      /\ hit' = IF hit = None /\ IsHit THEN index ELSE hit
  BY DEF Compare
<1> UNCHANGED << asked, want_prefix, want_suffix, addresses >>
  BY <1>1 DEF targets
<1>2. /\ index \in Nat \ {0}
      /\ Candidate \in [index : Nat, prefix : Nat, suffix : Nat]
  BY CompareDoes
<1>3. best' \in [index : Nat \ {0}, prefix : Nat, suffix : Nat] \union {None}
  <2>1. Candidate \in [index : Nat \ {0}, prefix : Nat, suffix : Nat]
    BY <1>2 DEF Candidate
  <2> QED
    BY <1>1, <2>1 DEF IInv, TypeOK
<1>4. hit' \in (Nat \ {0}) \union {None}
  BY <1>1, <1>2 DEF IInv, TypeOK
<1>5. addresses \in Batch /\ index \in DOMAIN addresses
  BY <1>1 DEF IInv, Position, Working
<1>6. addresses \in Seq(Address) /\ Len(addresses) \in Nat
  BY <1>5, MatchingAssumption
<1>7. Len(want_prefix) \in Nat /\ Len(want_suffix) \in Nat
  BY DEF IInv, TypeOK
<1>8. CASE index < Len(addresses)
  <2>1. index' = index + 1 /\ prefix' = 0 /\ suffix' = 0 /\ pc' = "prefix"
    BY <1>8 DEF Compare
  <2>2. TypeOK'
    <3>1. prefix' \in 0 .. Len(want_prefix') /\ suffix' \in 0 .. Len(want_suffix')
      BY <1>7, <2>1
    <3>2. index' \in Nat \ {0}
      BY <1>2, <2>1
    <3> QED
      BY <1>3, <1>4, <2>1, <3>1, <3>2 DEF IInv, TypeOK
  <2>3. index' \in DOMAIN addresses
    BY <1>2, <1>6, <1>8, <2>1
  <2>4. Position' /\ Validated'
    BY <1>5, <2>1, <2>3 DEF Position, Validated, Working
  <2>5. Matched'
    BY <2>1, NextDigit DEF Matched
  <2> QED
    BY <2>2, <2>4, <2>5
<1>9. CASE ~ index < Len(addresses)
  <2>1. index' = index /\ prefix' = prefix /\ suffix' = suffix /\ pc' = "done"
    BY <1>9 DEF Compare, matched
  <2>2. TypeOK'
    BY <1>3, <1>4, <2>1 DEF IInv, TypeOK
  <2>3. index = Len(addresses)
    BY <1>2, <1>5, <1>6, <1>9
  <2>4. Position' /\ Validated' /\ Matched'
    BY <1>5, <2>1, <2>3 DEF Position, Validated, Matched, Working
  <2> QED
    BY <2>2, <2>4
<1> QED
  BY <1>8, <1>9

LEMMA CompareMeasured ==
  ASSUME IInv, Compare
  PROVE  Measured'
<1>1. /\ UNCHANGED << want_prefix, want_suffix, addresses >>
      /\ \A i : Lengths(i)' = Lengths(i)
      /\ index \in Nat \ {0} /\ Seen = 1 .. index - 1 /\ Seen' = 1 .. index
      /\ Lengths(index) = Candidate
      /\ PrefixIs(addresses[index], want_prefix, prefix)
      /\ SuffixIs(addresses[index], want_suffix, suffix)
  BY CompareDoes
<1>2. Lengths(index).prefix = prefix /\ Lengths(index).suffix = suffix
  BY <1>1 DEF Candidate
<1>3. \A i \in Seen' : i \in Seen \/ i = index
  BY <1>1
<1>4. \A i \in Seen' : /\ PrefixIs(addresses[i], want_prefix, Lengths(i).prefix)
                       /\ SuffixIs(addresses[i], want_suffix, Lengths(i).suffix)
  BY <1>1, <1>2, <1>3 DEF IInv, Measured
<1> QED
  BY <1>1, <1>4 DEF Measured

(* The new candidate replaces the best one iff it outranks it.             *)
LEMMA CompareBest ==
  ASSUME IInv, Compare
  PROVE  BestSoFar'
<1>1. /\ \A i : Lengths(i)' = Lengths(i)
      /\ index \in Nat \ {0} /\ Seen = 1 .. index - 1 /\ Seen' = 1 .. index
      /\ Lengths(index) = Candidate
      /\ Candidate \in [index : Nat, prefix : Nat, suffix : Nat]
  BY CompareDoes
<1>2. /\ \A i \in Seen' : i \in Seen \/ i = index
      /\ \A i \in Seen : i \in Seen' /\ i # index
      /\ index \in Seen'
  BY <1>1
<1>3. \A i \in Seen : Lengths(i) \in [index : Nat, prefix : Nat, suffix : Nat]
  BY LengthsType
<1>4. best' = IF Improves THEN Candidate ELSE best
  BY DEF Compare
<1>5. Improves <=> IsClose(Candidate) /\ (best = None \/ Outranks(Candidate, best))
  BY DEF Improves, IsClose, Candidate
<1>6. Candidate.index = index /\ Candidate # None
  BY <1>1, MatchingAssumption DEF Candidate
<1>7. CASE Improves
  <2>1. best' = Candidate /\ IsClose(Candidate)
    BY <1>4, <1>5, <1>7
  <2>2. ASSUME NEW i \in Seen PROVE Outranks(Candidate, Lengths(i))
    <3>1. CASE best = None
      <4>1. ~ IsClose(Lengths(i))
        BY <2>2, <3>1 DEF IInv, BestSoFar
      <4> QED
        BY <1>1, <1>3, <2>1, <2>2, <4>1, OutranksOrder
    <3>2. CASE best # None
      <4>1. /\ best.index \in Seen /\ best = Lengths(best.index)
            /\ i = best.index \/ Outranks(best, Lengths(i))
        BY <2>2, <3>2 DEF IInv, BestSoFar
      <4>2. best \in [index : Nat, prefix : Nat, suffix : Nat]
        BY <1>3, <4>1, Zenon
      <4>3. Outranks(Candidate, best)
        BY <1>5, <1>7, <3>2
      <4>4. CASE i = best.index
        BY <4>1, <4>3, <4>4, Zenon
      <4>5. CASE Outranks(best, Lengths(i))
        BY <1>1, <1>3, <2>2, <4>2, <4>3, <4>5, OutranksOrder
      <4> QED
        BY <4>1, <4>4, <4>5
    <3> QED
      BY <3>1, <3>2
  <2>3. \A i \in Seen' \ {index} : Outranks(Candidate, Lengths(i))
    BY <1>2, <2>2
  <2> QED
    BY <1>1, <1>2, <1>6, <2>1, <2>3 DEF BestSoFar, IsClose
<1>8. CASE ~ Improves /\ best = None
  <2>1. best' = None /\ ~ IsClose(Candidate)
    BY <1>4, <1>5, <1>8
  <2>2. \A i \in Seen : ~ IsClose(Lengths(i))
    BY <1>8 DEF IInv, BestSoFar
  <2>3. \A i \in Seen' : ~ IsClose(Lengths(i)')
    BY <1>1, <1>2, <2>1, <2>2
  <2> QED
    BY <2>1, <2>3 DEF BestSoFar, IsClose
<1>9. CASE ~ Improves /\ best # None
  <2>1. best' = best
    BY <1>4, <1>9
  <2>2. /\ best.index \in Seen /\ best = Lengths(best.index) /\ IsClose(best)
        /\ \A i \in Seen \ {best.index} : Outranks(best, Lengths(i))
    BY <1>9 DEF IInv, BestSoFar
  <2>3. best \in [index : Nat, prefix : Nat, suffix : Nat]
    BY <1>3, <2>2, Zenon
  <2>4. Outranks(best, Candidate)
    <3>1. CASE ~ IsClose(Candidate)
      BY <1>1, <2>2, <2>3, <3>1, OutranksOrder
    <3>2. CASE IsClose(Candidate)
      <4>1. ~ Outranks(Candidate, best)
        BY <1>5, <1>9, <3>2
      <4>2. Candidate.index # best.index
        BY <1>2, <1>6, <2>2
      <4> QED
        BY <1>1, <2>3, <4>1, <4>2, OutranksOrder
    <3> QED
      BY <3>1, <3>2
  <2>5. \A i \in Seen' \ {best.index} : Outranks(best, Lengths(i)')
    BY <1>1, <1>2, <2>2, <2>4
  <2> QED
    BY <1>1, <1>2, <1>9, <2>1, <2>2, <2>5 DEF BestSoFar, IsClose
<1> QED
  BY <1>7, <1>8, <1>9

(* The first hit stays the first.                                          *)
LEMMA CompareHit ==
  ASSUME IInv, Compare
  PROVE  HitSoFar'
<1>1. /\ UNCHANGED << want_prefix, want_suffix >>
      /\ \A i : Lengths(i)' = Lengths(i)
      /\ index \in Nat \ {0} /\ Seen = 1 .. index - 1 /\ Seen' = 1 .. index
      /\ Lengths(index) = Candidate
  BY CompareDoes
<1>2. \A i : IsFull(Lengths(i))' <=> IsFull(Lengths(i))
  BY <1>1 DEF IsFull
<1>3. IsFull(Lengths(index)) <=> IsHit
  BY <1>1 DEF IsFull, IsHit, Candidate
<1>4. hit' = IF hit = None /\ IsHit THEN index ELSE hit
  BY DEF Compare
<1>5. /\ \A i \in Seen' : i \in Seen \/ i = index
      /\ \A i \in Seen : i \in Seen' /\ i < index
      /\ index \in Seen'
  BY <1>1
<1>6. CASE hit # None
  <2>1. /\ hit \in Seen /\ IsFull(Lengths(hit))
        /\ \A i \in Seen : IsFull(Lengths(i)) => hit <= i
    BY <1>6 DEF IInv, HitSoFar
  <2>2. hit <= index
    BY <1>1, <2>1
  <2>3. hit' = hit
    BY <1>4, <1>6
  <2>4. \A i \in Seen' : IsFull(Lengths(i)) => hit <= i
    BY <1>5, <2>1, <2>2
  <2> QED
    BY <1>2, <1>5, <1>6, <2>1, <2>3, <2>4 DEF HitSoFar
<1>7. CASE hit = None /\ IsHit
  <2>1. \A i \in Seen : ~ IsFull(Lengths(i))
    BY <1>7 DEF IInv, HitSoFar
  <2>2. hit' = index /\ index # None
    BY <1>1, <1>4, <1>7, MatchingAssumption
  <2>3. \A i \in Seen' : IsFull(Lengths(i)) => index <= i
    BY <1>1, <1>5, <2>1
  <2> QED
    BY <1>2, <1>3, <1>5, <1>7, <2>2, <2>3 DEF HitSoFar
<1>8. CASE hit = None /\ ~ IsHit
  <2>1. \A i \in Seen : ~ IsFull(Lengths(i))
    BY <1>8 DEF IInv, HitSoFar
  <2>2. hit' = None
    BY <1>4, <1>8
  <2>3. \A i \in Seen' : ~ IsFull(Lengths(i))
    BY <1>3, <1>5, <1>8, <2>1
  <2> QED
    BY <1>2, <2>2, <2>3 DEF HitSoFar
<1> QED
  BY <1>6, <1>7, <1>8

LEMMA NextIInv == IInv /\ [Next]_vars => IInv'
<1> SUFFICES ASSUME IInv, [Next]_vars
             PROVE  IInv'
  OBVIOUS
<1>1. CASE Validate
  BY <1>1, ValidateIInv
<1>2. CASE Convert
  BY <1>2, ConvertIInv
<1>3. CASE Derive
  BY <1>3, DeriveIInv
<1>4. CASE MatchPrefix
  BY <1>4, MatchPrefixIInv
<1>5. CASE MatchSuffix
  BY <1>5, MatchSuffixIInv
<1>6. CASE Compare
  BY <1>6, CompareTypes, CompareMeasured, CompareBest, CompareHit DEF IInv
<1>7. CASE UNCHANGED vars
  <2>1. UNCHANGED << pc, asked, want_prefix, want_suffix, addresses, index,
                     prefix, suffix, best, hit >>
    BY <1>7 DEF vars, targets, matched
  <2>2. Seen' = Seen /\ \A i : Lengths(i)' = Lengths(i)
    BY <2>1 DEF Seen, Lengths
  <2>3. TypeOK' /\ Validated' /\ Position' /\ Matched'
    BY <2>1 DEF IInv, TypeOK, Validated, Valid, IsHex, Overlap, OverlapAgrees,
                Position, Matched, Working
  <2>4. Measured' /\ BestSoFar' /\ HitSoFar'
    BY <2>1, <2>2 DEF IInv, Measured, BestSoFar, HitSoFar, IsFull
  <2> QED
    BY <2>3, <2>4 DEF IInv
<1> QED
  BY <1>1, <1>2, <1>3, <1>4, <1>5, <1>6, <1>7 DEF Next, Terminated

(* What the loops find holds in every state.                               *)
THEOREM Invariance == Spec => []IInv
BY InitIInv, NextIInv, PTL DEF Spec

(* Every variable has its type, for all targets and batches.               *)
THEOREM TypeCorrect == Spec => []TypeOK
<1>1. IInv => TypeOK
  BY DEF IInv
<1> QED
  BY <1>1, Invariance, PTL

-----------------------------------------------------------------------------
(* What the invariant says of a batch that is done: every address has been *)
(* measured, to at most the targets' lengths.                              *)
LEMMA AllMeasured ==
  ASSUME IInv, pc = "done"
  PROVE  /\ Seen = DOMAIN addresses
         /\ Seen = 1 .. Len(addresses) /\ Len(addresses) \in Nat
         /\ want_prefix \in Seq(Nat) /\ want_suffix \in Seq(Nat)
         /\ Len(want_prefix) <= Digits /\ Digits \in Nat
         /\ \A i \in Seen :
              /\ Lengths(i) \in [index : Nat, prefix : Nat, suffix : Nat]
              /\ Lengths(i).index = i
              /\ Lengths(i).prefix <= Len(want_prefix)
              /\ Lengths(i).suffix <= Len(want_suffix)
<1>1. addresses \in Batch /\ index = Len(addresses)
  BY DEF IInv, Position
<1>2. addresses \in Seq(Address)
  BY <1>1, MatchingAssumption
<1>3. /\ Seen = DOMAIN addresses
      /\ Seen = 1 .. Len(addresses) /\ Len(addresses) \in Nat
  BY <1>1, <1>2 DEF Seen
<1>4. want_prefix \in Seq(Nat) /\ want_suffix \in Seq(Nat)
  <2>1. want_prefix \in Seq(0 .. 15) /\ want_suffix \in Seq(0 .. 15)
    BY DEF IInv, TypeOK
  <2> QED
    BY <2>1
<1>5. Len(want_prefix) <= Digits /\ Digits \in Nat
  BY MatchingAssumption DEF IInv, TypeOK, Digits
<1>6. ASSUME NEW i \in Seen
      PROVE  /\ Lengths(i) \in [index : Nat, prefix : Nat, suffix : Nat]
             /\ Lengths(i).index = i
             /\ Lengths(i).prefix <= Len(want_prefix)
             /\ Lengths(i).suffix <= Len(want_suffix)
  <2>1. Lengths(i) \in [index : Nat, prefix : Nat, suffix : Nat]
    BY <1>6, LengthsType
  <2>2. Lengths(i).index = i
    BY DEF Lengths, CandidateOf
  <2>3. /\ PrefixIs(addresses[i], want_prefix, Lengths(i).prefix)
        /\ SuffixIs(addresses[i], want_suffix, Lengths(i).suffix)
    BY <1>6 DEF IInv, Measured
  <2> QED
    BY <1>4, <2>1, <2>2, <2>3 DEF PrefixIs, SuffixIs
<1> QED
  BY <1>3, <1>4, <1>5, <1>6

(***************************************************************************)
(* The hit evaluate_batch returns is the first address of the batch that   *)
(* begins and ends with the targets as it is written, whatever their       *)
(* lengths and wherever in a byte they end; if there is one, it returns it.*)
(***************************************************************************)
THEOREM FirstHitFound == Spec => []HitIsFirst
<1>1. IInv => HitIsFirst
  <2> SUFFICES ASSUME IInv, pc = "done"
               PROVE  HitIsFirst
    BY DEF HitIsFirst
  <2>1. /\ Seen = DOMAIN addresses
        /\ want_prefix \in Seq(Nat) /\ want_suffix \in Seq(Nat)
    BY AllMeasured
  <2>2. ASSUME NEW i \in Seen
        PROVE  Matches(addresses[i], want_prefix, want_suffix)
                 <=> IsFull(Lengths(i))
    <3>1. /\ PrefixIs(addresses[i], want_prefix, Lengths(i).prefix)
          /\ SuffixIs(addresses[i], want_suffix, Lengths(i).suffix)
      BY <2>2 DEF IInv, Measured
    <3> QED
      BY <2>1, <3>1, FullIsMatch DEF IsFull
  <2> DEFINE hits == {i \in DOMAIN addresses :
                        Matches(addresses[i], want_prefix, want_suffix)}
  <2>3. hits = {i \in Seen : IsFull(Lengths(i))}
    BY <2>1, <2>2
  <2> HIDE DEF hits
  <2>4. CASE hit = None
    <3>1. hits = {}
      BY <2>3, <2>4 DEF IInv, HitSoFar
    <3> QED
      BY <2>4, <3>1 DEF HitIsFirst, hits
  <2>5. CASE hit # None
    <3>1. hit \in hits /\ \A i \in hits : hit <= i
      BY <2>3, <2>5 DEF IInv, HitSoFar
    <3> QED
      BY <3>1 DEF HitIsFirst, hits
  <2> QED
    BY <2>4, <2>5
<1> QED
  BY <1>1, Invariance, PTL

-----------------------------------------------------------------------------
(* Products with a width grow by it.                                       *)
LEMMA Grows ==
  ASSUME NEW x \in Nat, NEW y \in Nat, NEW w \in Nat, x > y
  PROVE  x * w >= y * w + w /\ x * w \in Nat /\ y * w \in Nat
<1> DEFINE e == x - y - 1
<1>1. e \in Nat /\ x = y + 1 + e
  OBVIOUS
<1>2. x * w = y * w + w + e * w
  BY <1>1
<1>3. e * w \in Nat /\ y * w \in Nat /\ x * w \in Nat
  BY <1>1
<1> HIDE DEF e
<1> QED
  BY <1>2, <1>3

(* The rank of a candidate in one number: a total, a prefix of at most D   *)
(* and an index of at most L, in the base of both.                         *)
LEMMA RankIsNumber ==
  ASSUME NEW c \in [index : Nat, prefix : Nat, suffix : Nat],
         NEW d \in [index : Nat, prefix : Nat, suffix : Nat],
         NEW D \in Nat, NEW L \in Nat, NEW wide, wide = D + L + 1,
         c.prefix <= D, d.prefix <= D, c.index <= L, d.index <= L,
         Outranks(c, d)
  PROVE  (c.prefix + c.suffix) * wide * wide + c.prefix * wide - c.index
           > (d.prefix + d.suffix) * wide * wide + d.prefix * wide - d.index
<1> DEFINE C == c.prefix + c.suffix
           E == d.prefix + d.suffix
<1>1. /\ {c.index, c.prefix, c.suffix} \subseteq Nat
      /\ {d.index, d.prefix, d.suffix} \subseteq Nat
      /\ wide \in Nat /\ C \in Nat /\ E \in Nat
  OBVIOUS
<1>2. \/ C > E
      \/ C = E /\ c.prefix > d.prefix
      \/ C = E /\ c.prefix = d.prefix /\ c.index < d.index
  BY DEF Outranks
<1> HIDE DEF C, E
<1>3. C * wide \in Nat /\ E * wide \in Nat /\ wide * wide \in Nat
  BY <1>1
<1>4. C * wide * wide \in Nat /\ E * wide * wide \in Nat
      /\ c.prefix * wide \in Nat /\ d.prefix * wide \in Nat
  BY <1>1, <1>3
<1>5. CASE C > E
  <2>1. C * wide >= E * wide + wide
    BY <1>1, <1>5, Grows
  <2>2. wide > 0
    BY <1>1
  <2>3. C * wide * wide >= (E * wide + wide) * wide
    <3> DEFINE x == C * wide
               y == E * wide + wide
    <3>1. x \in Nat /\ y \in Nat /\ x >= y
      BY <1>1, <1>3, <2>1
    <3> HIDE DEF x, y
    <3>2. x = y \/ x > y
      BY <3>1
    <3>3. x * wide >= y * wide
      BY <1>1, <3>1, <3>2, Grows
    <3> QED
      BY <3>3 DEF x, y
  <2>4. (E * wide + wide) * wide = E * wide * wide + wide * wide
    BY <1>1, <1>3
  <2>5. D * wide \in Nat /\ wide * wide = D * wide + (L + 1) * wide
    BY <1>1
  <2>6. d.prefix * wide <= D * wide
    <3>1. d.prefix = D \/ D > d.prefix
      BY <1>1
    <3> QED
      BY <1>1, <2>5, <3>1, Grows
  <2>7. (L + 1) * wide >= L + 1
    <3>1. wide * (L + 1) >= 0 * (L + 1) + (L + 1)
      BY <1>1, <2>2, Grows
    <3> QED
      BY <1>1, <3>1
  <2>8. (L + 1) * wide \in Nat
    BY <1>1
  <2> QED
    BY <1>1, <1>4, <2>3, <2>4, <2>5, <2>6, <2>7, <2>8 DEF C, E
<1>6. CASE C = E /\ c.prefix > d.prefix
  <2>1. c.prefix * wide >= d.prefix * wide + wide
    BY <1>1, <1>6, Grows
  <2>2. C * wide * wide = E * wide * wide
    BY <1>6
  <2> QED
    BY <1>1, <1>4, <2>1, <2>2 DEF C, E
<1>7. CASE C = E /\ c.prefix = d.prefix /\ c.index < d.index
  <2>1. C * wide * wide = E * wide * wide /\ c.prefix * wide = d.prefix * wide
    BY <1>7
  <2> QED
    BY <1>1, <1>4, <1>7, <2>1 DEF C, E
<1> QED
  BY <1>2, <1>5, <1>6, <1>7

(* The hit of a batch is its candidate, if there is one at all.            *)
LEMMA HitIsBest ==
  ASSUME IInv, pc = "done", best # None, hit # None
  PROVE  best.index = hit
<1>1. /\ best.index \in Seen /\ best = Lengths(best.index)
      /\ \A i \in Seen \ {best.index} : Outranks(best, Lengths(i))
  BY DEF IInv, BestSoFar
<1>2. /\ hit \in Seen /\ IsFull(Lengths(hit))
      /\ \A i \in Seen : IsFull(Lengths(i)) => hit <= i
  BY DEF IInv, HitSoFar
<1>3. \A i \in Seen :
        /\ Lengths(i) \in [index : Nat, prefix : Nat, suffix : Nat]
        /\ Lengths(i).index = i
        /\ Lengths(i).prefix <= Len(want_prefix)
        /\ Lengths(i).suffix <= Len(want_suffix)
  BY AllMeasured
<1> DEFINE b == Lengths(best.index)
           h == Lengths(hit)
<1>4. /\ b \in [index : Nat, prefix : Nat, suffix : Nat]
      /\ b.prefix <= Len(want_prefix) /\ b.suffix <= Len(want_suffix)
      /\ b.index = best.index
  BY <1>1, <1>3
<1>5. /\ h \in [index : Nat, prefix : Nat, suffix : Nat]
      /\ h.prefix = Len(want_prefix) /\ h.suffix = Len(want_suffix)
      /\ h.index = hit
  BY <1>2, <1>3 DEF IsFull
<1>6. best.index = hit \/ Outranks(b, h)
  BY <1>1, <1>2
<1>7. IsFull(b) => hit <= b.index
  BY <1>1, <1>2, <1>4
<1> HIDE DEF b, h
<1>8. /\ {b.index, b.prefix, b.suffix} \subseteq Nat
      /\ {h.index, h.prefix, h.suffix} \subseteq Nat
  BY <1>4, <1>5
<1>9. ~ Outranks(b, h)
  <2> SUFFICES ASSUME Outranks(b, h)
               PROVE  FALSE
    OBVIOUS
  <2>1. b.prefix = h.prefix /\ b.suffix = h.suffix /\ b.index < h.index
    BY <1>4, <1>5, <1>8 DEF Outranks
  <2>2. IsFull(b)
    BY <1>5, <2>1 DEF IsFull
  <2> QED
    BY <1>5, <1>7, <1>8, <2>1, <2>2
<1> QED
  BY <1>6, <1>9

(***************************************************************************)
(* The candidate of a batch is the one of the highest rank, written as one *)
(* number, with the lowest index among equals; it has the lengths of its   *)
(* address, and is the hit if there is one.                                *)
(***************************************************************************)
THEOREM BestCandidateFound == Spec => []BestOfBatch
<1>1. IInv => BestOfBatch
  <2> SUFFICES ASSUME IInv, pc = "done"
               PROVE  BestOfBatch
    BY DEF BestOfBatch
  <2> DEFINE all == {[index |-> i,
                      prefix |-> PrefixLength(addresses[i], want_prefix),
                      suffix |-> SuffixLength(addresses[i], want_suffix)] :
                        i \in DOMAIN addresses}
             close == {c \in all : c.prefix + c.suffix > 0}
             wide == Digits + Len(addresses) + 1
             value(c) == (c.prefix + c.suffix) * wide * wide + c.prefix * wide
                           - c.index
  <2>1. /\ Seen = DOMAIN addresses
        /\ Seen = 1 .. Len(addresses) /\ Len(addresses) \in Nat
        /\ Len(want_prefix) <= Digits /\ Digits \in Nat
        /\ Len(want_prefix) \in Nat
        /\ \A i \in Seen :
              /\ Lengths(i) \in [index : Nat, prefix : Nat, suffix : Nat]
              /\ Lengths(i).index = i
              /\ Lengths(i).prefix <= Len(want_prefix)
    BY AllMeasured DEF IInv, TypeOK
  <2>2. all = {Lengths(i) : i \in Seen}
    BY <2>1 DEF Lengths, CandidateOf
  <2> HIDE DEF all
  <2>3. close = {c \in all : IsClose(c)}
    BY DEF IsClose
  <2> HIDE DEF close
  <2>4. ASSUME NEW c \in all
        PROVE  /\ c \in [index : Nat, prefix : Nat, suffix : Nat]
               /\ c.index \in Seen /\ c = Lengths(c.index)
               /\ c.prefix <= Digits /\ c.index <= Len(addresses)
    <3>1. PICK i \in Seen : c = Lengths(i)
      BY <2>2, <2>4
    <3>2. c \in [index : Nat, prefix : Nat, suffix : Nat] /\ c.index = i
      BY <2>1, <3>1
    <3>3. c.prefix <= Digits
      BY <2>1, <3>1, <3>2
    <3>4. c.index <= Len(addresses)
      BY <2>1, <3>2
    <3> QED
      BY <3>1, <3>2, <3>3, <3>4
  <2>5. CASE best = None
    <3>1. close = {}
      BY <2>2, <2>3, <2>5 DEF IInv, BestSoFar
    <3> QED
      BY <2>5, <3>1 DEF BestOfBatch, close, all
  <2>6. CASE best # None
    <3>1. /\ best.index \in Seen /\ best = Lengths(best.index) /\ IsClose(best)
          /\ \A i \in Seen \ {best.index} : Outranks(best, Lengths(i))
      BY <2>6 DEF IInv, BestSoFar
    <3>2. best \in close /\ best \in all
      BY <2>2, <2>3, <3>1
    <3>3. ASSUME NEW c \in close \ {best}
          PROVE  value(best) > value(c)
      <4>1. c \in all /\ c # best
        BY <2>3, <3>3
      <4>2. c.index \in Seen \ {best.index} /\ c = Lengths(c.index)
        BY <2>4, <3>1, <4>1
      <4>3. Outranks(best, c)
        BY <3>1, <4>2, Zenon
      <4>4. /\ c \in [index : Nat, prefix : Nat, suffix : Nat]
            /\ c.prefix <= Digits /\ c.index <= Len(addresses)
        BY <2>4, <4>1
      <4>5. /\ best \in [index : Nat, prefix : Nat, suffix : Nat]
            /\ best.prefix <= Digits /\ best.index <= Len(addresses)
        BY <2>4, <3>2
      <4> QED
        BY <2>1, <4>3, <4>4, <4>5, RankIsNumber
    <3>4. hit # None => best.index = hit
      BY <2>6, HitIsBest
    <3> HIDE DEF value
    <3>5. /\ close = {} => best = None
          /\ close # {} => /\ best \in close
                           /\ \A c \in close \ {best} : value(best) > value(c)
                           /\ hit # None => best.index = hit
      BY <3>2, <3>3, <3>4
    <3> QED
      BY <3>5 DEF BestOfBatch, close, all, value
  <2> QED
    BY <2>5, <2>6
<1> QED
  BY <1>1, Invariance, PTL

-----------------------------------------------------------------------------
(* A hexadecimal character and the digit it is typed for.                  *)
LEMMA MeansDigit ==
  ASSUME NEW b \in Decimal \union Upper \union Lower
  PROVE  /\ Means(b) \in 0 .. 15
         /\ LowerCase(b) = IF Means(b) < 10 THEN 48 + Means(b) ELSE 87 + Means(b)
<1>1. \E n \in 0 .. 15 : b \in Typed(n)
  <2>1. CASE b \in Decimal
    <3>1. b - 48 \in 0 .. 15 /\ b \in Typed(b - 48)
      BY <2>1 DEF Decimal, Typed
    <3> QED
      BY <3>1
  <2>2. CASE b \in Upper
    <3>1. b - 55 \in 0 .. 15 /\ b \in Typed(b - 55)
      BY <2>2 DEF Upper, Typed
    <3> QED
      BY <3>1
  <2>3. CASE b \in Lower
    <3>1. b - 87 \in 0 .. 15 /\ b \in Typed(b - 87)
      BY <2>3 DEF Lower, Typed
    <3> QED
      BY <3>1
  <2> QED
    BY <2>1, <2>2, <2>3
<1>2. Means(b) \in 0 .. 15 /\ b \in Typed(Means(b))
  BY <1>1 DEF Means
<1>3. \A n \in 0 .. 15 :
        b \in Typed(n) => LowerCase(b) = IF n < 10 THEN 48 + n ELSE 87 + n
  BY DEF Typed, LowerCase
<1> QED
  BY <1>2, <1>3

(* Two characters are the same letter iff they are typed for one digit.    *)
LEMMA SameMeaning ==
  ASSUME NEW a \in Decimal \union Upper \union Lower,
         NEW b \in Decimal \union Upper \union Lower
  PROVE  SameLetter(a, b) <=> Means(a) = Means(b)
<1>1. /\ Means(a) \in 0 .. 15 /\ Means(b) \in 0 .. 15
      /\ LowerCase(a) = IF Means(a) < 10 THEN 48 + Means(a) ELSE 87 + Means(a)
      /\ LowerCase(b) = IF Means(b) < 10 THEN 48 + Means(b) ELSE 87 + Means(b)
  BY MeansDigit
<1> QED
  BY <1>1 DEF SameLetter

(* Where a prefix of P and a suffix of S of D digits overlap.              *)
LEMMA OverlapPositions ==
  ASSUME NEW P \in Nat, NEW S \in Nat, NEW D \in Nat, P <= D, S <= D, NEW i \in Nat
  PROVE  /\ i \in 1 .. P + S - D =>
              /\ i \in 1 .. S /\ D - S + i \in 1 .. P
              /\ P - (P + S - D) + i = D - S + i
         /\ i \in 1 .. S =>
              /\ D - S + i \in 1 .. D /\ D - S + i > D - S
              /\ D - S + i - (D - S) = i
              /\ D - S + i <= P => i \in 1 .. P + S - D
OBVIOUS

(* What validate_targets accepts is what an address can carry.             *)
LEMMA ValidIsPossible ==
  ASSUME asked.prefix \in Seq(0 .. 255), asked.suffix \in Seq(0 .. 255)
  PROVE  Valid <=> Possible(asked.prefix, asked.suffix)
<1> DEFINE p == asked.prefix
           s == asked.suffix
           Values == {Means(p[i]) : i \in DOMAIN p} \union
                     {Means(s[i]) : i \in DOMAIN s} \union {0}
           Carries(n) == /\ \A i \in DOMAIN p : n[i] = Means(p[i])
                         /\ \A i \in DOMAIN s : n[Digits - Len(s) + i] = Means(s[i])
<1>1. /\ Len(p) \in Nat /\ DOMAIN p = 1 .. Len(p)
      /\ Len(s) \in Nat /\ DOMAIN s = 1 .. Len(s) /\ Digits \in Nat
  BY MatchingAssumption DEF Digits
<1> SUFFICES ASSUME IsHex(p), IsHex(s), Len(p) <= Digits, Len(s) <= Digits
             PROVE  OverlapAgrees <=> \E n \in [1 .. Digits -> Values] : Carries(n)
  BY DEF Valid, Possible
<1> HIDE DEF p, s
<1>1a. \A i \in Nat :
        /\ i \in 1 .. Len(p) + Len(s) - Digits =>
             /\ i \in 1 .. Len(s) /\ Digits - Len(s) + i \in 1 .. Len(p)
             /\ Len(p) - (Len(p) + Len(s) - Digits) + i = Digits - Len(s) + i
        /\ i \in 1 .. Len(s) =>
             /\ Digits - Len(s) + i \in 1 .. Digits
             /\ Digits - Len(s) + i > Digits - Len(s)
             /\ Digits - Len(s) + i - (Digits - Len(s)) = i
             /\ Digits - Len(s) + i <= Len(p) => i \in 1 .. Len(p) + Len(s) - Digits
  BY <1>1, OverlapPositions
<1>2. /\ \A i \in 1 .. Len(p) : p[i] \in Decimal \union Upper \union Lower
      /\ \A i \in 1 .. Len(s) : s[i] \in Decimal \union Upper \union Lower
  BY <1>1 DEF IsHex
<1>3. OverlapAgrees <=>
        \A i \in 1 .. Len(p) + Len(s) - Digits :
          Means(p[Digits - Len(s) + i]) = Means(s[i])
  <2>1. Overlap = Len(p) + Len(s) - Digits
    BY DEF Overlap, p, s
  <2>2. \A i \in 1 .. Overlap :
          /\ Len(p) - Overlap + i = Digits - Len(s) + i
          /\ Digits - Len(s) + i \in 1 .. Len(p) /\ i \in 1 .. Len(s)
    BY <1>1, <2>1, <1>1a
  <2>3. \A i \in 1 .. Overlap :
          SameLetter(p[Len(p) - Overlap + i], s[i])
            <=> Means(p[Digits - Len(s) + i]) = Means(s[i])
    BY <1>2, <2>2, SameMeaning
  <2> QED
    BY <2>1, <2>3 DEF OverlapAgrees, p, s
<1>4. ASSUME OverlapAgrees
      PROVE  \E n \in [1 .. Digits -> Values] : Carries(n)
  <2> DEFINE n == [j \in 1 .. Digits |->
                     IF j <= Len(p) THEN Means(p[j])
                     ELSE IF j > Digits - Len(s) THEN Means(s[j - (Digits - Len(s))])
                     ELSE 0]
  <2>1. n \in [1 .. Digits -> Values]
    <3> SUFFICES ASSUME NEW j \in 1 .. Digits
                 PROVE  n[j] \in Values
      OBVIOUS
    <3>1. CASE j <= Len(p)
      BY <1>1, <3>1
    <3>2. CASE ~ j <= Len(p) /\ j > Digits - Len(s)
      <4>1. j - (Digits - Len(s)) \in DOMAIN s
        BY <1>1, <3>2
      <4>2. n[j] = Means(s[j - (Digits - Len(s))])
        BY <3>2
      <4> QED
        BY <4>1, <4>2
    <3>3. CASE ~ j <= Len(p) /\ ~ j > Digits - Len(s)
      BY <3>3
    <3> QED
      BY <3>1, <3>2, <3>3
  <2>2. \A i \in DOMAIN p : n[i] = Means(p[i])
    BY <1>1
  <2>3. ASSUME NEW i \in DOMAIN s
        PROVE  n[Digits - Len(s) + i] = Means(s[i])
    <3>1. Digits - Len(s) + i \in 1 .. Digits
      BY <1>1, <1>1a
    <3>2. CASE Digits - Len(s) + i <= Len(p)
      <4>1. i \in 1 .. Len(p) + Len(s) - Digits
        BY <1>1, <3>2, <1>1a
      <4>2. n[Digits - Len(s) + i] = Means(p[Digits - Len(s) + i])
        BY <3>1, <3>2
      <4> QED
        BY <1>3, <1>4, <4>1, <4>2
    <3>3. CASE ~ Digits - Len(s) + i <= Len(p)
      <4>1. /\ Digits - Len(s) + i > Digits - Len(s)
            /\ Digits - Len(s) + i - (Digits - Len(s)) = i
        BY <1>1, <1>1a
      <4>2. \A j \in 1 .. Digits :
              ~ j <= Len(p) /\ j > Digits - Len(s)
                => n[j] = Means(s[j - (Digits - Len(s))])
        OBVIOUS
      <4> HIDE DEF n
      <4>3. PICK j \in 1 .. Digits : j = Digits - Len(s) + i
        BY <3>1
      <4>4. ~ j <= Len(p) /\ j > Digits - Len(s) /\ j - (Digits - Len(s)) = i
        BY <1>1, <3>3, <4>3
      <4>5. n[j] = Means(s[i])
        BY <4>2, <4>4, Zenon
      <4> QED
        BY <4>3, <4>5, Zenon
    <3> QED
      BY <3>2, <3>3
  <2> HIDE DEF n
  <2> QED
    BY <2>1, <2>2, <2>3
<1>5. ASSUME NEW n \in [1 .. Digits -> Values], Carries(n)
      PROVE  OverlapAgrees
  <2> SUFFICES ASSUME NEW i \in 1 .. Len(p) + Len(s) - Digits
               PROVE  Means(p[Digits - Len(s) + i]) = Means(s[i])
    BY <1>3
  <2>1. Digits - Len(s) + i \in DOMAIN p /\ i \in DOMAIN s
    BY <1>1, <1>1a
  <2> QED
    BY <1>5, <2>1
<1> QED
  BY <1>4, <1>5

(***************************************************************************)
(* validate_targets refuses exactly the pairs of targets that no address   *)
(* satisfies, whatever their lengths, overlap and case.                    *)
(***************************************************************************)
THEOREM OnlyImpossibleRefused == Spec => []RefusesTheImpossible
<1>1. IInv => RefusesTheImpossible
  <2> SUFFICES ASSUME IInv
               PROVE  RefusesTheImpossible
    OBVIOUS
  <2>1. Text \subseteq Seq(0 .. 255) /\ << >> \in Seq(0 .. 255)
    BY MatchingAssumption
  <2>2. /\ asked.prefix \in Text \union {<< >>}
        /\ asked.suffix \in Text \union {<< >>}
    BY DEF IInv, TypeOK
  <2>3. Valid <=> Possible(asked.prefix, asked.suffix)
    BY <2>1, <2>2, ValidIsPossible, Zenon
  <2> QED
    BY <2>3 DEF IInv, Validated, RefusesTheImpossible
<1> QED
  BY <1>1, Invariance, PTL

-----------------------------------------------------------------------------
(***************************************************************************)
(* The addresses that the targets allow.                                   *)
(***************************************************************************)
(* The targets fix the same digit where they overlap.                      *)
Agreed ==
  pc = "derive" =>
    \A i \in 1 .. Len(want_prefix) + Len(want_suffix) - Digits :
      want_prefix[Digits - Len(want_suffix) + i] = want_suffix[i]

(* The positions that no target fixes.                                     *)
Free == Len(want_prefix) + 1 .. Digits - Len(want_suffix)

Used ==
  {want_prefix[i] : i \in DOMAIN want_prefix} \union
  {want_suffix[i] : i \in DOMAIN want_suffix}

(* An allowed address is a choice of digits for the free positions.        *)
FreeDigits(alphabet) == [n \in Allowed(alphabet) |-> [j \in Free |-> n[j]]]

LEMMA FreeChoice ==
  ASSUME TypeOK, Agreed, pc = "derive", NEW A, Used \subseteq A
  PROVE  FreeDigits(A) \in Bijection(Allowed(A), [Free -> A])
<1> DEFINE p == want_prefix
           s == want_suffix
           P == Len(p)
           S == Len(s)
           gap == Digits - S
<1>1. /\ P \in Nat /\ DOMAIN p = 1 .. P /\ P <= Digits
      /\ S \in Nat /\ DOMAIN s = 1 .. S /\ S <= Digits
      /\ Digits \in Nat
  BY MatchingAssumption DEF TypeOK, Digits
<1>2. /\ \A i \in 1 .. P : p[i] \in A
      /\ \A i \in 1 .. S : s[i] \in A
  BY <1>1 DEF Used
<1>3. \A i \in 1 .. P + S - Digits : p[gap + i] = s[i]
  BY DEF Agreed
<1>4. Free = P + 1 .. gap
  BY DEF Free
<1>5. \A n : n \in Allowed(A) <=> /\ n \in [1 .. Digits -> A]
                                  /\ \A i \in 1 .. P : n[i] = p[i]
                                  /\ \A i \in 1 .. S : n[gap + i] = s[i]
  BY <1>1 DEF Allowed
<1> HIDE DEF p, s, P, S
<1>6. gap \in Nat /\ gap <= Digits /\ gap + S = Digits
  BY <1>1
<1> HIDE DEF gap
<1>7. \A j \in 1 .. Digits : j \in 1 .. P \/ j \in Free \/ j - gap \in 1 .. S
  BY <1>1, <1>4, <1>6
<1>8. FreeDigits(A) \in [Allowed(A) -> [Free -> A]]
  <2>1. Free \subseteq 1 .. Digits
    BY <1>1, <1>4, <1>6
  <2>2. QED
    BY <1>5, <2>1 DEF FreeDigits
<1>9. ASSUME NEW n \in Allowed(A), NEW m \in Allowed(A),
             FreeDigits(A)[n] = FreeDigits(A)[m]
      PROVE  n = m
  <2>1. \A j \in Free : n[j] = m[j]
    <3>1. [j \in Free |-> n[j]] = [j \in Free |-> m[j]]
      BY <1>9 DEF FreeDigits
    <3>2. QED
      BY <3>1
  <2>2. ASSUME NEW j \in 1 .. Digits PROVE n[j] = m[j]
    <3>1. CASE j \in 1 .. P
      BY <1>5, <3>1
    <3>2. CASE j - gap \in 1 .. S
      <4>1. gap + (j - gap) = j
        BY <1>6
      <4>2. PICK i \in 1 .. S : i = j - gap
        BY <3>2
      <4>3. n[gap + i] = m[gap + i]
        BY <1>5
      <4>4. QED
        BY <4>1, <4>2, <4>3
    <3>3. QED
      BY <1>7, <2>1, <3>1, <3>2
  <2>3. n \in [1 .. Digits -> A] /\ m \in [1 .. Digits -> A]
    BY <1>5
  <2>4. /\ n = [j \in 1 .. Digits |-> n[j]] /\ m = [j \in 1 .. Digits |-> m[j]]
        /\ [j \in 1 .. Digits |-> n[j]] = [j \in 1 .. Digits |-> m[j]]
    BY <2>2, <2>3, Zenon
  <2>5. QED
    BY <2>4, Zenon
<1>10. ASSUME NEW g \in [Free -> A]
       PROVE  \E n \in Allowed(A) : FreeDigits(A)[n] = g
  <2> DEFINE n == [j \in 1 .. Digits |-> IF j \in 1 .. P THEN p[j]
                                        ELSE IF j \in Free THEN g[j]
                                        ELSE s[j - gap]]
  <2>1. \A j \in 1 .. Digits : n[j] \in A
    BY <1>2, <1>7
  <2>2. \A i \in 1 .. P : i \in 1 .. Digits /\ n[i] = p[i]
    BY <1>1
  <2>3. \A j \in Free : j \in 1 .. Digits /\ n[j] = g[j]
    BY <1>1, <1>4, <1>6
  <2>4. ASSUME NEW i \in 1 .. S PROVE n[gap + i] = s[i]
    <3>1. /\ gap + i \in 1 .. Digits /\ gap + i \notin Free
          /\ gap + i - gap = i
      BY <1>1, <1>4, <1>6
    <3>2. CASE gap + i \in 1 .. P
      <4>1. i \in 1 .. P + S - Digits
        BY <1>1, <1>6, <3>2
      <4>2. QED
        BY <1>3, <3>1, <3>2, <4>1
    <3>3. CASE gap + i \notin 1 .. P
      <4>1. \A j \in 1 .. Digits : j \notin 1 .. P /\ j \notin Free => n[j] = s[j - gap]
        OBVIOUS
      <4> HIDE DEF n
      <4>2. PICK j \in 1 .. Digits : j = gap + i
        BY <3>1
      <4>3. n[j] = s[j - gap]
        BY <3>1, <3>3, <4>1, <4>2, Zenon
      <4>4. j - gap = i
        BY <1>6, <4>2
      <4>5. n[j] = s[i]
        BY <4>3, <4>4, Zenon
      <4>6. QED
        BY <4>2, <4>5, Zenon
    <3>4. QED
      BY <3>2, <3>3
  <2>5. n \in [1 .. Digits -> A]
    BY <2>1
  <2> HIDE DEF n
  <2>6. n \in Allowed(A)
    BY <1>5, <2>2, <2>4, <2>5
  <2>7. FreeDigits(A)[n] = [j \in Free |-> n[j]]
    BY <2>6 DEF FreeDigits
  <2>8. [j \in Free |-> n[j]] = g
    BY <2>3
  <2>9. QED
    BY <2>6, <2>7, <2>8
<1>11. QED
  BY <1>8, <1>9, <1>10, Fun_IsBij

(* What is written in two digits is a set of positions.                    *)
LEMMA TwoDigits ==
  ASSUME NEW R, IsFiniteSet(R)
  PROVE  /\ IsFiniteSet([R -> {0, 10}])
         /\ Cardinality([R -> {0, 10}]) = 2 ^ Cardinality(R)
<1> DEFINE tens == [T \in SUBSET R |-> [j \in R |-> IF j \in T THEN 10 ELSE 0]]
<1>1. tens \in [SUBSET R -> [R -> {0, 10}]]
  OBVIOUS
<1>2. ASSUME NEW T \in SUBSET R, NEW U \in SUBSET R, tens[T] = tens[U]
      PROVE  T = U
  <2>1. ASSUME NEW j \in R
        PROVE  j \in T <=> j \in U
    <3>1. /\ tens[T][j] = IF j \in T THEN 10 ELSE 0
          /\ tens[U][j] = IF j \in U THEN 10 ELSE 0
      OBVIOUS
    <3> HIDE DEF tens
    <3>2. tens[T][j] = tens[U][j]
      BY <1>2
    <3>3. QED
      BY <3>1, <3>2
  <2>2. QED
    BY <2>1
<1>3. ASSUME NEW f \in [R -> {0, 10}]
      PROVE  \E T \in SUBSET R : tens[T] = f
  <2> DEFINE T == {j \in R : f[j] = 10}
  <2>1. T \in SUBSET R /\ tens[T] = [j \in R |-> IF j \in T THEN 10 ELSE 0]
    OBVIOUS
  <2>2. \A j \in R : (IF j \in T THEN 10 ELSE 0) = f[j]
    OBVIOUS
  <2> HIDE DEF T, tens
  <2>3. tens[T] = f
    BY <2>1, <2>2
  <2>4. QED
    BY <2>1, <2>3
<1>4. tens \in Bijection(SUBSET R, [R -> {0, 10}])
  <2> HIDE DEF tens
  <2>1. QED
    BY <1>1, <1>2, <1>3, Fun_IsBij
<1>5. ExistsBijection(SUBSET R, [R -> {0, 10}])
  BY <1>4, Zenon DEF ExistsBijection
<1>6. IsFiniteSet(SUBSET R) /\ Cardinality(SUBSET R) = 2 ^ Cardinality(R)
  BY FS_SUBSET
<1>7. QED
  BY <1>5, <1>6, FS_Bijection, Zenon

(* One address in 2^k is allowed, k being what effective_fixed returns.    *)
LEMMA AllowedCount ==
  ASSUME TypeOK, Agreed, pc = "derive", Used \subseteq {0, 10}
  PROVE  Cardinality(Allowed({0, 10})) =
           2 ^ (Digits - EffectiveFixed(want_prefix, want_suffix))
<1>1. /\ Len(want_prefix) \in Nat /\ Len(want_prefix) <= Digits
      /\ Len(want_suffix) \in Nat /\ Len(want_suffix) <= Digits
      /\ Digits \in Nat
  BY MatchingAssumption DEF TypeOK, Digits
<1>2. /\ IsFiniteSet(Free)
      /\ Cardinality(Free) = Digits - EffectiveFixed(want_prefix, want_suffix)
  <2> DEFINE a == Len(want_prefix) + 1
             b == Digits - Len(want_suffix)
  <2>1. a \in Int /\ b \in Int
    BY <1>1
  <2>2. (IF a > b THEN 0 ELSE b - a + 1)
          = Digits - EffectiveFixed(want_prefix, want_suffix)
    <3> DEFINE P == Len(want_prefix)
               S == Len(want_suffix)
    <3>1. EffectiveFixed(want_prefix, want_suffix)
            = IF P + S <= Digits THEN P + S ELSE Digits
      BY DEF EffectiveFixed
    <3>2. a = P + 1 /\ b = Digits - S
      OBVIOUS
    <3>3. P \in Nat /\ S \in Nat /\ Digits \in Nat
      BY <1>1
    <3> HIDE DEF P, S, a, b
    <3>4. QED
      BY <3>1, <3>2, <3>3
  <2>3. Free = a .. b
    BY DEF Free
  <2> HIDE DEF a, b
  <2>4. QED
    BY <2>1, <2>2, <2>3, FS_Interval
<1>3. /\ IsFiniteSet([Free -> {0, 10}])
      /\ Cardinality([Free -> {0, 10}]) = 2 ^ Cardinality(Free)
  BY <1>2, TwoDigits
<1>4. ExistsBijection([Free -> {0, 10}], Allowed({0, 10}))
  <2>1. FreeDigits({0, 10}) \in Bijection(Allowed({0, 10}), [Free -> {0, 10}])
    BY FreeChoice
  <2>2. ExistsBijection(Allowed({0, 10}), [Free -> {0, 10}])
    BY <2>1, Zenon DEF ExistsBijection
  <2>3. QED
    BY <2>2, Fun_ExistsBijSymmetric, Zenon
<1>5. Cardinality(Allowed({0, 10})) = Cardinality([Free -> {0, 10}])
  <2> DEFINE choices == [Free -> {0, 10}]
             allowed == Allowed({0, 10})
  <2>1. IsFiniteSet(choices) /\ ExistsBijection(choices, allowed)
    BY <1>3, <1>4, Zenon
  <2> HIDE DEF choices, allowed
  <2>2. Cardinality(allowed) = Cardinality(choices)
    BY <2>1, FS_Bijection
  <2>3. QED
    BY <2>2 DEF choices, allowed
<1>6. QED
  BY <1>2, <1>3, <1>5

(* The nibble of a digit, whatever its case.                               *)
LEMMA NibbleOfLower ==
  ASSUME NEW b \in Decimal \union Upper \union Lower
  PROVE  NibbleOf(b) = IF LowerCase(b) < 97 THEN LowerCase(b) - 48
                                            ELSE LowerCase(b) - 87
<1> USE DEF Decimal, Upper, Lower
<1>1. CASE b \in Decimal
  <2>1. b \notin Lower /\ b \notin Upper /\ LowerCase(b) = b
    BY <1>1 DEF LowerCase
  <2> HIDE DEF Decimal, Upper, Lower
  <2>2. NibbleOf(b) = b - 48
    BY <1>1, <2>1 DEF NibbleOf
  <2> QED
    BY <1>1, <2>1, <2>2 DEF Decimal
<1>2. CASE b \in Lower
  <2>1. b \notin Decimal /\ b \notin Upper /\ LowerCase(b) = b
    BY <1>2 DEF LowerCase
  <2> HIDE DEF Decimal, Upper, Lower
  <2>2. NibbleOf(b) = b - 97 + 10
    BY <1>2, <2>1 DEF NibbleOf
  <2> QED
    BY <1>2, <2>1, <2>2 DEF Lower
<1>3. CASE b \in Upper
  <2>1. b \notin Decimal /\ b \notin Lower /\ LowerCase(b) = b + 32
    BY <1>3 DEF LowerCase
  <2> HIDE DEF Decimal, Upper, Lower
  <2>2. NibbleOf(b) = b - 65 + 10
    BY <1>3, <2>1 DEF NibbleOf
  <2> QED
    BY <1>3, <2>1, <2>2 DEF Upper
<1> QED
  BY <1>1, <1>2, <1>3

(* What validate_targets has compared agrees once it is converted.         *)
LEMMA ConvertAgrees ==
  ASSUME IInv, Convert
  PROVE  Agreed'
<1> DEFINE p == asked.prefix
           s == asked.suffix
<1>1. /\ want_prefix' = HexToNibbles(p) /\ want_suffix' = HexToNibbles(s)
      /\ Valid
  BY DEF Convert, IInv, Validated
<1>2. p \in Seq(0 .. 255) /\ s \in Seq(0 .. 255)
  <2>1. Text \subseteq Seq(0 .. 255) /\ << >> \in Seq(0 .. 255)
    BY MatchingAssumption
  <2>2. asked.prefix \in Text \union {<< >>} /\ asked.suffix \in Text \union {<< >>}
    BY DEF IInv, TypeOK
  <2> QED
    BY <2>1, <2>2, Zenon
<1>3. /\ Len(HexToNibbles(p)) = Len(p) /\ Len(HexToNibbles(s)) = Len(s)
      /\ Len(p) \in Nat /\ Len(s) \in Nat /\ Digits \in Nat
      /\ Len(p) <= Digits /\ Len(s) <= Digits
      /\ DOMAIN p = 1 .. Len(p) /\ DOMAIN s = 1 .. Len(s)
  BY <1>1, <1>2, NibblesOfHex, MatchingAssumption DEF Valid, Digits
<1>4. /\ \A i \in 1 .. Len(p) : p[i] \in Decimal \union Upper \union Lower
      /\ \A i \in 1 .. Len(s) : s[i] \in Decimal \union Upper \union Lower
  BY <1>1, <1>3 DEF Valid, IsHex
<1>5. \A i \in 1 .. Overlap : SameLetter(p[Len(p) - Overlap + i], s[i])
  BY <1>1 DEF Valid, OverlapAgrees
<1>6. Overlap = Len(p) + Len(s) - Digits
  BY DEF Overlap
<1>7. /\ \A i \in 1 .. Len(p) : HexToNibbles(p)[i] = NibbleOf(p[i])
      /\ \A i \in 1 .. Len(s) : HexToNibbles(s)[i] = NibbleOf(s[i])
  BY <1>3 DEF HexToNibbles
<1> HIDE DEF p, s
<1>8. ASSUME NEW i \in 1 .. Len(p) + Len(s) - Digits
      PROVE  HexToNibbles(p)[Digits - Len(s) + i] = HexToNibbles(s)[i]
  <2> DEFINE j == Digits - Len(s) + i
  <2>1. j \in 1 .. Len(p) /\ j = Len(p) - Overlap + i
    <3>1. Len(p) - Overlap + i = Digits - Len(s) + i
      BY <1>3, <1>6
    <3>2. Digits - Len(s) + i \in 1 .. Len(p)
      BY <1>3
    <3>3. QED
      BY <3>1, <3>2
  <2> HIDE DEF j
  <2>2. i \in 1 .. Len(s) /\ i \in 1 .. Overlap
    BY <1>3, <1>6
  <2>3. LowerCase(p[j]) = LowerCase(s[i])
    BY <1>5, <2>1, <2>2, Zenon DEF SameLetter
  <2>4. NibbleOf(p[j]) = NibbleOf(s[i])
    BY <1>4, <2>1, <2>2, <2>3, NibbleOfLower
  <2>5. HexToNibbles(p)[j] = HexToNibbles(s)[i]
    BY <1>7, <2>1, <2>2, <2>4
  <2>6. QED
    BY <2>5 DEF j
<1>9. Digits' = Digits
  BY DEF Digits
<1>10. QED
  BY <1>1, <1>3, <1>8, <1>9 DEF Agreed

LEMMA NextAgrees == IInv /\ Agreed /\ [Next]_vars => Agreed'
<1> SUFFICES ASSUME IInv, Agreed, [Next]_vars PROVE Agreed'
  OBVIOUS
<1>1. CASE Convert
  BY <1>1, ConvertAgrees
<1>2. CASE Validate \/ Derive \/ MatchPrefix \/ MatchSuffix \/ Compare
  <2>1. pc' # "derive"
    BY <1>2 DEF Validate, Derive, MatchPrefix, MatchSuffix, Compare
  <2>2. QED
    BY <2>1 DEF Agreed
<1>3. CASE Terminated \/ UNCHANGED vars
  <2>1. UNCHANGED << pc, want_prefix, want_suffix >> /\ Digits' = Digits
    BY <1>3 DEF Terminated, vars, targets, Digits
  <2>2. QED
    BY <2>1 DEF Agreed
<1>4. QED
  BY <1>1, <1>2, <1>3 DEF Next

(***************************************************************************)
(* What is refused is impossible, what is accepted is possible, and the    *)
(* number of digits that the estimates of a search count on is that of the *)
(* digits its targets fix: for every length of an address and of the       *)
(* targets, overlapping or not.                                            *)
(***************************************************************************)
THEOREM TargetsExact == Spec => []TargetsAreExact
<1>1. Init => Agreed
  BY DEF Init, Agreed
<1>2. IInv /\ Agreed => ChanceIsExact
  <2> SUFFICES ASSUME IInv, Agreed, pc = "derive", Used \subseteq {0, 10}
               PROVE  Cardinality(Allowed({0, 10})) =
                        2 ^ (Digits - EffectiveFixed(want_prefix, want_suffix))
    BY DEF ChanceIsExact, Used
  <2>1. TypeOK
    BY DEF IInv
  <2>2. QED
    BY <2>1, AllowedCount
<1>3. RefusesTheImpossible /\ ChanceIsExact => TargetsAreExact
  BY DEF TargetsAreExact
<1>4. Spec => [](IInv /\ Agreed)
  BY <1>1, Invariance, NextAgrees, PTL DEF Spec
<1>5. QED
  BY <1>2, <1>3, <1>4, OnlyImpossibleRefused, PTL
=============================================================================
