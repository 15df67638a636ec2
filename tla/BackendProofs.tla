------------------------------ MODULE BackendProofs -------------------------
(***************************************************************************)
(* Proofs about what the backends have in common and how one is chosen     *)
(* (src/backend/mod.rs), for every value of the constants:                 *)
(*   - Chains: the rules by which the host accepts and advances starts     *)
(*     keep the kernels out of the exceptional additions;                  *)
(*   - ScalarBytes: the byte loops compute the sums these rules speak of   *)
(*     (LoopInv: the bytes and the carry make the sum);                    *)
(*   - Startup: the selection is that of the tests' table, on the best of  *)
(*     the devices that the drivers list;                                  *)
(*   - VulkanObjects, which Startup composes: the driver's objects are all *)
(*     destroyed, and none too early (ObjectsInv: what each place in the   *)
(*     plans of creation and of Drop has and has not yet);                 *)
(*   - MetalKernels: a configuration that validate accepts takes one of six*)
(*     paths (Path); what a backend has is what it asks for (KernelsInv),  *)
(*     and on each path the dispatches write every address once and stay   *)
(*     inside the buffers.                                                 *)
(***************************************************************************)
EXTENDS Chains, ScalarBytes, Startup, MetalKernels, WellFoundedInduction, TLAPS

(***************************************************************************)
(* Recursion and induction up to a number.                                 *)
(***************************************************************************)
LEMMA LeastNumber ==
  ASSUME NEW T \in SUBSET Nat, T # {}
  PROVE  \E n \in T : \A m \in T : n <= m
<1>1. PICK n \in T : \A m \in T : ~ (<< m, n >> \in OpToRel(<, Nat))
  BY NatLessThanWellFounded, WFMin, Zenon
<1>2. \A m \in T : m < n => << m, n >> \in OpToRel(<, Nat)
  BY DEF OpToRel
<1>3. \A m \in T : ~ (m < n)
  BY <1>1, <1>2, Zenon
<1>4. QED
  BY <1>3

(* What holds of 0, and of a number when it holds of the one before it.    *)
LEMMA InductionUpTo ==
  ASSUME NEW N \in Nat, NEW Good, 0 \in Good,
         \A n \in 1 .. N : n - 1 \in Good => n \in Good
  PROVE  0 .. N \subseteq Good
<1> DEFINE Bad == {n \in 0 .. N : n \notin Good}
<1>1. SUFFICES ASSUME Bad # {} PROVE FALSE
  OBVIOUS
<1>2. PICK n \in Bad : \A m \in Bad : n <= m
  <2>1. Bad \in SUBSET Nat
    OBVIOUS
  <2> HIDE DEF Bad
  <2>2. QED
    BY <1>1, <2>1, LeastNumber
<1>3. n \in 1 .. N /\ n - 1 \in 0 .. N /\ ~ n <= n - 1
  BY <1>2
<1>4. n - 1 \in Good
  BY <1>2, <1>3
<1>5. QED
  BY <1>2, <1>3, <1>4

(* A function on 0 .. N may be defined by its value at 0 and by a step.    *)
Recursion(g, N, base, step) ==
  g = [n \in 0 .. N |-> IF n = 0 THEN base ELSE step[<< n, g[n - 1] >>]]

LEMMA RecursionExists ==
  ASSUME NEW N \in Nat, NEW S, NEW base \in S, NEW step \in [(1 .. N) \X S -> S]
  PROVE  \E g \in [0 .. N -> S] : Recursion(g, N, base, step)
<1> DEFINE Good == {n \in 0 .. N : \E g \in [0 .. n -> S] : Recursion(g, n, base, step)}
<1>1. 0 \in Good
  <2> DEFINE g == [n \in 0 .. 0 |-> base]
  <2>1. g \in [0 .. 0 -> S] /\ Recursion(g, 0, base, step)
    BY DEF Recursion
  <2>2. QED
    BY <2>1
<1>2. ASSUME NEW n \in 1 .. N, n - 1 \in Good
      PROVE  n \in Good
  <2>1. PICK g \in [0 .. n - 1 -> S] : Recursion(g, n - 1, base, step)
    BY <1>2
  <2>2. n - 1 \in 0 .. n - 1 /\ g[n - 1] \in S
    OBVIOUS
  <2>3. step[<< n, g[n - 1] >>] \in S
    BY <2>2
  <2> DEFINE h == [m \in 0 .. n |-> IF m = n THEN step[<< n, g[n - 1] >>] ELSE g[m]]
  <2>4. h \in [0 .. n -> S]
    BY <2>3
  <2>5. \A m \in 0 .. n : h[m] = IF m = 0 THEN base ELSE step[<< m, h[m - 1] >>]
    <3>1. \A m \in 0 .. n - 1 :
            g[m] = IF m = 0 THEN base ELSE step[<< m, g[m - 1] >>]
      BY <2>1 DEF Recursion
    <3>2. \A m \in 0 .. n - 1 : h[m] = g[m]
      OBVIOUS
    <3>3. h[n] = step[<< n, g[n - 1] >>] /\ n # 0 /\ h[n - 1] = g[n - 1]
      BY <2>2
    <3>4. ASSUME NEW m \in 0 .. n, m # n
          PROVE  h[m] = IF m = 0 THEN base ELSE step[<< m, h[m - 1] >>]
      <4>1. m \in 0 .. n - 1 /\ (m # 0 => m - 1 \in 0 .. n - 1)
        BY <3>4
      <4> HIDE DEF h
      <4>2. QED
        BY <3>1, <3>2, <4>1
    <3> HIDE DEF h
    <3>5. QED
      BY <3>3, <3>4
  <2> HIDE DEF h
  <2>6. Recursion(h, n, base, step)
    BY <2>4, <2>5 DEF Recursion
  <2>7. QED
    BY <2>4, <2>6
<1>3. N \in Good
  <2> HIDE DEF Good
  <2>1. 0 .. N \subseteq Good
    BY <1>1, <1>2, InductionUpTo
  <2>2. QED
    BY <2>1
<1>4. QED
  BY <1>3

-----------------------------------------------------------------------------
(* Arithmetic of addresses and chains.                                     *)

LEMMA Division ==
  ASSUME NEW i \in Nat
  PROVE  /\ i \div Stride \in Nat
         /\ i % Stride \in 0 .. Stride - 1
         /\ i = Stride * (i \div Stride) + (i % Stride)
BY StrideAssumption, Z3

LEMMA Monotone ==
  ASSUME NEW a \in Int, NEW b \in Int, a <= b
  PROVE  a * Stride <= b * Stride
BY StrideAssumption, Z3

(* An address lies within its chain.                                       *)
LEMMA AddressInChain ==
  ASSUME NEW n \in Nat \ {0}, NEW i \in 0 .. n - 1
  PROVE  /\ i \div Stride \in Chains(n)
         /\ i % Stride \in 0 .. ChainLen(n, i \div Stride) - 1
<1> DEFINE c == i \div Stride
           r == i % Stride
<1>1. c \in Nat /\ r \in 0 .. Stride - 1 /\ i = Stride * c + r
  BY Division
<1> HIDE DEF c, r
<1>2. c * 1 <= c * Stride
  BY <1>1, StrideAssumption, Z3
<1>3. Stride * c = c * Stride /\ c * Stride \in Nat
  BY <1>1, StrideAssumption, Z3
<1>4. c \in Chains(n) /\ r \in 0 .. ChainLen(n, c) - 1
  BY <1>1, <1>2, <1>3, StrideAssumption DEF Chains, ChainLen
<1> QED  BY <1>4 DEF c, r

LEMMA FirstChain == ASSUME NEW n \in Nat \ {0} PROVE 0 \in Chains(n)
<1>1. 0 * Stride = 0
  BY StrideAssumption
<1> QED  BY <1>1 DEF Chains

LEMMA ChainLength ==
  ASSUME NEW n \in Nat \ {0}, NEW c \in Chains(n)
  PROVE  /\ ChainLen(n, c) \in 1 .. Stride
         /\ WholeChains(n) => ChainLen(n, c) = Stride
<1>1. c \in Nat /\ c * Stride \in Nat /\ c * Stride < n
  BY StrideAssumption, Z3 DEF Chains
<1>2. ChainLen(n, c) \in 1 .. Stride
  BY <1>1, StrideAssumption DEF ChainLen
<1>3. ASSUME WholeChains(n)  PROVE ChainLen(n, c) = Stride
  <2> DEFINE q == n \div Stride
  <2>1. q \in Nat /\ n = Stride * q
    BY Division, <1>3, StrideAssumption DEF WholeChains
  <2> HIDE DEF q
  <2>2. Stride * q = q * Stride
    BY <2>1, StrideAssumption, Z3
  <2>3. c < q
    BY <1>1, <2>1, <2>2, Monotone
  <2>4. (c + 1) * Stride <= n
    BY <1>1, <2>1, <2>2, <2>3, Monotone
  <2>5. (c + 1) * Stride = c * Stride + Stride
    BY <1>1, StrideAssumption, Z3
  <2> QED  BY <1>1, <2>4, <2>5, StrideAssumption DEF ChainLen
<1> QED  BY <1>2, <1>3

-----------------------------------------------------------------------------
(* The inductive invariant.                                                *)

(* The rule for the kernel's formulas, of one chain start: the addresses   *)
(* of the chain meet no exception, and with a persistent kernel the next   *)
(* start does so only where the host does not ask for it (MeetsStep).      *)
Clear(k, len) ==
  /\ len > 1 => k >= len /\ k + len - 1 < Order
  /\ kernel = "persist" /\ len = Stride =>
       \/ k > Stride /\ k + Stride < Order
       \/ source = "sequential" /\ k \in {Stride, Order - Stride}

StartsClear == \A c \in DOMAIN starts : Clear(starts[c], ChainLen(count, c))

(* A batch that is submitted, or was, has all its chains; the host's first *)
(* batch comes after the self-test.                                        *)
BatchFilled ==
  /\ DOMAIN starts = IF phase # "prepare" \/ batches > 0
                     THEN Chains(count) ELSE {}
  /\ phase = "prepare" => vector = 3
  /\ vector < 3 => batches = 0 /\ ~ resume
  /\ resume => Persisting
  /\ phase # "prepare" /\ vector = 3 => batches > 0

(* What the slot keeps are the starts moved on by the stride, until the    *)
(* host moves its starts on as well.                                       *)
Keeps(distance) ==
  \A c \in Chains(count) : c \in DOMAIN kept /\ kept[c] = starts[c] + distance

PointsKept ==
  Persisting /\ WholeChains(count) =>
    /\ phase \in {"derived", "prepare"} /\ DOMAIN starts = Chains(count)
         => Keeps(Stride)
    /\ phase = "ready" /\ resume => Keeps(0)

(* What is left of the headroom of the last fill.                          *)
HeadroomLeft ==
  Persisting /\ batches > 0 =>
    \A c \in DOMAIN starts :
      starts[c] + Stride * (Headroom - batches + 1) < Order

(* The CPU check of one address fails for no other reason.                 *)
Samples == phase = "error" => \E c \in Chains(count) : MeetsStep(c)

IInv ==
  /\ TypeOK
  /\ StartsClear
  /\ BatchFilled
  /\ PointsKept
  /\ HeadroomLeft
  /\ Samples
  /\ AddressesRight

-----------------------------------------------------------------------------
LEMMA Setup ==
  ASSUME TypeOK
  PROVE  /\ kernel \in Kernels /\ source \in Sources
         /\ kernel = "persist" => Stride > 1
         /\ kernel = "persist" => Persisting \/ source = "sequential"
         /\ Persisting => kernel = "persist" /\ source # "sequential"
<1>1. << kernel, source >> \in Kernels \X Sources
  BY SetupsAssumption DEF TypeOK
<1>2. Stride = 1 => << kernel, source >> \in {"chunk"} \X Sources
  BY SetupsAssumption DEF TypeOK
<1> QED
  BY <1>1, <1>2, StrideAssumption DEF Kernels, Sources, Persisting

(* Chains that are inverted together are chains of the batch.              *)
LEMMA InvertedChains ==
  ASSUME NEW c \in Chains(count)
  PROVE  InvertedWith(c) \subseteq Chains(count)
BY DEF InvertedWith

LEMMA LaneOfOwn ==
  ASSUME NEW c \in Chains(count)
  PROVE  c \in InvertedWith(c)
<1> DEFINE q == c \div Lanes
           l == q * Lanes
<1>1. Lanes \in Nat \ {0} /\ c \in Int /\ c >= 0
  BY SetupsAssumption DEF Chains
<1>2. q \in Int /\ l \in Int /\ l <= c /\ c <= l + Lanes - 1
  BY <1>1, Z3
<1> HIDE DEF l, q
<1>3. c \in l .. l + Lanes - 1
  BY <1>1, <1>2
<1> QED  BY <1>3 DEF InvertedWith, l, q

(* An accepted start meets an exception of the affine formulas only at the *)
(* step to the next start.                                                 *)
LEMMA OnlyTheStep ==
  ASSUME TypeOK, kernel # "chunk", NEW c \in Chains(count),
         FirstPoint(c) = starts[c], starts[c] \in Scalar,
         ChainLen(count, c) \in 1 .. Stride,
         Clear(starts[c], ChainLen(count, c))
  PROVE  (\E j \in Taken(ChainLen(count, c)) : Exceptional(FirstPoint(c), j))
           <=> MeetsStep(c)
<1> DEFINE k == starts[c]
           len == ChainLen(count, c)
<1>1. /\ k \in Scalar /\ len \in 1 .. Stride /\ Clear(k, len)
      /\ FirstPoint(c) = k
  OBVIOUS
<1>2. MeetsStep(c) <=> /\ kernel = "persist" /\ source = "sequential"
                      /\ len = Stride /\ k \in {Stride, Order - Stride}
  BY DEF MeetsStep
<1>3. source = "sequential" => ~ Persisting
  BY DEF Persisting
<1> HIDE DEF k, len
<1>4. ASSUME NEW j \in Taken(len), Exceptional(k, j)
      PROVE  /\ kernel = "persist" /\ source = "sequential"
             /\ len = Stride /\ k \in {Stride, Order - Stride}
  BY <1>1, <1>4, OrderAssumption, StrideAssumption
  DEF Taken, Clear, Exceptional, Scalar, Wrong
<1>5. ASSUME kernel = "persist", len = Stride, k \in {Stride, Order - Stride}
      PROVE  Stride \in Taken(len) /\ Exceptional(k, Stride)
  BY <1>1, <1>5, OrderAssumption, StrideAssumption
  DEF Taken, Exceptional, Scalar
<1> QED  BY <1>1, <1>2, <1>4, <1>5 DEF len

(* The scalars of its chain are scalars, and none meets an exception of    *)
(* the chunk kernel's formula.                                             *)
LEMMA ClearSpan ==
  ASSUME NEW k \in Scalar, NEW len \in 1 .. Stride, Clear(k, len),
         NEW i \in 0 .. len - 1
  PROVE  /\ k + i \in Scalar
         /\ Offset(k, i) = k + i
         /\ \A j \in 0 .. i - 1 : ~ Exceptional(k + j, 1)
<1>1. k \in Int /\ k >= 1 /\ k < Order /\ Order \in Int
  BY OrderAssumption DEF Scalar
<1>2. len > 1 => k >= len /\ k + len - 1 < Order
  BY DEF Clear
<1>3. len \in Int /\ i \in Int /\ 0 <= i /\ i <= len - 1
  BY StrideAssumption
<1>4. k + i \in Int /\ 1 <= k + i /\ k + i < Order
  BY <1>1, <1>2, <1>3
<1>5. k + i \in Scalar
  BY <1>1, <1>4 DEF Scalar
<1>6. ASSUME NEW j \in 0 .. i - 1 PROVE ~ Exceptional(k + j, 1)
  BY <1>1, <1>2, <1>3 DEF Exceptional, Wrong
<1> QED  BY <1>5, <1>6 DEF Offset

(* What a kernel computes from accepted starts.                            *)
LEMMA ChainPoints ==
  ASSUME IInv, NEW c \in Chains(count),
         \A d \in Chains(count) :
           /\ FirstPoint(d) = starts[d] /\ starts[d] \in Scalar
           /\ ChainLen(count, d) \in 1 .. Stride
           /\ Clear(starts[d], ChainLen(count, d))
  PROVE  /\ kernel # "chunk" =>
              (Spoiled(c) <=> \E d \in InvertedWith(c) : MeetsStep(d))
         /\ \A i \in 0 .. ChainLen(count, c) - 1 :
              ChainPoint(c, i) = IF \E d \in InvertedWith(c) : MeetsStep(d)
                                 THEN Wrong ELSE Offset(starts[c], i)
<1>0. TypeOK
  BY DEF IInv
<1>1. ASSUME kernel # "chunk"
      PROVE  Spoiled(c) <=> \E d \in InvertedWith(c) : MeetsStep(d)
  <2>1. \A d \in InvertedWith(c) :
          (\E j \in Taken(ChainLen(count, d)) : Exceptional(FirstPoint(d), j))
            <=> MeetsStep(d)
    BY <1>0, <1>1, InvertedChains, OnlyTheStep
  <2> QED  BY <2>1, Zenon DEF Spoiled
<1>2. ASSUME NEW i \in 0 .. ChainLen(count, c) - 1
      PROVE  ChainPoint(c, i) = IF \E d \in InvertedWith(c) : MeetsStep(d)
                                THEN Wrong ELSE Offset(starts[c], i)
  <2> DEFINE k == starts[c]
             len == ChainLen(count, c)
  <2>1. k \in Scalar /\ len \in 1 .. Stride /\ Clear(k, len) /\ i \in 0 .. len - 1
    OBVIOUS
  <2>2. FirstPoint(c) = k
    OBVIOUS
  <2> HIDE DEF k, len
  <2>3. k + i = Offset(k, i) /\ \A j \in 0 .. i - 1 : ~ Exceptional(k + j, 1)
    BY <2>1, ClearSpan
  <2>5. CASE kernel = "chunk"
    <3>1. ~ \E d \in InvertedWith(c) : MeetsStep(d)
      BY <2>5 DEF MeetsStep
    <3>2. ChainPoint(c, i) = k + i
      BY <2>2, <2>3, <2>5 DEF ChainPoint, ChunkPoint
    <3> QED  BY <2>3, <3>1, <3>2 DEF k
  <2>6. CASE kernel # "chunk"
    <3>1. ChainPoint(c, i) = IF Spoiled(c) THEN Wrong ELSE k + i
      BY <2>2, <2>6 DEF ChainPoint, AffinePoint
    <3> QED  BY <1>1, <2>3, <2>6, <3>1, Zenon DEF k
  <2> QED  BY <2>5, <2>6
<1> QED  BY <1>1, <1>2

(* What the self-test asks for passes the host's own rule.                 *)
LEMMA SelfTestClear ==
  ASSUME TypeOK, NEW v \in 0 .. 2, NEW c \in Chains(TestCount(v))
  PROVE  /\ TestCount(v) \in Nat \ {0}
         /\ TestStarts(v)[c] \in Scalar
         /\ Clear(TestStarts(v)[c], ChainLen(TestCount(v), c))
<1> DEFINE n == TestCount(v)
           d == c * Stride
           len == ChainLen(n, c)
<1>0. capacity \in Nat \ {0}
  BY SetupsAssumption DEF TypeOK
<1>1. n \in Nat \ {0}
  BY <1>0, StrideAssumption DEF TestCount, Larger, Lesser
<1>2. c \in Nat /\ d \in Nat /\ d < n
  BY <1>1, StrideAssumption, Z3 DEF Chains
<1>3. len \in 1 .. Stride /\ (v < 2 => len = 1)
  BY <1>1, <1>2, ChainLength, StrideAssumption DEF ChainLen, TestCount
<1>4. TestStarts(v)[c] = IF v = 0 THEN 1 ELSE IF v = 1 THEN Order - 1
                         ELSE TestFirst + d
  BY DEF TestStarts
<1>5. kernel = "persist" => Stride > 1
  BY Setup
<1>a. c >= 1 => d >= Stride
  BY <1>2, StrideAssumption, Z3
<1>b. c = 0 => d = 0
  BY StrideAssumption, Z3
<1> HIDE DEF d, len
<1>6. /\ n \in Nat
      /\ IF v < 2 THEN n = 1 ELSE n <= IF Stride > 3 THEN Stride ELSE 3
  BY <1>0, <1>1, StrideAssumption DEF TestCount, Larger, Lesser
<1>7. TestFirst = IF Stride > 2 THEN Stride + 1 ELSE 3
  BY StrideAssumption DEF TestFirst, Larger
<1> HIDE DEF n
<1>8. TestStarts(v)[c] \in Scalar
  BY <1>2, <1>4, <1>6, <1>7, OrderAssumption, StrideAssumption DEF Scalar
<1>9. Clear(TestStarts(v)[c], len)
  <2>1. CASE v < 2
    BY <2>1, <1>3, <1>5 DEF Clear
  <2>2. CASE v = 2
    <3>1. TestStarts(v)[c] = TestFirst + d
      BY <2>2, <1>4
    <3> QED
      BY <2>2, <3>1, <1>2, <1>3, <1>6, <1>7, <1>a, <1>b, OrderAssumption,
         StrideAssumption
      DEF Clear
  <2> QED  BY <2>1, <2>2
<1> QED  BY <1>1, <1>8, <1>9 DEF n, len

-----------------------------------------------------------------------------
(* The inductive step, action by action.                                   *)

LEMMA InitIInv == ASSUME Init PROVE IInv
<1>1. << kernel, source >> \in Setups
  BY SetupsAssumption DEF Init
<1>2. TypeOK
  <2>1. \A c \in Chains(1) : TestStarts(0)[c] \in Scalar
    BY OrderAssumption, StrideAssumption DEF TestStarts, TestCount, Scalar
  <2>8. capacity \in Counts
    BY DEF Init
  <2>2. count = 1 /\ starts = TestStarts(0) /\ DOMAIN starts = Chains(1)
    BY DEF Init, TestCount, TestStarts
  <2>3. /\ vector \in 0 .. 3 /\ batches \in Nat /\ kept_count \in Nat
        /\ phase = "ready" /\ DOMAIN kept = {}
    BY DEF Init
  <2>7. resume \in BOOLEAN
    BY Zenon DEF Init
  <2>4. \A c \in DOMAIN starts : starts[c] \in Scalar
    BY <2>1, <2>2
  <2>5. DOMAIN starts \in {{}, Chains(count)} /\ count \in Nat \ {0}
    BY <2>2
  <2>6. \A c \in DOMAIN kept : kept[c] \in Point
    BY <2>3
  <2> QED
    BY <1>1, <2>3, <2>4, <2>5, <2>6, <2>7, <2>8 DEF TypeOK
<1>3. StartsClear
  BY <1>2, SelfTestClear DEF Init, StartsClear, TestStarts
<1> QED
  BY <1>2, <1>3
  DEF Init, IInv, BatchFilled, PointsKept, HeadroomLeft, Samples,
      AddressesRight, TestStarts

LEMMA TestedIInv == ASSUME IInv, Tested PROVE IInv'
<1>1. vector \in 0 .. 2 /\ vector' = vector + 1
  BY DEF Tested, IInv, TypeOK
<1>2. CASE vector < 2
  <2>1. /\ count' = TestCount(vector') /\ starts' = TestStarts(vector')
        /\ phase' = "ready" /\ vector' \in 0 .. 2
    BY <1>1, <1>2 DEF Tested
  <2>2. TypeOK /\ UNCHANGED << kernel, source, capacity, batches, resume, kept,
                               kept_count >>
    BY DEF Tested, IInv
  <2>3. \A c \in Chains(count') :
          /\ count' \in Nat \ {0}
          /\ starts'[c] \in Scalar
          /\ Clear(starts'[c], ChainLen(count', c))
    BY <2>1, <2>2, SelfTestClear
  <2>4. DOMAIN starts' = Chains(count') /\ count' \in Nat \ {0}
    <3>1. capacity \in Nat \ {0}
      BY <2>2, SetupsAssumption DEF TypeOK
    <3> QED
      BY <2>1, <3>1, StrideAssumption DEF TestStarts, TestCount, Larger, Lesser
  <2>5. batches = 0 /\ ~ resume
    BY <1>1 DEF IInv, BatchFilled
  <2>6. TypeOK'
    BY <2>1, <2>2, <2>3, <2>4 DEF TypeOK
  <2>7. StartsClear'
    BY <2>2, <2>3, <2>4 DEF StartsClear, Clear
  <2> QED
    BY <2>1, <2>2, <2>4, <2>5, <2>6, <2>7
    DEF IInv, BatchFilled, PointsKept, HeadroomLeft, Samples, AddressesRight
<1>3. CASE vector = 2
  <2>1. /\ count' \in Counts /\ starts' = [c \in {} |-> NoScalar]
        /\ phase' = "prepare" /\ vector' = 3
        /\ UNCHANGED << kernel, source, capacity, batches, resume, kept,
                        kept_count >>
    BY <1>1, <1>3 DEF Tested, IInv, TypeOK
  <2>2. count' \in Nat \ {0} /\ DOMAIN starts' = {}
    BY <2>1, SetupsAssumption
  <2>3. batches = 0 /\ ~ resume
    BY <1>1 DEF IInv, BatchFilled
  <2>4. Chains(count') # {}
    BY <2>2, FirstChain
  <2> QED
    BY <2>1, <2>2, <2>3, <2>4
    DEF IInv, TypeOK, StartsClear, BatchFilled, PointsKept, HeadroomLeft, Samples,
        AddressesRight
<1> QED  BY <1>1, <1>2, <1>3

LEMMA AdvanceIInv == ASSUME IInv, Advance PROVE IInv'
<1> USE DEF IInv
<1>1. /\ phase = "prepare" /\ Persisting /\ DOMAIN starts = Chains(count)
      /\ starts' = [c \in Chains(count) |-> Offset(starts[c], Stride)]
      /\ batches' = batches + 1 /\ resume' = TRUE /\ phase' = "ready"
      /\ UNCHANGED << kernel, source, capacity, vector, count, kept, kept_count >>
  BY DEF Advance, CanAdvance
<1>2. count \in Nat \ {0} /\ batches \in Nat
  BY DEF TypeOK
<1>3. ASSUME NEW c \in Chains(count)
      PROVE  /\ starts[c] \in Scalar
             /\ starts'[c] = starts[c] + Stride /\ starts'[c] \in Scalar
             /\ starts'[c] > Stride /\ starts'[c] + Stride < Order
  <2>1. starts[c] \in Scalar /\ AdvanceAccepted(starts[c])
    BY <1>1 DEF Advance, CanAdvance, TypeOK
  <2>2. starts'[c] = Offset(starts[c], Stride)
    BY <1>1
  <2> QED
    BY <2>1, <2>2, OrderAssumption, StrideAssumption
    DEF AdvanceAccepted, ChainStartAccepted, Offset, NoScalar, Scalar
<1>4. TypeOK'
  BY <1>1, <1>2, <1>3 DEF TypeOK
<1>5. StartsClear'
  <2>1. ASSUME NEW c \in Chains(count)
        PROVE  Clear(starts[c], ChainLen(count, c))'
    BY <1>1, <1>2, <1>3, ChainLength, StrideAssumption, OrderAssumption
    DEF Clear, Scalar
  <2> QED  BY <1>1, <2>1 DEF StartsClear
<1>6. batches > 0 /\ vector = 3
  <2>1. 0 \in Chains(count)
    BY <1>2, FirstChain
  <2> QED  BY <1>1, <1>2, <2>1 DEF BatchFilled
<1>7. BatchFilled'
  BY <1>1, <1>2, <1>6 DEF BatchFilled, Persisting
<1>8. PointsKept'
  BY <1>1, <1>3, StrideAssumption DEF PointsKept, Keeps, Scalar
<1>9. HeadroomLeft'
  <2>1. ASSUME NEW c \in Chains(count)
        PROVE  starts'[c] + Stride * (Headroom - batches' + 1) < Order
    <3>1. starts[c] + Stride * (Headroom - batches + 1) < Order
      BY <1>1, <1>6 DEF HeadroomLeft
    <3>2. Stride * (Headroom - batches + 1)
            = Stride * (Headroom - (batches + 1) + 1) + Stride
      BY <1>2, StrideAssumption, HeadroomAssumption, Z3
    <3>3. Stride * (Headroom - (batches + 1) + 1) \in Int
      BY <1>2, StrideAssumption, HeadroomAssumption
    <3> HIDE DEF IInv
    <3> QED
      BY <1>1, <1>3, <3>1, <3>2, <3>3, StrideAssumption, OrderAssumption DEF Scalar
  <2> QED  BY <1>1, <2>1 DEF HeadroomLeft, Persisting
<1> QED
  BY <1>1, <1>4, <1>5, <1>7, <1>8, <1>9 DEF Samples, AddressesRight

LEMMA FillIInv == ASSUME IInv, Fill PROVE IInv'
<1> USE DEF IInv
<1>1. /\ phase = "prepare" /\ starts' \in [Chains(count) -> Scalar]
      /\ batches' = 1 /\ resume' = FALSE /\ phase' = "ready"
      /\ UNCHANGED << kernel, source, capacity, vector, count, kept, kept_count >>
  BY DEF Fill
<1>2. count \in Nat \ {0} /\ vector = 3
  BY <1>1 DEF TypeOK, BatchFilled
<1>3. ASSUME NEW c \in Chains(count)
      PROVE  /\ Clear(starts[c], ChainLen(count, c))'
             /\ Persisting => starts'[c] + Stride * Headroom < Order
  <2> DEFINE len == ChainLen(count, c)
             k == starts'[c]
  <2>1. k \in Scalar /\ len \in 1 .. Stride
    BY <1>1, <1>2, ChainLength
  <2>2. FillAccepted(k, len, Persisting /\ Stride > 1)
    BY <1>1 DEF Fill, Filled
  <2>3. kernel = "persist" => Stride > 1 /\ (Persisting \/ source = "sequential")
    BY Setup
  <2>4. Persisting => Stride > 1
    BY Setup
  <2>5. Stride * Headroom \in Nat
    BY StrideAssumption, HeadroomAssumption
  <2> HIDE DEF len, k, IInv
  <2>6. Clear(k, len)
    BY <2>1, <2>2, <2>3, OrderAssumption, StrideAssumption
    DEF FillAccepted, ChainStartAccepted, Offset, NoScalar, Scalar, Clear
  <2>7. Persisting => k + Stride * Headroom < Order
    BY <2>1, <2>2, <2>4, <2>5, OrderAssumption
    DEF FillAccepted, Offset, NoScalar, Scalar
  <2> QED  BY <1>1, <2>6, <2>7 DEF len, k, Clear
<1>4. DOMAIN starts' = Chains(count) /\ batches' \in Nat /\ resume' \in BOOLEAN
  BY <1>1
<1>6. TypeOK'
  BY <1>1, <1>2, <1>4 DEF TypeOK
<1>7. StartsClear' /\ BatchFilled'
  BY <1>1, <1>2, <1>3, <1>4 DEF StartsClear, BatchFilled
<1>5. HeadroomLeft'
  <2>1. Headroom - 1 + 1 = Headroom
    BY HeadroomAssumption
  <2> QED  BY <1>1, <1>3, <2>1 DEF HeadroomLeft, Persisting
<1> QED
  BY <1>1, <1>5, <1>6, <1>7 DEF PointsKept, Samples, AddressesRight

(* A command starts from the points of the starts it was submitted with.   *)
LEMMA FirstPointRight ==
  ASSUME IInv, phase = "ready", NEW c \in Chains(count)
  PROVE  FirstPoint(c) = starts[c] /\ starts[c] \in Scalar
<1>1. starts[c] \in Scalar
  BY DEF IInv, TypeOK, BatchFilled
<1>2. Step => kept[c] = starts[c] + 0
  BY DEF Step, IInv, BatchFilled, PointsKept, Keeps
<1> QED  BY <1>1, <1>2, OrderAssumption DEF FirstPoint, Scalar

LEMMA DeriveIInv == ASSUME IInv, Derive PROVE IInv'
<1> USE DEF IInv
<1>1. /\ phase = "ready"
      /\ UNCHANGED << kernel, source, capacity, vector, count, starts, batches,
                      resume >>
  BY DEF Derive
<1>2. count \in Nat \ {0} /\ DOMAIN starts = Chains(count)
  BY <1>1 DEF TypeOK, BatchFilled
<1>3. ASSUME NEW c \in Chains(count)
      PROVE  /\ FirstPoint(c) = starts[c] /\ starts[c] \in Scalar
             /\ ChainLen(count, c) \in 1 .. Stride
             /\ WholeChains(count) => ChainLen(count, c) = Stride
             /\ Clear(starts[c], ChainLen(count, c))
  BY <1>1, <1>2, FirstPointRight, ChainLength DEF StartsClear
<1> DEFINE Met(c) == \E d \in InvertedWith(c) : MeetsStep(d)
<1>4. ASSUME NEW i \in 0 .. count - 1
      PROVE  addresses'[i] = IF Met(i \div Stride) THEN Wrong
                             ELSE ChainKey(starts, i)
  <2> DEFINE c == i \div Stride
             q == i % Stride
  <2>1. c \in Chains(count) /\ q \in 0 .. ChainLen(count, c) - 1
    BY <1>2, AddressInChain
  <2>2. addresses'[i] = ChainPoint(c, q)
    BY DEF Derive
  <2>3. Offset(starts[c], q) = ChainKey(starts, i)
    BY DEF ChainKey
  <2> HIDE DEF c, q, IInv
  <2>4. addresses'[i] = IF Met(c) THEN Wrong ELSE Offset(starts[c], q)
    BY <1>3, <2>1, <2>2, ChainPoints
  <2> HIDE DEF Met
  <2> QED  BY <2>3, <2>4 DEF c
<1>5. /\ phase' \in {"derived", "error"}
      /\ phase' = "error" => \E c \in Chains(count) : MeetsStep(c)
  <2>1. PICK sample \in 0 .. count - 1 :
          phase' = IF addresses'[sample] = ChainKey(starts, sample)
                   THEN "derived" ELSE "error"
    BY DEF Derive
  <2>2. ~ Met(sample \div Stride) => phase' = "derived"
    BY <1>4, <2>1
  <2>3. sample \div Stride \in Chains(count)
    BY <1>2, AddressInChain
  <2>4. Met(sample \div Stride) => \E c \in Chains(count) : MeetsStep(c)
    BY <2>3, InvertedChains
  <2> QED  BY <2>1, <2>2, <2>4
<1>6. ASSUME NEW c \in Chains(count), Persisting,
             ChainLen(count, c) = Stride
      PROVE  /\ c \in DOMAIN kept'
             /\ kept'[c] = starts[c] + Stride /\ kept'[c] \in Scalar
  <2>1. /\ kernel = "persist" /\ source # "sequential" /\ Stride > 1
        /\ c \in DOMAIN kept'
        /\ kept'[c] = AffinePoint(c, Stride)
    BY <1>6, Setup DEF Derive
  <2>2. ~ Spoiled(c)
    BY <1>3, <2>1, ChainPoints DEF MeetsStep
  <2>3. starts[c] + Stride \in Scalar
    BY <1>3, <1>6, <2>1, OrderAssumption, StrideAssumption DEF Clear, Scalar
  <2> QED  BY <1>3, <2>1, <2>2, <2>3 DEF AffinePoint
<1>a. ASSUME NEW c \in Chains(count), kernel = "persist",
             ChainLen(count, c) = Stride
      PROVE  kept'[c] \in Point
  <2>1. kept'[c] = IF Spoiled(c) THEN Wrong ELSE starts[c] + Stride
    BY <1>3, <1>a DEF Derive, AffinePoint
  <2>2. CASE Spoiled(c)
    BY <2>1, <2>2 DEF Point
  <2>3. CASE ~ Spoiled(c)
    <3>1. Stride > 1 /\ c \in Chains(count)
      BY <1>a, Setup
    <3>2. ~ MeetsStep(c)
      <4>1. c \in InvertedWith(c)
        BY LaneOfOwn
      <4> QED  BY <1>3, <1>a, <2>3, <4>1, ChainPoints
    <3>3. starts[c] + Stride \in Scalar
      BY <1>3, <1>a, <3>1, <3>2, OrderAssumption, StrideAssumption
      DEF Clear, Scalar, MeetsStep
    <3> QED  BY <2>1, <2>3, <3>3 DEF Point
  <2> QED  BY <2>2, <2>3
<1>7. \A c \in DOMAIN kept' : kept'[c] \in Point
  <2>1. CASE kernel = "persist"
    <3>1. DOMAIN kept' = Chains(count)
      BY <2>1 DEF Derive
    <3>2. ASSUME NEW c \in Chains(count), ChainLen(count, c) # Stride
          PROVE  kept'[c] \in Point
      <4>1. kept'[c] = IF c \in DOMAIN kept THEN kept[c] ELSE Wrong
        BY <2>1, <3>2 DEF Derive
      <4> QED  BY <4>1 DEF TypeOK, Point
    <3> QED  BY <2>1, <3>1, <3>2, <1>a
  <2>2. CASE kernel # "persist"
    BY <2>2 DEF Derive, TypeOK
  <2> QED  BY <2>1, <2>2
<1>8. kept_count' \in Nat
  BY <1>2 DEF Derive
<1>9. TypeOK'
  BY <1>1, <1>5, <1>7, <1>8 DEF TypeOK
<1>10. StartsClear' /\ BatchFilled' /\ HeadroomLeft'
  BY <1>1, <1>2, <1>5
  DEF StartsClear, BatchFilled, HeadroomLeft, Clear, Persisting
<1>11. PointsKept'
  BY <1>1, <1>2, <1>3, <1>5, <1>6 DEF PointsKept, Keeps, Persisting
<1>12. AddressesRight' /\ Samples'
  <2>1. \A c : MeetsStep(c)' <=> MeetsStep(c)
    BY <1>1 DEF MeetsStep
  <2>2. \A c : InvertedWith(c)' = InvertedWith(c)
    BY <1>1 DEF InvertedWith
  <2>3. \A i : ChainKey(starts, i)' = ChainKey(starts, i)
    BY <1>1 DEF ChainKey
  <2> HIDE DEF IInv
  <2>4. AddressesRight'
    BY <1>1, <1>4, <2>1, <2>2, <2>3 DEF AddressesRight
  <2> QED  BY <1>1, <1>5, <2>1, <2>4 DEF Samples
<1> QED  BY <1>9, <1>10, <1>11, <1>12

LEMMA RecycleIInv == ASSUME IInv, Recycle PROVE IInv'
<1>1. /\ phase = "derived" /\ vector = 3 /\ phase' = "prepare"
      /\ UNCHANGED << kernel, source, capacity, vector, count, starts, batches,
                      resume, kept, kept_count, addresses >>
  BY DEF Recycle
<1>2. TypeOK'
  BY <1>1 DEF IInv, TypeOK
<1> QED
  BY <1>1, <1>2
  DEF IInv, StartsClear, Clear, BatchFilled, PointsKept, Keeps, HeadroomLeft,
      Persisting, Samples, AddressesRight

LEMMA StutterIInv == ASSUME IInv, UNCHANGED vars PROVE IInv'
<1>1. UNCHANGED << kernel, source, capacity, vector, count, starts, batches,
                   resume, kept, kept_count, addresses, phase >>
  BY DEF vars
<1>2. TypeOK' /\ StartsClear' /\ BatchFilled' /\ PointsKept' /\ HeadroomLeft'
  BY <1>1 DEF IInv, TypeOK, StartsClear, Clear, BatchFilled, PointsKept, Keeps,
              HeadroomLeft, Persisting
<1>3. \A c : MeetsStep(c)' <=> MeetsStep(c)
  BY <1>1 DEF MeetsStep
<1>4. \A c : InvertedWith(c)' = InvertedWith(c)
  BY <1>1 DEF InvertedWith
<1>5. \A i : ChainKey(starts, i)' = ChainKey(starts, i)
  BY <1>1 DEF ChainKey
<1>6. Samples'
  BY <1>1, <1>3 DEF IInv, Samples
<1>7. AddressesRight'
  <2>1. AddressesRight
    BY DEF IInv
  <2> QED  BY <1>1, <1>3, <1>4, <1>5, <2>1 DEF AddressesRight
<1> QED  BY <1>2, <1>6, <1>7 DEF IInv

LEMMA NextIInv == ASSUME IInv, [Next]_vars PROVE IInv'
BY TestedIInv, AdvanceIInv, FillIInv, DeriveIInv, RecycleIInv, StutterIInv
   DEF Next, Failed

-----------------------------------------------------------------------------
(* The theorems.                                                           *)

(* The inductive invariant is one, for every backend and batch size.       *)
THEOREM Invariance == Spec => []IInv
<1>1. Init => IInv
  BY InitIInv
<1>2. IInv /\ [Next]_vars => IInv'
  BY NextIInv
<1> QED  BY <1>1, <1>2, PTL DEF Spec

(* Type correctness: every start is a scalar of the curve's range.         *)
THEOREM TypeCorrect == Spec => []TypeOK
<1>1. IInv => TypeOK
  BY DEF IInv
<1> QED  BY <1>1, Invariance, PTL

(* With any order, stride and headroom, and batches of any size, the rules *)
(* for chain starts keep every address of every batch the one of its       *)
(* scalar, also on points that have stayed on the GPU for many batches.    *)
(* The exceptions, for two starts of Metal's small batches, are in the     *)
(* statement: no other start meets one there either.                       *)
THEOREM AddressesCorrect == Spec => []AddressesRight
<1>1. IInv => AddressesRight
  BY DEF IInv
<1> QED  BY <1>1, Invariance, PTL

(* The starts of a fill serve as many batches as its headroom is for.      *)
LEMMA HeadroomStep ==
  ASSUME IInv, Next,
         phase = "prepare", Persisting, batches > 0, batches' = 1
  PROVE  batches >= Headroom
<1> SUFFICES ASSUME batches < Headroom PROVE FALSE
  BY HeadroomAssumption DEF IInv, TypeOK
<1>1. batches \in Nat /\ DOMAIN starts = Chains(count)
  BY DEF IInv, TypeOK, BatchFilled
<1>2. ASSUME NEW c \in Chains(count) PROVE AdvanceAccepted(starts[c])
  <2>1. starts[c] \in Scalar
    BY <1>1 DEF IInv, TypeOK
  <2>2. starts[c] + Stride * (Headroom - batches + 1) < Order
    BY <1>1 DEF IInv, HeadroomLeft
  <2>3. 2 * Stride <= (Headroom - batches + 1) * Stride
    BY <1>1, HeadroomAssumption, Monotone
  <2>4. (Headroom - batches + 1) * Stride = Stride * (Headroom - batches + 1)
    BY <1>1, HeadroomAssumption, StrideAssumption, Z3
  <2>5. Stride * (Headroom - batches + 1) \in Int
    BY <1>1, HeadroomAssumption, StrideAssumption
  <2>6. starts[c] + 2 * Stride < Order
    BY <2>1, <2>2, <2>3, <2>4, <2>5, OrderAssumption, StrideAssumption DEF Scalar
  <2> QED
    BY <2>1, <2>6, OrderAssumption, StrideAssumption
    DEF AdvanceAccepted, ChainStartAccepted, Offset, NoScalar, Scalar
<1>3. CanAdvance
  BY <1>1, <1>2, Setup DEF CanAdvance, IInv
<1>4. CASE Advance
  BY <1>1, <1>4 DEF Advance
<1> QED
  BY <1>3, <1>4 DEF Next, Tested, Fill, Derive, Recycle, Failed

(* PERSIST_HEADROOM_BATCHES batches come from a fill before the producer   *)
(* has to draw again, for every order, stride and headroom.                *)
THEOREM HeadroomSuffices == Spec => HeadroomLasts
<1>1. IInv /\ [Next]_vars
        => [ phase = "prepare" /\ Persisting /\ batches > 0 /\ batches' = 1
               => batches >= Headroom ]_vars
  BY HeadroomStep
<1> QED  BY <1>1, Invariance, PTL DEF Spec, HeadroomLasts

-----------------------------------------------------------------------------
(***************************************************************************)
(* Numbers as bytes.                                                       *)
(***************************************************************************)
LEMMA PowerSteps ==
  /\ Power[0] = 1
  /\ \A i \in 1 .. Width : Power[i] = Base * Power[i - 1]
<1> DEFINE step == [p \in (1 .. Width) \X Nat |-> Base * p[2]]
<1>1. Width \in Nat /\ Base \in Nat
  BY BytesAssumption
<1>2. step \in [(1 .. Width) \X Nat -> Nat] /\ 1 \in Nat
  BY <1>1
<1>3. PICK g \in [0 .. Width -> Nat] : Recursion(g, Width, 1, step)
  <2> HIDE DEF step
  <2>1. QED
    BY <1>1, <1>2, RecursionExists
<1>4. ASSUME NEW i \in 0 .. Width
      PROVE  g[i] = IF i = 0 THEN 1 ELSE Base * g[i - 1]
  <2>1. CASE i = 0
    BY <1>3, <2>1 DEF Recursion
  <2>2. CASE i # 0
    <3>1. i \in 1 .. Width /\ i - 1 \in 0 .. Width
      BY <1>1, <2>2
    <3>2. << i, g[i - 1] >> \in (1 .. Width) \X Nat
      BY <3>1
    <3>3. step[<< i, g[i - 1] >>] = Base * g[i - 1]
      BY <3>2
    <3> HIDE DEF step
    <3>4. QED
      BY <1>3, <2>2, <3>3 DEF Recursion
  <2>3. QED
    BY <2>1, <2>2
<1>5. g = [i \in 0 .. Width |-> IF i = 0 THEN 1 ELSE Base * g[i - 1]]
  BY <1>4
<1>6. Power = [i \in 0 .. Width |-> IF i = 0 THEN 1 ELSE Base * Power[i - 1]]
  BY <1>5 DEF Power
<1>7. 0 \in 0 .. Width /\ \A i \in 1 .. Width : i \in 0 .. Width /\ i # 0
  BY <1>1
<1>8. QED
  BY <1>6, <1>7

LEMMA PowerPositive == \A i \in 0 .. Width : Power[i] \in Nat \ {0}
<1> DEFINE Good == {i \in 0 .. Width : Power[i] \in Nat \ {0}}
<1>1. Width \in Nat /\ Base \in Nat \ {0} /\ 0 \in Good
  BY BytesAssumption, PowerSteps
<1>2. ASSUME NEW i \in 1 .. Width, i - 1 \in Good
      PROVE  i \in Good
  <2>1. Power[i] = Base * Power[i - 1] /\ Power[i - 1] \in Nat \ {0}
    BY <1>2, PowerSteps
  <2>2. Power[i] \in Nat \ {0}
    BY <1>1, <2>1
  <2>3. QED
    BY <1>2, <2>2
<1>3. 0 .. Width \subseteq Good
  <2> HIDE DEF Good
  <2>1. QED
    BY <1>1, <1>2, InductionUpTo
<1>4. QED
  BY <1>3

LEMMA PowerGrows ==
  ASSUME NEW i \in 0 .. Width, NEW j \in i .. Width
  PROVE  Power[i] <= Power[j]
<1> DEFINE Good == {n \in 0 .. Width : i <= n => Power[i] <= Power[n]}
<1>1. Width \in Nat /\ Base \in Nat \ {0} /\ i \in Nat
  BY BytesAssumption
<1>2. 0 \in Good
  BY <1>1, PowerPositive
<1>3. ASSUME NEW n \in 1 .. Width, n - 1 \in Good
      PROVE  n \in Good
  <2>1. Power[n] = Base * Power[n - 1]
    BY PowerSteps
  <2>2. Power[n - 1] \in Nat \ {0} /\ Power[n] \in Nat /\ Power[i] \in Nat
    BY <1>1, PowerPositive
  <2>3. Power[n - 1] <= Base * Power[n - 1]
    BY <1>1, <2>2
  <2>4. i <= n - 1 => Power[i] <= Power[n - 1]
    BY <1>3
  <2>5. i <= n => i <= n - 1 \/ i = n
    BY <1>1
  <2>6. i <= n => Power[i] <= Power[n]
    BY <2>1, <2>2, <2>3, <2>4, <2>5
  <2>7. QED
    BY <1>1, <2>6
<1>4. 0 .. Width \subseteq Good
  <2> HIDE DEF Good
  <2>1. QED
    BY <1>1, <1>2, <1>3, InductionUpTo
<1>5. j \in Good /\ i <= j
  BY <1>1, <1>4
<1>6. QED
  BY <1>5

ByteArray == [Places -> 0 .. Base - 1]

LowSum(low, b) ==
  low = [i \in 0 .. Width |->
           IF i = 0 THEN 0 ELSE low[i - 1] + b[i - 1] * Power[i - 1]]

LEMMA ValueSteps ==
  ASSUME NEW b \in ByteArray
  PROVE  /\ Value(b, 0) = 0
         /\ \A i \in 1 .. Width : Value(b, i) = Value(b, i - 1) + b[i - 1] * Power[i - 1]
<1> DEFINE step == [p \in (1 .. Width) \X Int |-> p[2] + b[p[1] - 1] * Power[p[1] - 1]]
<1>1. Width \in Nat /\ Base \in Nat
  BY BytesAssumption
<1>2. \A i \in 1 .. Width : b[i - 1] \in Int /\ Power[i - 1] \in Int
  <2>1. \A i \in 1 .. Width : i - 1 \in Places /\ i - 1 \in 0 .. Width
    BY <1>1 DEF Places
  <2>2. QED
    BY <1>1, <2>1, PowerPositive DEF ByteArray
<1>3. step \in [(1 .. Width) \X Int -> Int] /\ 0 \in Int
  <2>1. ASSUME NEW p \in (1 .. Width) \X Int
        PROVE  p[2] + b[p[1] - 1] * Power[p[1] - 1] \in Int
    BY <1>2
  <2>2. QED
    BY <2>1
<1>4. PICK g \in [0 .. Width -> Int] : Recursion(g, Width, 0, step)
  <2> HIDE DEF step
  <2>1. QED
    BY <1>1, <1>3, RecursionExists
<1>5. ASSUME NEW i \in 0 .. Width
      PROVE  g[i] = IF i = 0 THEN 0 ELSE g[i - 1] + b[i - 1] * Power[i - 1]
  <2>1. CASE i = 0
    BY <1>4, <2>1 DEF Recursion
  <2>2. CASE i # 0
    <3>1. i \in 1 .. Width /\ i - 1 \in 0 .. Width
      BY <1>1, <2>2
    <3>2. << i, g[i - 1] >> \in (1 .. Width) \X Int
      BY <3>1
    <3>3. step[<< i, g[i - 1] >>] = g[i - 1] + b[i - 1] * Power[i - 1]
      BY <3>2
    <3> HIDE DEF step
    <3>4. QED
      BY <1>4, <2>2, <3>3 DEF Recursion
  <2>3. QED
    BY <2>1, <2>2
<1>6. LowSum(g, b)
  BY <1>5 DEF LowSum
<1>7. PICK low : LowSum(low, b) /\ \A n : Value(b, n) = low[n]
  <2> DEFINE chosen == CHOOSE low : LowSum(low, b)
  <2>1. LowSum(chosen, b)
    BY <1>6
  <2>2. \A n : Value(b, n) = chosen[n]
    BY DEF Value, LowSum
  <2>3. QED
    BY <2>1, <2>2
<1>8. 0 \in 0 .. Width /\ \A i \in 1 .. Width : i \in 0 .. Width /\ i # 0
  BY <1>1
<1>9. QED
  BY <1>7, <1>8 DEF LowSum

LEMMA ValueBounds ==
  ASSUME NEW b \in ByteArray
  PROVE  \A n \in 0 .. Width : Value(b, n) \in 0 .. Power[n] - 1
<1> DEFINE Good == {n \in 0 .. Width : Value(b, n) \in 0 .. Power[n] - 1}
<1>1. Width \in Nat /\ Base \in Nat
  BY BytesAssumption
<1>2. 0 \in Good
  BY <1>1, PowerSteps, ValueSteps
<1>3. ASSUME NEW n \in 1 .. Width, n - 1 \in Good
      PROVE  n \in Good
  <2> DEFINE v == Value(b, n - 1)
             p == Power[n - 1]
             d == b[n - 1]
  <2>1. v \in 0 .. p - 1 /\ p \in Nat \ {0}
    BY <1>1, <1>3, PowerPositive
  <2>2. d \in 0 .. Base - 1
    BY <1>1 DEF ByteArray, Places
  <2>3. Value(b, n) = v + d * p /\ Power[n] = Base * p
    BY PowerSteps, ValueSteps
  <2> HIDE DEF v, p, d
  <2>4. d * p \in Nat /\ d * p <= (Base - 1) * p
    BY <1>1, <2>1, <2>2
  <2>5. (Base - 1) * p = Base * p - p
    BY <1>1, <2>1
  <2>6. Base * p \in Nat
    BY <1>1, <2>1
  <2>7. Value(b, n) \in 0 .. Power[n] - 1
    BY <2>1, <2>3, <2>4, <2>5, <2>6
  <2>8. QED
    BY <1>1, <2>7
<1>4. 0 .. Width \subseteq Good
  <2> HIDE DEF Good
  <2>1. QED
    BY <1>1, <1>2, <1>3, InductionUpTo
<1>5. QED
  BY <1>4

(* Bytes that are 0 add nothing.                                           *)
LEMMA ValueOfLow ==
  ASSUME NEW b \in ByteArray, NEW m \in 0 .. Width,
         \A i \in m .. Width - 1 : b[i] = 0
  PROVE  Value(b, Width) = Value(b, m)
<1> DEFINE Good == {n \in 0 .. Width : m <= n => Value(b, n) = Value(b, m)}
<1>1. Width \in Nat /\ m \in Nat /\ 0 \in Good
  BY BytesAssumption
<1>2. ASSUME NEW n \in 1 .. Width, n - 1 \in Good
      PROVE  n \in Good
  <2>1. Value(b, n) = Value(b, n - 1) + b[n - 1] * Power[n - 1]
    BY ValueSteps
  <2>2. Value(b, n - 1) \in Int /\ Power[n - 1] \in Int
    BY <1>1, PowerPositive, ValueBounds
  <2>3. CASE m <= n - 1
    <3>1. b[n - 1] = 0 /\ Value(b, n - 1) = Value(b, m)
      BY <1>1, <1>2, <2>3
    <3>2. Value(b, n) = Value(b, m)
      BY <2>1, <2>2, <3>1
    <3>3. QED
      BY <1>1, <3>2
  <2>4. CASE ~ m <= n - 1
    BY <1>1, <2>4
  <2>5. QED
    BY <2>3, <2>4
<1>3. 0 .. Width \subseteq Good
  <2> HIDE DEF Good
  <2>1. QED
    BY <1>1, <1>2, InductionUpTo
<1>4. Width \in Good /\ m <= Width
  BY <1>1, <1>3
<1>5. QED
  BY <1>4

(* What one other byte makes of the number.                                *)
LEMMA ValueOfChanged ==
  ASSUME NEW b \in ByteArray, NEW j \in Places, NEW d \in 0 .. Base - 1
  PROVE  LET c == [b EXCEPT ![j] = d] IN
         /\ c \in ByteArray
         /\ Value(c, Width) = Value(b, Width) + (d - b[j]) * Power[j]
<1> DEFINE c == [b EXCEPT ![j] = d]
           more == (d - b[j]) * Power[j]
           Good == {n \in 0 .. Width :
                      Value(c, n) = Value(b, n) + (IF j < n THEN more ELSE 0)}
<1>1. Width \in Nat /\ Base \in Nat /\ j \in 0 .. Width - 1
  BY BytesAssumption DEF Places
<1>2. /\ c \in ByteArray
      /\ c[j] = d
      /\ \A i \in Places \ {j} : c[i] = b[i]
  BY DEF ByteArray
<1>3. b[j] \in Int /\ d \in Int /\ Power[j] \in Int /\ more \in Int
  BY <1>1, PowerPositive DEF ByteArray
<1> HIDE DEF c
<1>4. 0 \in Good
  BY <1>1, <1>2, <1>3, ValueSteps
<1>5. ASSUME NEW n \in 1 .. Width, n - 1 \in Good
      PROVE  n \in Good
  <2>1. /\ Value(c, n) = Value(c, n - 1) + c[n - 1] * Power[n - 1]
        /\ Value(b, n) = Value(b, n - 1) + b[n - 1] * Power[n - 1]
    BY <1>2, ValueSteps
  <2>2. /\ n - 1 \in 0 .. Width /\ n - 1 \in Places
        /\ b[n - 1] \in Int /\ c[n - 1] \in Int /\ Power[n - 1] \in Int
    BY <1>1, <1>2, PowerPositive DEF ByteArray, Places
  <2>3. Value(b, n - 1) \in Int /\ Value(c, n - 1) \in Int
    BY <1>2, <2>2, ValueBounds, PowerPositive
  <2>4. Value(c, n - 1) = Value(b, n - 1) + (IF j < n - 1 THEN more ELSE 0)
    BY <1>5
  <2>5. Value(c, n) = Value(b, n) + (IF j < n THEN more ELSE 0)
    <3>1. CASE j = n - 1
      <4>1. c[n - 1] * Power[n - 1] = b[n - 1] * Power[n - 1] + more
        BY <1>2, <1>3, <3>1
      <4> HIDE DEF more
      <4>2. j < n /\ ~ j < n - 1
        BY <1>1, <3>1
      <4>3. b[n - 1] * Power[n - 1] \in Int
        BY <2>2
      <4>4. QED
        BY <1>3, <2>1, <2>3, <2>4, <4>1, <4>2, <4>3
    <3>2. CASE j # n - 1
      <4>1. c[n - 1] = b[n - 1]
        BY <1>2, <2>2, <3>2
      <4>2. j < n <=> j < n - 1
        BY <1>1, <3>2
      <4> HIDE DEF more
      <4>3. b[n - 1] * Power[n - 1] \in Int
        BY <2>2
      <4>4. QED
        BY <1>3, <2>1, <2>3, <2>4, <4>1, <4>2, <4>3
    <3>3. QED
      BY <3>1, <3>2
  <2>6. QED
    BY <1>1, <2>5
<1>6. 0 .. Width \subseteq Good
  <2> HIDE DEF Good
  <2>1. QED
    BY <1>1, <1>4, <1>5, InductionUpTo
<1>7. Value(c, Width) = Value(b, Width) + more
  BY <1>1, <1>6
<1>8. QED
  BY <1>2, <1>7 DEF c

LEMMA Quotient ==
  ASSUME NEW k \in Nat, NEW p \in Nat \ {0}
  PROVE  /\ k \div p \in Nat
         /\ k % p \in 0 .. p - 1
         /\ k = (k \div p) * p + (k % p)
BY Z3

LEMMA QuotientIs ==
  ASSUME NEW p \in Nat \ {0}, NEW q \in Nat, NEW r \in 0 .. p - 1
  PROVE  (q * p + r) \div p = q
BY Z3

(* A shift by one byte more.                                               *)
LEMMA QuotientTwice ==
  ASSUME NEW k \in Nat, NEW p \in Nat \ {0}
  PROVE  k \div (Base * p) = (k \div p) \div Base
<1> DEFINE q == k \div p
           s == k % p
           t == q \div Base
           r == q % Base
<1>1. Base \in Nat \ {0}
  BY BytesAssumption
<1>2. q \in Nat /\ s \in 0 .. p - 1 /\ k = q * p + s
  BY Quotient
<1>3. t \in Nat /\ r \in 0 .. Base - 1 /\ q = t * Base + r
  <2> HIDE DEF q
  <2>1. QED
    BY <1>1, <1>2, Quotient
<1> HIDE DEF q, s, t, r
<1>4. r * p \in Nat /\ r * p <= (Base - 1) * p
  BY <1>1, <1>3
<1>5. (Base - 1) * p = Base * p - p /\ Base * p \in Nat \ {0}
  BY <1>1
<1>6. r * p + s \in 0 .. Base * p - 1
  BY <1>2, <1>4, <1>5
<1>7. k = t * (Base * p) + (r * p + s)
  <2>1. q * p = (t * Base) * p + r * p
    BY <1>1, <1>2, <1>3
  <2>2. (t * Base) * p = t * (Base * p) /\ (t * Base) * p \in Nat
    BY <1>1, <1>3
  <2>3. QED
    BY <1>2, <1>4, <2>1, <2>2
<1>8. k \div (Base * p) = t
  BY <1>3, <1>5, <1>6, <1>7, QuotientIs
<1>9. QED
  BY <1>8 DEF q, t

LEMMA BytesOfIsByteArray ==
  ASSUME NEW k \in Nat
  PROVE  BytesOf(k) \in ByteArray
<1>1. ASSUME NEW i \in Places
      PROVE  (k \div Power[i]) % Base \in 0 .. Base - 1
  <2>1. Power[i] \in Nat \ {0} /\ Base \in Nat \ {0}
    BY BytesAssumption, PowerPositive DEF Places
  <2>2. k \div Power[i] \in Nat
    BY <2>1, Quotient
  <2>3. QED
    BY <2>1, <2>2, Quotient
<1>2. QED
  BY <1>1 DEF BytesOf, ByteArray

(* The low bytes of a number hold what a shift drops.                      *)
LEMMA ValueOfBytesOf ==
  ASSUME NEW k \in Nat
  PROVE  \A n \in 0 .. Width : Value(BytesOf(k), n) + (k \div Power[n]) * Power[n] = k
<1> DEFINE b == BytesOf(k)
           Good == {n \in 0 .. Width : Value(b, n) + (k \div Power[n]) * Power[n] = k}
<1>1. Width \in Nat /\ Base \in Nat \ {0} /\ b \in ByteArray
  BY BytesAssumption, BytesOfIsByteArray
<1>2. \A i \in Places : b[i] = (k \div Power[i]) % Base
  BY DEF BytesOf
<1> HIDE DEF b
<1>3. 0 \in Good
  <2>1. k \div 1 = k
    BY Z3
  <2>2. QED
    BY <1>1, <2>1, PowerSteps, ValueSteps
<1>4. ASSUME NEW n \in 1 .. Width, n - 1 \in Good
      PROVE  n \in Good
  <2> DEFINE p == Power[n - 1]
             q == k \div p
             v == Value(b, n - 1)
  <2>1. p \in Nat \ {0} /\ n - 1 \in 0 .. Width /\ n - 1 \in Places
    BY <1>1, PowerPositive DEF Places
  <2>2. q \in Nat
    BY <2>1, Quotient
  <2>3. v \in Int /\ v + q * p = k
    BY <1>1, <1>4, <2>1, ValueBounds
  <2>4. Power[n] = Base * p /\ Value(b, n) = v + b[n - 1] * p
    BY <1>1, PowerSteps, ValueSteps
  <2>5. b[n - 1] = q % Base
    BY <1>2, <2>1
  <2>6. k \div (Base * p) = q \div Base
    BY <2>1, QuotientTwice
  <2> HIDE DEF p, q, v
  <2> DEFINE t == q \div Base
             r == q % Base
  <2>7. t \in Nat /\ r \in Nat /\ q = t * Base + r
    BY <1>1, <2>2, Quotient
  <2>8. b[n - 1] = r /\ k \div Power[n] = t
    BY <2>4, <2>5, <2>6
  <2> HIDE DEF t, r
  <2>9. q * p = (t * Base) * p + r * p
    BY <1>1, <2>1, <2>2, <2>7
  <2>10. (t * Base) * p = t * (Base * p) /\ r * p \in Nat /\ t * (Base * p) \in Nat
    BY <1>1, <2>1, <2>7
  <2>11. Value(b, n) + (k \div Power[n]) * Power[n] = v + r * p + t * (Base * p)
    BY <2>3, <2>4, <2>8, <2>10
  <2>12. Value(b, n) + (k \div Power[n]) * Power[n] = k
    BY <2>3, <2>9, <2>10, <2>11
  <2>13. QED
    BY <2>1, <2>12
<1>5. 0 .. Width \subseteq Good
  <2> HIDE DEF Good
  <2>1. QED
    BY <1>1, <1>3, <1>4, InductionUpTo
<1>6. QED
  BY <1>5 DEF b

-----------------------------------------------------------------------------
(***************************************************************************)
(* The loops.                                                              *)
(***************************************************************************)
LoopTypeOK ==
  /\ routine \in {"offset", "accepted", "expand"}
  /\ start \in Scalar
  /\ addend \in Addends(routine)
  /\ bytes \in ByteArray
  /\ carry \in Nat
  /\ place \in 0 .. Width
  /\ done \in BOOLEAN

(* What the bytes hold and what is still to be added to them make the sum. *)
SumKept == Value(bytes, Width) + carry * Power[place] = start + addend

LoopInv ==
  /\ LoopTypeOK
  /\ SumKept
  /\ done => carry = 0 \/ place = Width

LEMMA AddendIsNat ==
  ASSUME NEW r \in {"offset", "accepted", "expand"}
  PROVE  Addends(r) \subseteq Nat
<1>1. Power[LowBytes] \in Nat /\ MaxAddend \in Nat
  BY BytesAssumption, PowerPositive
<1>2. QED
  BY <1>1 DEF Addends

LEMMA ScalarFits == \A k \in Scalar : k \in Nat /\ k < Power[Width]
<1>1. Power[Width] \in Nat /\ Order \in Nat /\ Order < Power[Width]
  BY BytesAssumption, OrderAssumption, PowerPositive
<1>2. QED
  BY <1>1 DEF Scalar

LEMMA ValueOfScalar ==
  ASSUME NEW k \in Scalar
  PROVE  Value(BytesOf(k), Width) = k
<1>1. k \in Nat /\ k < Power[Width] /\ Width \in 0 .. Width
  BY BytesAssumption, ScalarFits
<1>2. Power[Width] \in Nat \ {0}
  BY <1>1, PowerPositive
<1>3. k \div Power[Width] = 0
  BY <1>1, <1>2, Z3
<1>4. Value(BytesOf(k), Width) + 0 * Power[Width] = k
  BY <1>1, <1>3, ValueOfBytesOf
<1>5. Value(BytesOf(k), Width) \in Int
  BY <1>1, <1>2, BytesOfIsByteArray, ValueBounds
<1>6. QED
  BY <1>2, <1>4, <1>5

LEMMA LoopStarts == LoopInit => LoopInv
<1> SUFFICES ASSUME LoopInit PROVE LoopInv
  OBVIOUS
<1>1. LoopTypeOK
  <2>1. bytes \in ByteArray
    BY BytesOfIsByteArray, ScalarFits DEF LoopInit
  <2>2. addend \in Nat /\ carry = addend
    BY AddendIsNat DEF LoopInit
  <2>3. 0 \in 0 .. Width
    BY BytesAssumption
  <2>4. QED
    BY <2>1, <2>2, <2>3 DEF LoopInit, LoopTypeOK
<1>2. Value(bytes, Width) = start /\ Power[place] = 1
  BY PowerSteps, ValueOfScalar DEF LoopInit
<1>3. SumKept
  BY <1>1, <1>2 DEF LoopInit, SumKept, LoopTypeOK
<1>4. QED
  BY <1>1, <1>3 DEF LoopInv, LoopInit

LEMMA AddByteInv ==
  ASSUME LoopInv, AddByte
  PROVE  LoopInv'
<1> DEFINE b == bytes[place]
           low == carry % Base
           high == carry \div Base
           sum == b + low
           d == sum % Base
           over == sum \div Base
           p == Power[place]
<1>1. /\ Width \in Nat /\ Base \in Nat \ {0}
      /\ place \in Places /\ place \in 0 .. Width /\ place + 1 \in 1 .. Width
      /\ place + 1 \in 0 .. Width
  BY BytesAssumption DEF AddByte, LoopInv, LoopTypeOK, Places
<1>2. b \in 0 .. Base - 1 /\ p \in Nat \ {0} /\ Power[place + 1] = Base * p
  BY <1>1, PowerSteps, PowerPositive DEF LoopInv, LoopTypeOK, ByteArray
<1>3. carry \in Nat /\ low \in 0 .. Base - 1 /\ high \in Nat /\ carry = high * Base + low
  BY <1>1, Quotient DEF LoopInv, LoopTypeOK
<1>4. sum \in Nat /\ d \in 0 .. Base - 1 /\ over \in Nat /\ sum = over * Base + d
  <2>1. sum \in Nat
    BY <1>1, <1>2, <1>3
  <2> HIDE DEF sum
  <2>2. QED
    BY <1>1, <2>1, Quotient
<1>5. bytes' = [bytes EXCEPT ![place] = d] /\ carry' = high + over
  BY DEF AddByte, Truncated, CarryOn
<1>6. /\ bytes' \in ByteArray
      /\ Value(bytes', Width) = Value(bytes, Width) + (d - b) * p
  BY <1>1, <1>4, <1>5, ValueOfChanged DEF LoopInv, LoopTypeOK
<1>7. LoopTypeOK'
  <2>1. carry' \in Nat
    <3> HIDE DEF high, over
    <3>1. QED
      BY <1>3, <1>4, <1>5
  <2>2. place' \in 0 .. Width /\ UNCHANGED << routine, start, addend, done >>
    BY <1>1 DEF AddByte
  <2>3. QED
    BY <1>6, <2>1, <2>2 DEF LoopInv, LoopTypeOK
<1>8. (d - b) + carry' * Base = carry
  <2>1. sum = b + low
    OBVIOUS
  <2> HIDE DEF b, low, high, sum, d, over
  <2>2. (high + over) * Base = high * Base + over * Base
    BY <1>1, <1>3, <1>4
  <2>3. high * Base \in Nat /\ over * Base \in Nat
    BY <1>1, <1>3, <1>4
  <2>4. QED
    BY <1>2, <1>3, <1>4, <1>5, <2>1, <2>2, <2>3
<1>9. (d - b) * p + carry' * Power[place + 1] = carry * p
  <2>1. carry' \in Nat /\ d \in Int /\ b \in Int
    BY <1>2, <1>4, <1>7 DEF LoopTypeOK
  <2> HIDE DEF b, d, p
  <2>2. carry' * (Base * p) = (carry' * Base) * p
    BY <1>1, <1>2, <2>1
  <2>3. ((d - b) + carry' * Base) * p = (d - b) * p + (carry' * Base) * p
    BY <1>1, <1>2, <2>1
  <2>4. QED
    BY <1>2, <1>8, <2>2, <2>3
<1>10. SumKept'
  <2>0. Width \in 0 .. Width /\ Power[Width] \in Nat /\ Power[place + 1] \in Nat
    BY <1>1, PowerPositive
  <2>1. /\ Value(bytes, Width) \in Int
        /\ Power[place + 1] \in Int /\ carry' \in Int /\ d - b \in Int /\ p \in Int
    <3>1. Value(bytes, Width) \in Int
      BY <2>0, ValueBounds DEF LoopInv, LoopTypeOK
    <3>2. carry' \in Int
      BY <1>7 DEF LoopTypeOK
    <3> HIDE DEF b, d, p
    <3>3. QED
      BY <1>2, <1>4, <2>0, <3>1, <3>2
  <2>2. /\ carry' * Power[place + 1] \in Int /\ (d - b) * p \in Int
        /\ carry * p \in Int
    BY <1>2, <1>3, <2>1
  <2>3. Value(bytes, Width) + carry * p = start + addend
    BY DEF LoopInv, SumKept
  <2>4. place' = place + 1 /\ start' = start /\ addend' = addend
    BY DEF AddByte
  <2> HIDE DEF b, d, p
  <2>5. Value(bytes', Width) + carry' * Power[place + 1] = start + addend
    BY <1>6, <1>9, <2>1, <2>2, <2>3
  <2>6. QED
    BY <2>4, <2>5 DEF SumKept
<1>11. QED
  BY <1>7, <1>10 DEF LoopInv, AddByte

LEMMA LoopInductive == LoopInv /\ [LoopNext]_loop => LoopInv'
<1> SUFFICES ASSUME LoopInv, [LoopNext]_loop PROVE LoopInv'
  OBVIOUS
<1>1. CASE Finish
  BY <1>1 DEF Finish, LoopInv, LoopTypeOK, SumKept
<1>2. CASE UNCHANGED loop
  BY <1>2 DEF loop, LoopInv, LoopTypeOK, SumKept
<1>3. QED
  BY <1>1, <1>2, AddByteInv DEF LoopNext, Done

(* The comparison of the low bytes, with the high ones all 0.              *)
LEMMA SmallIsBelow ==
  ASSUME NEW k \in Scalar, NEW len \in Nat, len <= Power[LowBytes]
  PROVE  Small(k, len) <=> k < len
<1> DEFINE b == BytesOf(k)
<1>1. /\ Width \in Nat /\ Base \in Nat \ {0} /\ LowBytes \in 0 .. Width
      /\ k \in Nat /\ b \in ByteArray
  BY BytesAssumption, ScalarFits, BytesOfIsByteArray
<1>2. Small(k, len) <=> /\ \A i \in LowBytes .. Width - 1 : b[i] = 0
                        /\ Value(b, LowBytes) < len
  BY DEF Small
<1>3. Power[LowBytes] \in Nat \ {0}
  BY <1>1, PowerPositive
<1>4. ASSUME Small(k, len)
      PROVE  k < len
  <2>1. Value(b, Width) = k
    BY ValueOfScalar
  <2> HIDE DEF b
  <2>2. Value(b, Width) = Value(b, LowBytes)
    BY <1>1, <1>2, <1>4, ValueOfLow
  <2>3. QED
    BY <1>2, <1>4, <2>1, <2>2
<1>5. ASSUME k < len
      PROVE  Small(k, len)
  <2>1. ASSUME NEW i \in LowBytes .. Width - 1
        PROVE  b[i] = 0
    <3>1. /\ i \in Places /\ i \in 0 .. Width /\ LowBytes \in 0 .. Width
          /\ i \in LowBytes .. Width
      BY <1>1 DEF Places
    <3>2. Power[LowBytes] <= Power[i] /\ Power[i] \in Nat \ {0}
      BY <3>1, PowerGrows, PowerPositive
    <3>3. k < Power[i]
      BY <1>1, <1>3, <1>5, <3>2
    <3>4. k \div Power[i] = 0
      BY <1>1, <3>2, <3>3, Z3
    <3>5. 0 % Base = 0
      BY <1>1, Z3
    <3>6. QED
      BY <3>1, <3>4, <3>5 DEF BytesOf
  <2>2. k \div Power[LowBytes] = 0
    <3>1. k < Power[LowBytes]
      BY <1>1, <1>3, <1>5
    <3>2. QED
      BY <1>1, <1>3, <3>1, Z3
  <2>3. Value(b, LowBytes) + 0 * Power[LowBytes] = k
    BY <1>1, <2>2, ValueOfBytesOf
  <2>4. Value(b, LowBytes) \in Int
    BY <1>1, <1>3, ValueBounds
  <2> HIDE DEF b
  <2>5. Value(b, LowBytes) = k
    BY <1>3, <2>3, <2>4
  <2>6. QED
    BY <1>2, <1>5, <2>1, <2>5
<1>6. QED
  BY <1>4, <1>5

(* When a loop is done, it has the sum or the sum is beyond the bytes.     *)
LEMMA SumOrOverflow ==
  ASSUME LoopInv, done
  PROVE  /\ carry = 0 => Value(bytes, Width) = start + addend
         /\ carry # 0 => start + addend > Order
<1>1. /\ Value(bytes, Width) \in 0 .. Power[Width] - 1
      /\ Power[Width] \in Nat \ {0}
  BY BytesAssumption, ValueBounds, PowerPositive DEF LoopInv, LoopTypeOK
<1>2. start \in Nat /\ addend \in Nat /\ carry \in Nat /\ place \in 0 .. Width
  BY ScalarFits, AddendIsNat DEF LoopInv, LoopTypeOK
<1>3. Value(bytes, Width) + carry * Power[place] = start + addend
  BY DEF LoopInv, SumKept
<1>4. CASE carry = 0
  <2>1. 0 * Power[place] = 0
    BY <1>2, PowerPositive
  <2>2. QED
    BY <1>1, <1>3, <1>4, <2>1
<1>5. CASE carry # 0
  <2>1. place = Width
    BY <1>5 DEF LoopInv
  <2>2. carry * Power[Width] >= Power[Width]
    BY <1>1, <1>2, <1>5
  <2>3. start + addend >= Power[Width]
    <3>1. carry * Power[Width] \in Int
      BY <1>1, <1>2
    <3>2. QED
      BY <1>1, <1>2, <1>3, <2>1, <2>2, <3>1
  <2>4. QED
    BY <1>1, <1>2, <1>5, <2>3, BytesAssumption, OrderAssumption
<1>6. QED
  BY <1>4, <1>5

LEMMA LoopResult == LoopInv => ResultIsOffset
<1> SUFFICES ASSUME LoopInv, done PROVE ResultIsOffset
  BY DEF ResultIsOffset
<1>1. start \in Nat /\ start \in Scalar /\ addend \in Nat /\ Order \in Nat
  BY ScalarFits, AddendIsNat, OrderAssumption DEF LoopInv, LoopTypeOK
<1>2. OffsetResult = Offset(start, addend)
  <2>1. CASE carry = 0
    BY <2>1, SumOrOverflow DEF OffsetResult, Offset
  <2>2. CASE carry # 0
    <3>1. start + addend \notin Scalar
      BY <1>1, <2>2, SumOrOverflow DEF Scalar
    <3>2. QED
      BY <2>2, <3>1 DEF OffsetResult, Offset
  <2>3. QED
    BY <2>1, <2>2
<1>3. ASSUME routine = "accepted"
      PROVE  AcceptedResult = ChainStartAccepted(start, addend + 1)
  <2>1. Power[LowBytes] \in Nat
    BY BytesAssumption, PowerPositive
  <2>2. addend \in 1 .. Power[LowBytes] - 2
    BY <1>3 DEF LoopInv, LoopTypeOK, Addends
  <2>3. Small(start, addend + 1) <=> start < addend + 1
    BY <1>1, <2>1, <2>2, SmallIsBelow
  <2>4. AcceptedResult <=> ChainStartAccepted(start, addend + 1)
    <3>1. start >= addend + 1 <=> ~ start < addend + 1
      BY <1>1
    <3>2. ChainStartAccepted(start, addend + 1) <=>
            start >= addend + 1 /\ Offset(start, addend) # NoScalar
      <4> DEFINE len == addend + 1
      <4>1. len - 1 = addend /\ ~ (len <= 1)
        BY <2>1, <2>2
      <4> HIDE DEF len
      <4>2. ChainStartAccepted(start, len) <=>
              start >= len /\ Offset(start, addend) # NoScalar
        BY <4>1, Zenon DEF ChainStartAccepted
      <4>3. QED
        BY <4>2 DEF len
    <3>3. AcceptedResult <=>
            ~ Small(start, addend + 1) /\ Offset(start, addend) # NoScalar
      BY <1>2 DEF AcceptedResult
    <3>4. QED
      BY <2>3, <3>1, <3>2, <3>3
  <2>5. QED
    BY <2>4 DEF AcceptedResult, ChainStartAccepted
<1>4. ASSUME routine = "expand", Offset(start, 1) # NoScalar
      PROVE  carry = 0 /\ Value(bytes, Width) = Offset(start, 1)
  <2>1. addend = 1
    BY <1>4 DEF LoopInv, LoopTypeOK, Addends
  <2>2. start + 1 \in Scalar /\ Offset(start, 1) = start + 1
    BY <1>4 DEF Offset
  <2>3. QED
    BY <1>1, <2>1, <2>2, SumOrOverflow DEF Scalar
<1>5. routine \in {"offset", "accepted", "expand"}
  BY DEF LoopInv, LoopTypeOK
<1>6. QED
  BY <1>2, <1>3, <1>4, <1>5 DEF ResultIsOffset

(* Whatever the base, the number of bytes and the order: the byte loops    *)
(* compute the sums of ChainRules.                                         *)
THEOREM BytesAreRight == LoopSpec => []ResultIsOffset
<1>1. QED
  BY LoopStarts, LoopInductive, LoopResult, PTL DEF LoopSpec

-----------------------------------------------------------------------------
(***************************************************************************)
(* The device that is picked.                                              *)
(***************************************************************************)
PickStep(b, n, suits, rank) ==
  IF ~ suits[n] \/ (b # 0 /\ NotBelow(rank[b], rank[n])) THEN b ELSE n

Picks(best, suits, rank) ==
  best = [n \in 0 .. Len(suits) |->
            IF n = 0 THEN 0
            ELSE PickStep(best[n - 1], n, suits, rank)]

PickedBy(best, N, suits, rank) ==
  /\ best \in [0 .. N -> 0 .. N]
  /\ best[0] = 0
  /\ \A n \in 1 .. N : best[n] = PickStep(best[n - 1], n, suits, rank)
  /\ Picked(suits, rank) = best[N]

(* The loop, one device a step.                                            *)
LEMMA PickedSteps ==
  ASSUME NEW N \in Nat, NEW suits \in [1 .. N -> BOOLEAN], NEW rank
  PROVE  \E best : PickedBy(best, N, suits, rank)
<1>1. Len(suits) = N
  OBVIOUS
<1> DEFINE step == [p \in (1 .. N) \X (0 .. N) |-> PickStep(p[2], p[1], suits, rank)]
<1>2. step \in [(1 .. N) \X (0 .. N) -> 0 .. N] /\ 0 \in 0 .. N
  BY DEF PickStep
<1>3. PICK g \in [0 .. N -> 0 .. N] : Recursion(g, N, 0, step)
  <2> HIDE DEF step
  <2>1. QED
    BY <1>2, RecursionExists
<1>4. ASSUME NEW n \in 1 .. N
      PROVE  step[<< n, g[n - 1] >>] = PickStep(g[n - 1], n, suits, rank)
  <2>1. n - 1 \in 0 .. N /\ g[n - 1] \in 0 .. N
    OBVIOUS
  <2>2. << n, g[n - 1] >> \in (1 .. N) \X (0 .. N)
    BY <2>1
  <2>3. QED
    BY <2>2
<1> HIDE DEF step
<1>5. Picks(g, suits, rank)
  <2>1. \A n \in 0 .. N : n # 0 => n \in 1 .. N
    OBVIOUS
  <2>2. QED
    BY <1>1, <1>3, <1>4, <2>1 DEF Recursion, Picks
<1>6. PICK best : Picks(best, suits, rank) /\ Picked(suits, rank) = best[N]
  <2> DEFINE chosen == CHOOSE b : Picks(b, suits, rank)
  <2>1. Picks(chosen, suits, rank)
    BY <1>5
  <2>2. Picked(suits, rank) = chosen[N]
    BY <1>1 DEF Picked, Picks, PickStep
  <2>3. QED
    BY <2>1, <2>2
<1>8. /\ best[0] = 0
      /\ \A n \in 1 .. N : best[n] = PickStep(best[n - 1], n, suits, rank)
  <2>1. 0 \in 0 .. N /\ \A n \in 1 .. N : n \in 0 .. N /\ n # 0
    OBVIOUS
  <2>2. QED
    BY <1>1, <1>6, <2>1 DEF Picks
<1>9. best \in [0 .. N -> 0 .. N]
  <2> DEFINE Good == {n \in 0 .. N : best[n] \in 0 .. N}
  <2>1. 0 \in Good
    BY <1>8
  <2>2. ASSUME NEW n \in 1 .. N, n - 1 \in Good
        PROVE  n \in Good
    <3>1. best[n - 1] \in 0 .. N
      BY <2>2
    <3>2. best[n] = best[n - 1] \/ best[n] = n
      BY <1>8 DEF PickStep
    <3>3. n \in 0 .. N
      OBVIOUS
    <3>4. CASE best[n] = n
      BY <3>3, <3>4
    <3>5. CASE best[n] = best[n - 1]
      BY <3>1, <3>3, <3>5
    <3>6. QED
      BY <3>2, <3>4, <3>5
  <2>3. 0 .. N \subseteq Good
    <3> HIDE DEF Good
    <3>1. QED
      BY <2>1, <2>2, InductionUpTo
  <2>4. DOMAIN best = 0 .. N /\ best = [n \in 0 .. N |-> best[n]]
    BY <1>1, <1>6 DEF Picks
  <2>5. QED
    BY <2>3, <2>4
<1>10. QED
  BY <1>6, <1>8, <1>9 DEF PickedBy

(* The first of the highest rank among the first n devices, or 0.          *)
FirstBest(b, n, suits, rank) ==
  IF b = 0 THEN \A i \in 1 .. n : ~ suits[i]
  ELSE /\ b \in 1 .. n /\ suits[b]
       /\ \A i \in 1 .. n : suits[i] =>
            Above(rank[b], rank[i]) \/ (rank[b] = rank[i] /\ b <= i)

(* The ranks of the devices from 1 to N are in a total order.              *)
Ordered(N, rank) ==
  /\ \A i, j \in 1 .. N :
       Above(rank[i], rank[j]) \/ Above(rank[j], rank[i]) \/ rank[i] = rank[j]
  /\ \A i, j, k \in 1 .. N :
       Above(rank[i], rank[j]) /\ Above(rank[j], rank[k]) => Above(rank[i], rank[k])

(* Ranks are compared as Rust compares tuples; for such an order the loop  *)
(* ends with the first device of the highest rank.                         *)
LEMMA PickedIsBest ==
  ASSUME NEW N \in Nat, NEW suits \in [1 .. N -> BOOLEAN], NEW rank, Ordered(N, rank)
  PROVE  FirstBest(Picked(suits, rank), N, suits, rank)
<1>0. PICK best : PickedBy(best, N, suits, rank)
  BY PickedSteps
<1>1. /\ best \in [0 .. N -> 0 .. N]
      /\ best[0] = 0
      /\ \A n \in 1 .. N : best[n] = PickStep(best[n - 1], n, suits, rank)
      /\ Picked(suits, rank) = best[N]
  BY <1>0 DEF PickedBy
<1> DEFINE Good == {n \in 0 .. N : FirstBest(best[n], n, suits, rank)}
<1>2. 0 \in Good
  BY <1>1 DEF FirstBest
<1>3. ASSUME NEW n \in 1 .. N, n - 1 \in Good
      PROVE  n \in Good
  <2> DEFINE b == best[n - 1]
  <2>1. FirstBest(b, n - 1, suits, rank) /\ n - 1 \in 0 .. N /\ b \in 0 .. N
    BY <1>1, <1>3
  <2>2. \A i \in 1 .. n : i \in 1 .. n - 1 \/ i = n
    OBVIOUS
  <2>3. \A i \in 1 .. n - 1 : i \in 1 .. n /\ i \in 1 .. N /\ i < n
    OBVIOUS
  <2>4. best[n] = IF ~ suits[n] \/ (b # 0 /\ NotBelow(rank[b], rank[n])) THEN b ELSE n
    BY <1>1 DEF PickStep
  <2> HIDE DEF b
  <2>5. ASSUME ~ suits[n]
        PROVE  FirstBest(best[n], n, suits, rank)
    <3>1. FirstBest(b, n, suits, rank)
      BY <2>1, <2>2, <2>3, <2>5 DEF FirstBest
    <3>2. QED
      BY <2>4, <2>5, <3>1
  <2>6. ASSUME suits[n], b = 0
        PROVE  FirstBest(best[n], n, suits, rank)
    <3>1. \A i \in 1 .. n : suits[i] => i = n
      BY <2>1, <2>2, <2>6 DEF FirstBest
    <3>2. FirstBest(n, n, suits, rank)
      BY <2>6, <3>1 DEF FirstBest
    <3>3. QED
      BY <2>4, <2>6, <3>2
  <2>7. ASSUME suits[n], b # 0, NotBelow(rank[b], rank[n])
        PROVE  FirstBest(best[n], n, suits, rank)
    <3>1. b \in 1 .. n - 1 /\ b <= n /\ b \in 1 .. n
      BY <2>1, <2>7 DEF FirstBest
    <3>2. FirstBest(b, n, suits, rank)
      BY <2>1, <2>2, <2>7, <3>1 DEF NotBelow, FirstBest
    <3>3. QED
      BY <2>4, <2>7, <3>2
  <2>8. ASSUME suits[n], b # 0, ~ NotBelow(rank[b], rank[n])
        PROVE  FirstBest(best[n], n, suits, rank)
    <3>1. b \in 1 .. n - 1 /\ b \in 1 .. N
      BY <2>1, <2>3, <2>8 DEF FirstBest
    <3>2. Above(rank[n], rank[b]) /\ n \in 1 .. N
      BY <2>8, <3>1 DEF NotBelow, Ordered
    <3>3. ASSUME NEW i \in 1 .. n - 1, suits[i]
          PROVE  Above(rank[n], rank[i])
      <4>1. Above(rank[b], rank[i]) \/ rank[b] = rank[i]
        BY <2>1, <2>8, <3>3 DEF FirstBest
      <4>2. CASE rank[b] = rank[i]
        BY <3>2, <4>2
      <4>3. CASE Above(rank[b], rank[i])
        BY <2>3, <3>1, <3>2, <4>3 DEF Ordered
      <4>4. QED
        BY <4>1, <4>2, <4>3
    <3>4. FirstBest(n, n, suits, rank)
      BY <2>2, <2>8, <3>3 DEF FirstBest
    <3>5. QED
      BY <2>4, <2>8, <3>4
  <2>9. FirstBest(best[n], n, suits, rank) /\ n \in 0 .. N
    BY <2>5, <2>6, <2>7, <2>8
  <2>10. QED
    BY <2>9
<1>4. N \in Good
  <2> HIDE DEF Good
  <2>1. 0 .. N \subseteq Good
    BY <1>2, <1>3, InductionUpTo
  <2>2. QED
    BY <2>1
<1>5. FirstBest(Picked(suits, rank), N, suits, rank)
  BY <1>1, <1>4
<1>6. QED
  BY <1>5

(***************************************************************************)
(* The ranks of CUDA's and of Vulkan's devices are compared in order.      *)
(***************************************************************************)
LEMMA AboveOfThree ==
  ASSUME NEW a \in Int \X Int \X Int, NEW b \in Int \X Int \X Int
  PROVE  Above(a, b) <=> \/ a[1] > b[1]
                         \/ a[1] = b[1] /\ a[2] > b[2]
                         \/ a[1] = b[1] /\ a[2] = b[2] /\ a[3] > b[3]
<1>1. DOMAIN a = {1, 2, 3}
  OBVIOUS
<1>2. 1 .. 1 - 1 = {} /\ 1 .. 2 - 1 = {1} /\ 1 .. 3 - 1 = {1, 2}
  OBVIOUS
<1>3. QED
  BY <1>1, <1>2 DEF Above

LEMMA AboveOfTwo ==
  ASSUME NEW a \in Int \X Int, NEW b \in Int \X Int
  PROVE  Above(a, b) <=> a[1] > b[1] \/ (a[1] = b[1] /\ a[2] > b[2])
<1>1. DOMAIN a = {1, 2}
  OBVIOUS
<1>2. 1 .. 1 - 1 = {} /\ 1 .. 2 - 1 = {1}
  OBVIOUS
<1>3. QED
  BY <1>1, <1>2 DEF Above

LEMMA ThreeInOrder ==
  ASSUME NEW a \in Int \X Int \X Int, NEW b \in Int \X Int \X Int
  PROVE  /\ Above(a, b) \/ Above(b, a) \/ a = b
         /\ \A c \in Int \X Int \X Int :
              Above(a, b) /\ Above(b, c) => Above(a, c)
<1>1. Above(a, b) \/ Above(b, a) \/ a = b
  <2>1. a[1] = b[1] /\ a[2] = b[2] /\ a[3] = b[3] => a = b
    OBVIOUS
  <2>2. /\ a[1] \in Int /\ a[2] \in Int /\ a[3] \in Int
        /\ b[1] \in Int /\ b[2] \in Int /\ b[3] \in Int
    OBVIOUS
  <2>3. QED
    BY <2>1, <2>2, AboveOfThree
<1>2. ASSUME NEW c \in Int \X Int \X Int, Above(a, b), Above(b, c)
      PROVE  Above(a, c)
  <2>1. /\ a[1] \in Int /\ a[2] \in Int /\ a[3] \in Int
        /\ b[1] \in Int /\ b[2] \in Int /\ b[3] \in Int
        /\ c[1] \in Int /\ c[2] \in Int /\ c[3] \in Int
    OBVIOUS
  <2>2. /\ Above(a, b) <=> \/ a[1] > b[1]
                           \/ a[1] = b[1] /\ a[2] > b[2]
                           \/ a[1] = b[1] /\ a[2] = b[2] /\ a[3] > b[3]
        /\ Above(b, c) <=> \/ b[1] > c[1]
                           \/ b[1] = c[1] /\ b[2] > c[2]
                           \/ b[1] = c[1] /\ b[2] = c[2] /\ b[3] > c[3]
        /\ Above(a, c) <=> \/ a[1] > c[1]
                           \/ a[1] = c[1] /\ a[2] > c[2]
                           \/ a[1] = c[1] /\ a[2] = c[2] /\ a[3] > c[3]
    BY AboveOfThree
  <2>3. QED
    BY <1>2, <2>1, <2>2
<1>3. QED
  BY <1>1, <1>2

LEMMA TwoInOrder ==
  ASSUME NEW a \in Int \X Int, NEW b \in Int \X Int
  PROVE  /\ Above(a, b) \/ Above(b, a) \/ a = b
         /\ \A c \in Int \X Int : Above(a, b) /\ Above(b, c) => Above(a, c)
<1>1. Above(a, b) \/ Above(b, a) \/ a = b
  <2>1. a[1] = b[1] /\ a[2] = b[2] => a = b
    OBVIOUS
  <2>2. a[1] \in Int /\ a[2] \in Int /\ b[1] \in Int /\ b[2] \in Int
    OBVIOUS
  <2>3. QED
    BY <2>1, <2>2, AboveOfTwo
<1>2. ASSUME NEW c \in Int \X Int, Above(a, b), Above(b, c)
      PROVE  Above(a, c)
  <2>1. /\ a[1] \in Int /\ a[2] \in Int /\ b[1] \in Int /\ b[2] \in Int
        /\ c[1] \in Int /\ c[2] \in Int
    OBVIOUS
  <2>2. /\ Above(a, b) <=> a[1] > b[1] \/ (a[1] = b[1] /\ a[2] > b[2])
        /\ Above(b, c) <=> b[1] > c[1] \/ (b[1] = c[1] /\ b[2] > c[2])
        /\ Above(a, c) <=> a[1] > c[1] \/ (a[1] = c[1] /\ a[2] > c[2])
    BY AboveOfTwo
  <2>3. QED
    BY <1>2, <2>1, <2>2
<1>3. QED
  BY <1>1, <1>2

LEMMA RanksInOrder ==
  ASSUME NEW N \in Nat, NEW rank,
         \/ rank \in [1 .. N -> Int \X Int \X Int]
         \/ rank \in [1 .. N -> Int \X Int]
  PROVE  Ordered(N, rank)
<1>1. CASE rank \in [1 .. N -> Int \X Int \X Int]
  <2>1. \A i \in 1 .. N : rank[i] \in Int \X Int \X Int
    BY <1>1
  <2>2. QED
    BY <2>1, ThreeInOrder, Zenon DEF Ordered
<1>2. CASE rank \in [1 .. N -> Int \X Int]
  <2>1. \A i \in 1 .. N : rank[i] \in Int \X Int
    BY <1>2
  <2>2. QED
    BY <2>1, TwoInOrder, Zenon DEF Ordered
<1>3. QED
  BY <1>1, <1>2

(* What pick_device of either backend returns is the best of what it asked *)
(* for.                                                                    *)
Best(pick, devices, Suits(_), Rank(_)) ==
  LET usable == {i \in DOMAIN devices : Suits(devices[i])}
  IN  IF pick = 0
        THEN usable = {}
        ELSE /\ pick \in usable
             /\ \A i \in usable :
                  \/ Above(Rank(devices[pick]), Rank(devices[i]))
                  \/ Rank(devices[pick]) = Rank(devices[i]) /\ pick <= i

LEMMA CudaPickIsBest ==
  ASSUME NEW devices \in SeqOf(CudaDevices, MaxDevices)
  PROVE  Best(CudaPick(devices), devices, CudaSuits, CudaRank)
<1>1. PICK n \in Nat : devices \in [1 .. n -> CudaDevices]
  BY StartupAssumption DEF SeqOf
<1> DEFINE suits == [i \in DOMAIN devices |-> CudaSuits(devices[i])]
           rank == [i \in DOMAIN devices |-> CudaRank(devices[i])]
<1>2. suits \in [1 .. n -> BOOLEAN]
  BY <1>1 DEF CudaSuits
<1>3. rank \in [1 .. n -> Int \X Int \X Int]
  BY <1>1, StartupAssumption DEF CudaRank
<1>4. /\ DOMAIN devices = 1 .. n
      /\ \A i \in 1 .. n : /\ suits[i] <=> CudaSuits(devices[i])
                           /\ rank[i] = CudaRank(devices[i])
  BY <1>1
<1>5. CudaPick(devices) = Picked(suits, rank)
  BY DEF CudaPick
<1> HIDE DEF suits, rank
<1>6. FirstBest(Picked(suits, rank), n, suits, rank)
  BY <1>2, <1>3, RanksInOrder, PickedIsBest
<1>7. QED
  BY <1>4, <1>5, <1>6 DEF FirstBest, Best

LEMMA VulkanPickIsBest ==
  ASSUME NEW devices \in SeqOf(VulkanDevices, MaxDevices)
  PROVE  Best(VulkanPick(devices), devices, VulkanSuits, VulkanRank)
<1>1. PICK n \in Nat : devices \in [1 .. n -> VulkanDevices]
  BY StartupAssumption DEF SeqOf
<1> DEFINE suits == [i \in DOMAIN devices |-> VulkanSuits(devices[i])]
           rank == [i \in DOMAIN devices |-> VulkanRank(devices[i])]
<1>2. suits \in [1 .. n -> BOOLEAN]
  BY <1>1 DEF VulkanSuits
<1>3. rank \in [1 .. n -> Int \X Int]
  BY <1>1 DEF VulkanRank, TypeScore
<1>4. /\ DOMAIN devices = 1 .. n
      /\ \A i \in 1 .. n : /\ suits[i] <=> VulkanSuits(devices[i])
                           /\ rank[i] = VulkanRank(devices[i])
  BY <1>1
<1>5. VulkanPick(devices) = Picked(suits, rank)
  BY DEF VulkanPick
<1> HIDE DEF suits, rank
<1>6. FirstBest(Picked(suits, rank), n, suits, rank)
  BY <1>2, <1>3, RanksInOrder, PickedIsBest
<1>7. QED
  BY <1>4, <1>5, <1>6 DEF FirstBest, Best

-----------------------------------------------------------------------------
(***************************************************************************)
(* The inductive invariant of the selection.                               *)
(***************************************************************************)
SelectionTypeOK ==
  /\ choice \in Choice
  /\ tried \in [Backends -> Outcome]
  /\ selection \in Backends \union {"none", "cpu", "error", "fallback"}

(* A backend is tried where it was asked for, or where those before it are *)
(* absent; only Vulkan's creation takes steps.                             *)
TriedInOrder ==
  /\ tried["metal"] # "trying" /\ tried["cuda"] # "trying"
  /\ choice = "cpu" => \A b \in Backends : tried[b] = "untried"
  /\ choice \in Backends => \A b \in Backends \ {choice} : tried[b] = "untried"
  /\ choice = "auto" =>
       /\ (tried["cuda"] # "untried" => Passed("metal"))
       /\ (tried["vulkan"] # "untried" => Passed("metal") /\ Passed("cuda"))

(* What the selection rests on stays as it was.                            *)
Decided ==
  /\ selection = "cpu" => choice = "cpu"
  /\ selection \in Backends => tried[selection] = "created"
  /\ selection = "error" =>
       \/ \E b \in Backends : tried[b] = "failed"
       \/ choice \in Backends /\ Passed(choice)
  /\ selection = "fallback" => choice = "auto" /\ \A b \in Backends : Passed(b)

SelectionInv ==
  /\ SelectionTypeOK
  /\ TriedInOrder
  /\ Decided
  /\ PicksTheBest

LEMMA DecidedIsResolved ==
  ASSUME SelectionTypeOK, TriedInOrder, Decided
  PROVE  AsResolved
<1> SUFFICES ASSUME selection # "none" PROVE AsResolved
  BY DEF AsResolved
<1>1. ASSUME NEW b \in Backends, tried[b] = "failed"
      PROVE  selection = "error"
  BY <1>1 DEF SelectionTypeOK, TriedInOrder, Decided, Backends, Choice, Passed
<1>2. ASSUME \A b \in Backends : tried[b] # "failed",
             NEW available \in [Backends -> BOOLEAN],
             \A b \in Backends : /\ (tried[b] = "created" => available[b])
                                 /\ (tried[b] = "absent" => ~ available[b])
      PROVE  selection = Resolve(choice, available)
  <2>1. CASE choice = "cpu"
    BY <1>2, <2>1 DEF SelectionTypeOK, TriedInOrder, Decided, Backends, Resolve
  <2>2. CASE choice \in Backends
    BY <1>2, <2>2 DEF SelectionTypeOK, TriedInOrder, Decided, Backends, Resolve,
                      Passed
  <2>3. CASE choice = "auto"
    BY <1>2, <2>3 DEF SelectionTypeOK, TriedInOrder, Decided, Backends, Resolve,
                      Passed
  <2>4. QED
    BY <2>1, <2>2, <2>3 DEF SelectionTypeOK, Choice
<1>3. QED
  BY <1>1, <1>2 DEF AsResolved

(* One more outcome of a backend that was not finished keeps the order.    *)
LEMMA OutcomeInv ==
  ASSUME SelectionTypeOK, TriedInOrder, Decided,
         UNCHANGED << choice, selection >>,
         NEW b \in Backends, NEW outcome \in Outcome,
         b = "vulkan" \/ outcome # "trying",
         Wanted(b) \/ (tried[b] \in {"trying", outcome} /\ outcome # "untried"),
         tried' = [tried EXCEPT ![b] = outcome]
  PROVE  SelectionTypeOK' /\ TriedInOrder' /\ Decided'
<1>1. SelectionTypeOK'
  BY DEF SelectionTypeOK, Backends
<1>2. /\ tried'[b] = outcome
      /\ \A c \in Backends \ {b} : tried'[c] = tried[c]
  BY DEF SelectionTypeOK
<1>3. tried[b] # "absent" \/ tried'[b] = tried[b]
  BY <1>2 DEF Wanted
<1>4. TriedInOrder'
  BY <1>1, <1>2, <1>3
     DEF TriedInOrder, SelectionTypeOK, Backends, Choice, Wanted, Before, Passed
<1>5. tried[b] \notin {"created", "failed", "absent"} \/ tried'[b] = tried[b]
  BY <1>2 DEF Wanted
<1>6. Decided'
  BY <1>2, <1>5 DEF Decided, SelectionTypeOK, Passed
<1>7. QED
  BY <1>1, <1>4, <1>6

LEMMA TryInv ==
  ASSUME SelectionInv, TryMetal \/ TryCuda
  PROVE  SelectionInv'
<1>1. CASE TryMetal
  <2>1. PICK outcome \in {"absent", "failed", "created"} :
          tried' = [tried EXCEPT !["metal"] = outcome]
    BY <1>1 DEF TryMetal, Outcomes
  <2>2. SelectionTypeOK' /\ TriedInOrder' /\ Decided'
    BY <1>1, <2>1, OutcomeInv DEF TryMetal, SelectionInv, Backends, Outcome
  <2>3. tried'["vulkan"] = tried["vulkan"]
    BY <2>1 DEF SelectionInv, SelectionTypeOK, Backends
  <2>4. PicksTheBest'
    BY <1>1, <2>3 DEF TryMetal, SelectionInv, PicksTheBest, BestOf
  <2>5. QED
    BY <2>2, <2>4 DEF SelectionInv
<1>2. CASE TryCuda
  <2>1. PICK outcome \in {"absent", "failed", "created"} :
          tried' = [tried EXCEPT !["cuda"] = outcome]
    BY <1>2 DEF TryCuda, Outcomes
  <2>2. SelectionTypeOK' /\ TriedInOrder' /\ Decided'
    BY <1>2, <2>1, OutcomeInv DEF TryCuda, SelectionInv, Backends, Outcome
  <2>3. tried'["vulkan"] = "untried"
    BY <1>2, <2>1 DEF TryCuda, SelectionInv, SelectionTypeOK, TriedInOrder,
                      Backends, Wanted, Passed
  <2>4. found' = << >> \/ Best(device', found', CudaSuits, CudaRank)
    BY <1>2, CudaPickIsBest DEF TryCuda
  <2>5. PicksTheBest'
    BY <2>3, <2>4 DEF PicksTheBest, BestOf, Best
  <2>6. QED
    BY <2>2, <2>5 DEF SelectionInv
<1>3. QED
  BY <1>1, <1>2

LEMMA VulkanInv ==
  ASSUME SelectionInv, TryVulkan \/ PickVulkanDevice \/ VulkanStep \/ SelfTestPasses
  PROVE  SelectionInv'
<1>1. CASE TryVulkan
  <2>1. PICK outcome \in {"absent", "trying"} :
          tried' = [tried EXCEPT !["vulkan"] = outcome]
    BY <1>1 DEF TryVulkan, Outcomes
  <2>2. SelectionTypeOK' /\ TriedInOrder' /\ Decided'
    BY <1>1, <2>1, OutcomeInv DEF TryVulkan, SelectionInv, Backends, Outcome
  <2>3. PicksTheBest'
    BY <1>1 DEF TryVulkan, PicksTheBest
  <2>4. QED
    BY <2>2, <2>3 DEF SelectionInv
<1>2. CASE PickVulkanDevice
  <2>1. vulkan' \in {"device", "absent", "failed"}
    BY <1>2 DEF PickVulkanDevice, PickDevice, DevicePicked, NoDevice, PickFails
  <2>2. PICK outcome \in {"trying", "absent", "failed"} :
          tried' = [tried EXCEPT !["vulkan"] = outcome]
    BY <1>2, <2>1 DEF PickVulkanDevice, Outcomes
  <2>3. SelectionTypeOK' /\ TriedInOrder' /\ Decided'
    BY <1>2, <2>2, OutcomeInv DEF PickVulkanDevice, SelectionInv, Backends, Outcome
  <2>4. tried'["vulkan"] # "untried"
    BY <2>2 DEF SelectionInv, SelectionTypeOK, Backends
  <2>5. Best(device', found', VulkanSuits, VulkanRank)
    BY <1>2, VulkanPickIsBest DEF PickVulkanDevice
  <2>6. PicksTheBest'
    BY <2>4, <2>5 DEF PicksTheBest, BestOf, Best
  <2>7. QED
    BY <2>3, <2>6 DEF SelectionInv
<1>3. CASE VulkanStep
  <2>1. \/ tried' = [tried EXCEPT !["vulkan"] = tried["vulkan"]]
        \/ /\ tried["vulkan"] = "trying"
           /\ tried' = [tried EXCEPT !["vulkan"] = "failed"]
    BY <1>3 DEF VulkanStep, Outcomes
  <2>2. SelectionTypeOK' /\ TriedInOrder' /\ Decided'
    <3>1. CASE tried' = [tried EXCEPT !["vulkan"] = tried["vulkan"]]
      <4>1. tried' = tried /\ choice' = choice /\ selection' = selection
        BY <1>3, <3>1 DEF VulkanStep, SelectionInv, SelectionTypeOK
      <4>2. QED
        BY <4>1 DEF SelectionInv, SelectionTypeOK, TriedInOrder, Decided, Passed
    <3>2. CASE /\ tried["vulkan"] = "trying"
               /\ tried' = [tried EXCEPT !["vulkan"] = "failed"]
      BY <1>3, <3>2, OutcomeInv DEF VulkanStep, SelectionInv, Backends, Outcome
    <3>3. QED
      BY <2>1, <3>1, <3>2
  <2>3. PicksTheBest'
    BY <1>3 DEF VulkanStep, PicksTheBest
  <2>4. QED
    BY <2>2, <2>3 DEF SelectionInv
<1>4. CASE SelfTestPasses
  <2>1. tried' = [tried EXCEPT !["vulkan"] = "created"]
    BY <1>4 DEF SelfTestPasses, Outcomes
  <2>2. SelectionTypeOK' /\ TriedInOrder' /\ Decided'
    BY <1>4, <2>1, OutcomeInv DEF SelfTestPasses, SelectionInv, Backends, Outcome
  <2>3. tried["vulkan"] # "untried" /\ tried'["vulkan"] # "untried"
    BY <1>4, <2>1 DEF SelfTestPasses, SelectionInv, SelectionTypeOK, Backends
  <2>4. PicksTheBest'
    BY <1>4, <2>3 DEF SelfTestPasses, SelectionInv, PicksTheBest, BestOf
  <2>5. QED
    BY <2>2, <2>4 DEF SelectionInv
<1>5. QED
  BY <1>1, <1>2, <1>3, <1>4

LEMMA SelectInv ==
  ASSUME SelectionInv, Select
  PROVE  SelectionInv'
<1>1. UNCHANGED << choice, tried, found, device >>
  BY DEF Select
<1>2. SelectionTypeOK' /\ TriedInOrder'
  BY <1>1 DEF Select, SelectionInv, SelectionTypeOK, TriedInOrder, Passed
<1>3. Decided'
  BY <1>1 DEF Select, SelectionInv, SelectionTypeOK, Decided, Passed, Backends,
              Choice
<1>4. PicksTheBest'
  BY <1>1 DEF SelectionInv, PicksTheBest, BestOf
<1>5. QED
  BY <1>2, <1>3, <1>4 DEF SelectionInv

(* The selection is the table's for every set of devices, on the best      *)
(* device that the drivers list.                                           *)
THEOREM SelectionIsResolved == StartupSpec => []SelectsAsResolved
<1>1. StartupInit => SelectionInv
  BY DEF StartupInit, SelectionInv, SelectionTypeOK, TriedInOrder, Decided,
         PicksTheBest, Backends, Choice, Outcome, Passed
<1>2. SelectionInv /\ [StartupNext]_<< own, objects >> => SelectionInv'
  <2> SUFFICES ASSUME SelectionInv, [StartupNext]_<< own, objects >>
               PROVE  SelectionInv'
    OBVIOUS
  <2>1. CASE Terminated \/ UNCHANGED << own, objects >>
    <3>1. UNCHANGED << choice, tried, found, device, selection >>
      BY <2>1 DEF Terminated, own
    <3>2. QED
      BY <3>1 DEF SelectionInv, SelectionTypeOK, TriedInOrder, Decided, Passed,
                  PicksTheBest, BestOf
  <2>2. QED
    BY <2>1, TryInv, VulkanInv, SelectInv DEF StartupNext
<1>3. SelectionInv => SelectsAsResolved
  BY DecidedIsResolved DEF SelectionInv, SelectsAsResolved
<1>4. QED
  BY <1>1, <1>2, <1>3, PTL DEF StartupSpec

-----------------------------------------------------------------------------
(***************************************************************************)
(* The plans, as what is made or dropped at a place of them.               *)
(***************************************************************************)
SharedKinds == {"command pool", "descriptor layout", "descriptor pool",
                "pipeline layout", "shader", "pipeline"}

(* What create_backend makes at a place: for the first six what needs no   *)
(* buffer, then the table and its staging buffer, then a slot's object.    *)
LEMMA PlannedObject ==
  ASSUME NEW k \in 1 .. PlanLength
  PROVE  \/ k <= 6 /\ \E kind \in SharedKinds : Plan(k) = Shared(kind)
         \/ k = 7 /\ Plan(k) = Table
         \/ k = 8 /\ Plan(k) = Staging
         \/ /\ k > 8
            /\ \E s \in ObjectSlot :
                 \/ k = 3 * s + 6 /\ Plan(k) = Keys(s)
                 \/ k = 3 * s + 7 /\ Plan(k) = Addresses(s)
                 \/ k = 3 * s + 8 /\ Plan(k) = Fence(s)
<1>1. Inflight \in Nat \ {0} /\ k \in Nat
  BY StartupAssumption DEF PlanLength
<1>2. CASE k <= 8
  <2>1. k \in 1 .. 6 \/ k = 7 \/ k = 8
    BY <1>1, <1>2
  <2>2. \A i \in 1 .. 6 : \E kind \in SharedKinds : SharedPlan[i] = Shared(kind)
    <3>1. /\ SharedPlan[1] = Shared("command pool")
          /\ SharedPlan[2] = Shared("descriptor layout")
          /\ SharedPlan[3] = Shared("descriptor pool")
          /\ SharedPlan[4] = Shared("pipeline layout")
          /\ SharedPlan[5] = Shared("shader")
          /\ SharedPlan[6] = Shared("pipeline")
      BY DEF SharedPlan
    <3>2. \A i \in 1 .. 6 : i \in {1, 2, 3, 4, 5, 6}
      OBVIOUS
    <3>3. QED
      BY <3>1, <3>2 DEF SharedKinds
  <2>3. SharedPlan[7] = Table /\ SharedPlan[8] = Staging
    BY DEF SharedPlan
  <2>4. QED
    BY <1>2, <2>1, <2>2, <2>3 DEF Plan
<1>3. CASE k > 8
  <2>1. PICK s \in ObjectSlot : s = (k - 6) \div 3
    BY <1>1, <1>3 DEF PlanLength, ObjectSlot
  <2>2. s \in Nat /\ (k - 6) % 3 \in 0 .. 2 /\ k - 6 = 3 * s + ((k - 6) % 3)
    BY <1>1, <1>3, <2>1 DEF ObjectSlot
  <2>3. Plan(k) = SlotPlan(s)[1 + ((k - 6) % 3)]
    BY <1>1, <1>3, <2>1 DEF Plan
  <2>4. CASE (k - 6) % 3 = 0
    BY <1>1, <1>3, <2>2, <2>3, <2>4 DEF SlotPlan
  <2>5. CASE (k - 6) % 3 = 1
    BY <1>1, <1>3, <2>2, <2>3, <2>5 DEF SlotPlan
  <2>6. CASE (k - 6) % 3 = 2
    BY <1>1, <1>3, <2>2, <2>3, <2>6 DEF SlotPlan
  <2>7. QED
    BY <2>2, <2>4, <2>5, <2>6
<1>4. QED
  BY <1>1, <1>2, <1>3

(* What Drop destroys at a place: a slot's objects, its fence first, then  *)
(* what the slots share.                                                   *)
LEMMA DroppedObject ==
  ASSUME NEW k \in 1 .. DropLength
  PROVE  \/ \E s \in ObjectSlot :
              /\ 5 * s - 4 <= k /\ k <= 5 * s
              /\ k = 5 * s - 4 => DropPlan(k) = Fence(s)
              /\ k # 5 * s - 4 => DropPlan(k) \in Both(Keys(s)) \union Both(Addresses(s))
         \/ /\ k > 5 * Inflight
            /\ \/ DropPlan(k) \in Both(Table) \union {LogicalDevice, Instance}
               \/ \E kind \in SharedKinds : DropPlan(k) = Shared(kind)
<1>1. Inflight \in Nat \ {0} /\ k \in Nat
  BY StartupAssumption DEF DropLength
<1>2. CASE k <= 5 * Inflight
  <2>1. PICK s \in ObjectSlot : s = (k + 4) \div 5
    BY <1>1, <1>2 DEF ObjectSlot
  <2>2. s \in Nat /\ (k + 4) % 5 \in 0 .. 4 /\ k + 4 = 5 * s + ((k + 4) % 5)
    BY <1>1, <2>1 DEF ObjectSlot
  <2>3. DropPlan(k) = SlotDrop(s)[1 + ((k + 4) % 5)]
    BY <1>1, <1>2, <2>1 DEF DropPlan
  <2>4. (k + 4) % 5 \in {0, 1, 2, 3, 4}
    BY <2>2
  <2>5. /\ (k + 4) % 5 = 0 => DropPlan(k) = Fence(s)
        /\ (k + 4) % 5 # 0 => DropPlan(k) \in Both(Keys(s)) \union Both(Addresses(s))
    BY <2>3, <2>4 DEF SlotDrop, Both
  <2>6. QED
    BY <1>1, <2>2, <2>5
<1>3. CASE k > 5 * Inflight
  <2>1. k - 5 * Inflight \in {1, 2, 3, 4, 5, 6, 7, 8, 9, 10}
    BY <1>1, <1>3 DEF DropLength
  <2>2. DropPlan(k) = SharedDrop[k - 5 * Inflight]
    BY <1>1, <1>3 DEF DropPlan
  <2>3. /\ \A i \in {1, 2} : SharedDrop[i] \in Both(Table)
        /\ \A i \in 3 .. 8 : \E kind \in SharedKinds : SharedDrop[i] = Shared(kind)
        /\ \A i \in {9, 10} : SharedDrop[i] \in {LogicalDevice, Instance}
    <3>1. /\ SharedDrop[1] = Table
          /\ SharedDrop[2] = MemoryOf(Table)
          /\ SharedDrop[3] = Shared("pipeline")
          /\ SharedDrop[4] = Shared("pipeline layout")
          /\ SharedDrop[5] = Shared("shader")
          /\ SharedDrop[6] = Shared("descriptor pool")
          /\ SharedDrop[7] = Shared("descriptor layout")
          /\ SharedDrop[8] = Shared("command pool")
          /\ SharedDrop[9] = LogicalDevice
          /\ SharedDrop[10] = Instance
      BY DEF SharedDrop
    <3>2. \A i \in 3 .. 8 : i \in {3, 4, 5, 6, 7, 8}
      OBVIOUS
    <3>3. \A i \in 3 .. 8 : \E kind \in SharedKinds : SharedDrop[i] = Shared(kind)
      BY <3>1, <3>2 DEF SharedKinds
    <3>4. QED
      BY <3>1, <3>3 DEF Both
  <2>4. k - 5 * Inflight \in {1, 2} \union (3 .. 8) \union {9, 10}
    BY <2>1
  <2>5. QED
    BY <1>3, <2>2, <2>3, <2>4
<1>4. QED
  BY <1>1, <1>2, <1>3
-----------------------------------------------------------------------------
(***************************************************************************)
(* The invariant.  It follows create_backend and Drop through their plans. *)
(***************************************************************************)
(* What the fields hold when the k-th object is about to be made,          *)
Fields(k) ==
  {Instance, LogicalDevice} \union UNION {FieldsOf(Plan(i)) : i \in 1 .. k - 1}

(* and what else there is: the buffers of a slot without its fence, and    *)
(* what create_buffer has made so far.                                     *)
Partial(o, step) ==
  CASE step = "object" -> {} [] step = "memory" -> {o} [] OTHER -> Both(o)

Unfenced(k) ==
  (IF k > 8 /\ (k - 6) % 3 > 0 THEN Both(Keys((k - 6) \div 3)) ELSE {})
    \union (IF k > 8 /\ (k - 6) % 3 = 2 THEN Both(Addresses((k - 6) \div 3)) ELSE {})

Loose(k, step) == Unfenced(k) \union Partial(Plan(k), step)

(* What Drop has still to destroy at a place of its plan.                  *)
Remaining(k) == {DropPlan(i) : i \in k .. DropLength}

(* What may be left of a backend that no field held.                       *)
Tidy(rest) ==
  \/ rest = {}
  \/ rest = Both(Staging)
  \/ \E s \in ObjectSlot : rest \subseteq Both(Keys(s)) \union Both(Addresses(s))

Early == {"idle", "absent", "pick", "device"}

Copying == {"copy", "wait"}

ObjectsTypeOK ==
  /\ vulkan \in Early \union Copying
                  \union {"create", "ready", "wait idle", "drop", "dropped", "failed"}
  /\ at \in Nat
  /\ making \in {"object", "memory", "bind", "map"}
  /\ rebar \in BOOLEAN /\ whole \in BOOLEAN
  /\ submitted \subseteq ObjectSlot
  /\ running \subseteq {0} \union ObjectSlot

InstanceOnly ==
  vulkan \in Early =>
    /\ live = IF vulkan \in {"pick", "device"} THEN {Instance} ELSE {}
    /\ owned = {} /\ making = "object"

InCreation ==
  vulkan \in Copying \union {"create"} =>
    /\ at \in 1 .. PlanLength
    /\ owned = Fields(at)
    /\ live = Fields(at) \union Loose(at, IF vulkan = "create" THEN making ELSE "map")
    /\ making # "object" => IsBuffer(Plan(at))
    /\ vulkan \in Copying => at = 8 /\ making = "object"

Complete ==
  vulkan = "ready" => owned = Fields(PlanLength + 1) /\ live = owned

InDrop ==
  vulkan \in {"wait idle", "drop"} =>
    /\ Tidy(live \ owned)
    /\ whole => live = owned
    /\ vulkan = "wait idle" => owned \subseteq Remaining(1)
    /\ vulkan = "drop" => at \in 1 .. DropLength /\ owned \subseteq Remaining(at)

(* Only a finished backend is used, and only Drop leaves a doubt.          *)
Uses ==
  /\ vulkan \in Early \union Copying \union {"create", "failed"} => ~ whole
  /\ vulkan \in {"ready", "dropped"} => whole
  /\ ~ whole => submitted = {}
  /\ vulkan \notin {"drop", "dropped", "failed"} => unsure = {}

(* The copy runs before Drop's loop, and a slot's batch until its fence    *)
(* is reached.                                                             *)
Busy(work) ==
  /\ UsedBy(work) \subseteq live
  /\ IF work = 0
       THEN vulkan \in {"wait", "wait idle"}
       ELSE /\ vulkan \in {"ready", "wait idle", "drop"}
            /\ whole
            /\ work \in submitted
            /\ UsedBy(work) \subseteq owned
            /\ vulkan = "drop" => at <= 5 * work - 4

ObjectsInv ==
  /\ ObjectsTypeOK
  /\ InstanceOnly /\ InCreation /\ Complete /\ InDrop
  /\ NothingLeft
  /\ Uses
  /\ \A work \in running \ unsure : Busy(work)
-----------------------------------------------------------------------------
(***************************************************************************)
(* The steps of the plans.                                                 *)
(***************************************************************************)
LEMMA InflightPositive == Inflight \in Nat \ {0}
  BY StartupAssumption

LEMMA FieldsFirst == Fields(1) = {Instance, LogicalDevice}
  BY DEF Fields

LEMMA FieldsStep ==
  ASSUME NEW k \in 1 .. PlanLength
  PROVE  Fields(k + 1) = Fields(k) \union FieldsOf(Plan(k))
<1>1. k \in Nat /\ k + 1 - 1 = k
  BY InflightPositive DEF PlanLength
<1>2. 1 .. k = (1 .. k - 1) \union {k}
  BY <1>1
<1>3. QED
  BY <1>1, <1>2 DEF Fields

(* What becomes a field when an object is ready.                           *)
LEMMA FieldsOfObject ==
  /\ \A kind \in SharedKinds : /\ ~ IsBuffer(Shared(kind))
                               /\ FieldsOf(Shared(kind)) = {Shared(kind)}
  /\ IsBuffer(Table) /\ FieldsOf(Table) = Both(Table)
  /\ IsBuffer(Staging) /\ FieldsOf(Staging) = {}
  /\ \A s \in ObjectSlot :
       /\ IsBuffer(Keys(s)) /\ FieldsOf(Keys(s)) = {}
       /\ IsBuffer(Addresses(s)) /\ FieldsOf(Addresses(s)) = {}
       /\ ~ IsBuffer(Fence(s))
       /\ FieldsOf(Fence(s)) =
            Both(Keys(s)) \union Both(Addresses(s)) \union {Fence(s)}
<1>1. ASSUME NEW kind \in SharedKinds
      PROVE  /\ ~ IsBuffer(Shared(kind))
             /\ FieldsOf(Shared(kind)) = {Shared(kind)}
  BY <1>1 DEF SharedKinds, IsBuffer, FieldsOf, Shared, Object, Table
<1>2. IsBuffer(Table) /\ FieldsOf(Table) = Both(Table)
  BY DEF IsBuffer, FieldsOf, Shared, Object, Table
<1>3. IsBuffer(Staging) /\ FieldsOf(Staging) = {}
  BY DEF IsBuffer, FieldsOf, Shared, Object, Table, Staging
<1>4. ASSUME NEW s \in ObjectSlot
      PROVE  /\ IsBuffer(Keys(s)) /\ FieldsOf(Keys(s)) = {}
             /\ IsBuffer(Addresses(s)) /\ FieldsOf(Addresses(s)) = {}
  BY DEF IsBuffer, FieldsOf, Shared, Object, Table, Keys, Addresses
<1>5. ASSUME NEW s \in ObjectSlot
      PROVE  /\ ~ IsBuffer(Fence(s))
             /\ FieldsOf(Fence(s)) =
                  Both(Keys(s)) \union Both(Addresses(s)) \union {Fence(s)}
  BY DEF IsBuffer, FieldsOf, Object, Fence
<1>6. QED
  BY <1>1, <1>2, <1>3, <1>4, <1>5

(* Every field is of an object that came before.                           *)
LEMMA FieldsAre ==
  ASSUME NEW k \in 1 .. PlanLength + 1, NEW x \in Fields(k)
  PROVE  \/ x \in {Instance, LogicalDevice}
         \/ \E kind \in SharedKinds : x = Shared(kind)
         \/ k > 7 /\ x \in Both(Table)
         \/ \E s \in ObjectSlot :
              k > 3 * s + 8 /\ x \in FieldsOf(Fence(s))
<1>1. k \in Nat /\ PlanLength \in Nat
  BY InflightPositive DEF PlanLength
<1>2. SUFFICES ASSUME x \notin {Instance, LogicalDevice}
               PROVE  \/ \E kind \in SharedKinds : x = Shared(kind)
                      \/ k > 7 /\ x \in Both(Table)
                      \/ \E s \in ObjectSlot :
                           k > 3 * s + 8 /\ x \in FieldsOf(Fence(s))
  OBVIOUS
<1>3. PICK i \in 1 .. k - 1 : x \in FieldsOf(Plan(i))
  BY <1>2 DEF Fields
<1>4. i \in 1 .. PlanLength /\ i < k /\ i \in Nat
  BY <1>1
<1>5. CASE i <= 6 /\ \E kind \in SharedKinds : Plan(i) = Shared(kind)
  BY <1>3, <1>5, FieldsOfObject
<1>6. CASE i = 7 /\ Plan(i) = Table
  BY <1>1, <1>3, <1>4, <1>6, FieldsOfObject
<1>7. CASE i = 8 /\ Plan(i) = Staging
  BY <1>3, <1>7, FieldsOfObject
<1>8. ASSUME NEW s \in ObjectSlot,
             \/ i = 3 * s + 6 /\ Plan(i) = Keys(s)
             \/ i = 3 * s + 7 /\ Plan(i) = Addresses(s)
             \/ i = 3 * s + 8 /\ Plan(i) = Fence(s)
      PROVE  \E t \in ObjectSlot : k > 3 * t + 8 /\ x \in FieldsOf(Fence(t))
  <2>1. Plan(i) # Keys(s) /\ Plan(i) # Addresses(s)
    BY <1>3, FieldsOfObject
  <2>2. i = 3 * s + 8 /\ Plan(i) = Fence(s)
    BY <1>8, <2>1
  <2>3. k > 3 * s + 8
    BY <1>1, <1>4, <2>2 DEF ObjectSlot
  <2>4. QED
    BY <1>3, <2>2, <2>3
<1>9. QED
  BY <1>4, <1>5, <1>6, <1>7, <1>8, PlannedObject

(* All of them are in Drop's plan.                                         *)
LEMMA DropHasSlot ==
  ASSUME NEW s \in ObjectSlot
  PROVE  /\ 5 * s - 4 \in 1 .. DropLength
         /\ DropPlan(5 * s - 4) = Fence(s)
         /\ Both(Keys(s)) \union Both(Addresses(s)) \subseteq Remaining(1)
<1>1. s \in Nat /\ Inflight \in Nat /\ s >= 1 /\ s <= Inflight
  BY InflightPositive DEF ObjectSlot
<1>2. ASSUME NEW d \in 0 .. 4
      PROVE  /\ 5 * s - 4 + d \in 1 .. DropLength
             /\ DropPlan(5 * s - 4 + d) = SlotDrop(s)[1 + d]
  <2>1. /\ 5 * s - 4 + d <= 5 * Inflight
        /\ (5 * s - 4 + d + 4) \div 5 = s
        /\ (5 * s - 4 + d + 4) % 5 = d
    BY <1>1
  <2>2. QED
    BY <1>1, <2>1 DEF DropPlan, DropLength
<1>3. /\ SlotDrop(s)[1] = Fence(s)
      /\ SlotDrop(s)[2] = Keys(s)
      /\ SlotDrop(s)[3] = MemoryOf(Keys(s))
      /\ SlotDrop(s)[4] = Addresses(s)
      /\ SlotDrop(s)[5] = MemoryOf(Addresses(s))
  BY DEF SlotDrop
<1>4. ASSUME NEW d \in 0 .. 4
      PROVE  SlotDrop(s)[1 + d] \in Remaining(1)
  BY <1>2 DEF Remaining
<1>5. 5 * s - 4 \in 1 .. DropLength /\ DropPlan(5 * s - 4) = Fence(s)
  <2>1. 5 * s - 4 + 0 = 5 * s - 4
    BY <1>1
  <2>2. QED
    BY <1>2, <1>3, <2>1
<1>6. /\ Keys(s) \in Remaining(1) /\ MemoryOf(Keys(s)) \in Remaining(1)
      /\ Addresses(s) \in Remaining(1) /\ MemoryOf(Addresses(s)) \in Remaining(1)
  <2>1. 1 + 1 = 2 /\ 1 + 2 = 3 /\ 1 + 3 = 4 /\ 1 + 4 = 5
    OBVIOUS
  <2>2. SlotDrop(s)[1 + 1] \in Remaining(1) /\ SlotDrop(s)[1 + 2] \in Remaining(1)
    BY <1>4
  <2>3. SlotDrop(s)[1 + 3] \in Remaining(1) /\ SlotDrop(s)[1 + 4] \in Remaining(1)
    BY <1>4
  <2>4. QED
    BY <1>3, <2>1, <2>2, <2>3
<1>7. QED
  BY <1>5, <1>6 DEF Both

LEMMA DropHasShared ==
  /\ \A kind \in SharedKinds : Shared(kind) \in Remaining(1)
  /\ Both(Table) \union {LogicalDevice, Instance} \subseteq Remaining(1)
<1>1. ASSUME NEW i \in 1 .. 10
      PROVE  SharedDrop[i] \in Remaining(1)
  <2>1. /\ 5 * Inflight + i \in 1 .. DropLength
        /\ DropPlan(5 * Inflight + i) = SharedDrop[i]
    BY InflightPositive DEF DropLength, DropPlan
  <2>2. QED
    BY <2>1 DEF Remaining
<1>2. /\ SharedDrop[1] = Table
      /\ SharedDrop[2] = MemoryOf(Table)
      /\ SharedDrop[3] = Shared("pipeline")
      /\ SharedDrop[4] = Shared("pipeline layout")
      /\ SharedDrop[5] = Shared("shader")
      /\ SharedDrop[6] = Shared("descriptor pool")
      /\ SharedDrop[7] = Shared("descriptor layout")
      /\ SharedDrop[8] = Shared("command pool")
      /\ SharedDrop[9] = LogicalDevice
      /\ SharedDrop[10] = Instance
  BY DEF SharedDrop
<1>3. \A i \in {1, 2, 3, 4, 5, 6, 7, 8, 9, 10} : SharedDrop[i] \in Remaining(1)
  BY <1>1
<1>4. \A kind \in SharedKinds : Shared(kind) \in Remaining(1)
  BY <1>2, <1>3 DEF SharedKinds
<1>5. /\ Table \in Remaining(1) /\ MemoryOf(Table) \in Remaining(1)
      /\ LogicalDevice \in Remaining(1) /\ Instance \in Remaining(1)
  BY <1>2, <1>3
<1>6. QED
  BY <1>4, <1>5 DEF Both

LEMMA FieldsAreDropped ==
  ASSUME NEW k \in 1 .. PlanLength + 1
  PROVE  Fields(k) \subseteq Remaining(1)
<1>1. SUFFICES ASSUME NEW x \in Fields(k) PROVE x \in Remaining(1)
  OBVIOUS
<1>2. ASSUME NEW s \in ObjectSlot, x \in FieldsOf(Fence(s))
      PROVE  x \in Remaining(1)
  <2>1. Fence(s) \in Remaining(1)
    BY DropHasSlot DEF Remaining
  <2>2. QED
    BY <1>2, <2>1, DropHasSlot, FieldsOfObject
<1>3. QED
  BY <1>2, FieldsAre, DropHasShared
LEMMA UnfencedIs ==
  ASSUME NEW k \in Nat
  PROVE  /\ k <= 8 => Unfenced(k) = {}
         /\ \A s \in Nat \ {0} :
              /\ k = 3 * s + 6 => Unfenced(k) = {}
              /\ k = 3 * s + 7 => Unfenced(k) = Both(Keys(s))
              /\ k = 3 * s + 8 => Unfenced(k) = Both(Keys(s)) \union Both(Addresses(s))
<1>1. k <= 8 => Unfenced(k) = {}
  BY DEF Unfenced
<1>2. ASSUME NEW s \in Nat \ {0}, k = 3 * s + 6
      PROVE  Unfenced(k) = {}
  <2>1. (k - 6) % 3 = 0
    BY <1>2
  <2>2. QED
    BY <2>1 DEF Unfenced
<1>3. ASSUME NEW s \in Nat \ {0}, k = 3 * s + 7
      PROVE  Unfenced(k) = Both(Keys(s))
  <2>1. k > 8 /\ (k - 6) % 3 = 1 /\ (k - 6) \div 3 = s
    BY <1>3
  <2>2. QED
    BY <2>1 DEF Unfenced
<1>4. ASSUME NEW s \in Nat \ {0}, k = 3 * s + 8
      PROVE  Unfenced(k) = Both(Keys(s)) \union Both(Addresses(s))
  <2>1. k > 8 /\ (k - 6) % 3 = 2 /\ (k - 6) \div 3 = s
    BY <1>4
  <2>2. QED
    BY <2>1 DEF Unfenced
<1>5. QED
  BY <1>1, <1>2, <1>3, <1>4

(* The kind and the slot of a field tell where in the plan it came from.   *)
LEMMA KindAndSlot ==
  /\ \A o : \A x \in Both(o) : x[1] = o[1] /\ x[2] = o[2]
  /\ \A kind, s : Object(kind, s)[1] = kind /\ Object(kind, s)[2] = s
<1>1. ASSUME NEW o, NEW x \in Both(o)
      PROVE  x[1] = o[1] /\ x[2] = o[2]
  BY DEF Both, MemoryOf
<1>2. QED
  BY <1>1 DEF Object

LEMMA FieldKinds ==
  ASSUME NEW k \in 1 .. PlanLength + 1, NEW x \in Fields(k)
  PROVE  \/ x[1] \in {"instance", "device"} \union SharedKinds
         \/ k > 7 /\ x[1] = "table"
         \/ /\ x[1] \in {"keys", "addresses", "fence"}
            /\ x[2] \in ObjectSlot /\ k > 3 * x[2] + 8
<1>1. CASE x \in {Instance, LogicalDevice}
  BY <1>1, KindAndSlot DEF Instance, LogicalDevice, Shared
<1>2. CASE \E kind \in SharedKinds : x = Shared(kind)
  BY <1>2, KindAndSlot DEF Shared
<1>3. CASE k > 7 /\ x \in Both(Table)
  BY <1>3, KindAndSlot DEF Table, Shared
<1>4. ASSUME NEW s \in ObjectSlot, k > 3 * s + 8, x \in FieldsOf(Fence(s))
      PROVE  x[1] \in {"keys", "addresses", "fence"} /\ x[2] = s
  <2>1. x \in Both(Keys(s)) \/ x \in Both(Addresses(s)) \/ x = Fence(s)
    BY <1>4, FieldsOfObject
  <2>2. QED
    BY <2>1, KindAndSlot DEF Keys, Addresses, Fence
<1>5. QED
  BY <1>1, <1>2, <1>3, <1>4, FieldsAre

(* The buffer that is being made is no field yet, nor one of its slot's    *)
(* other buffers.                                                          *)
LEMMA FreshBuffer ==
  ASSUME NEW k \in 1 .. PlanLength, IsBuffer(Plan(k))
  PROVE  Both(Plan(k)) \intersect (Fields(k) \union Unfenced(k)) = {}
<1>1. k \in Nat /\ k \in 1 .. PlanLength + 1
  BY InflightPositive DEF PlanLength
<1>2. SUFFICES ASSUME NEW x \in Both(Plan(k)), x \in Fields(k) \union Unfenced(k)
               PROVE  FALSE
  OBVIOUS
<1>3. x[1] = Plan(k)[1] /\ x[2] = Plan(k)[2]
  BY <1>2, KindAndSlot
<1> DEFINE Came == \/ x[1] \in {"instance", "device"} \union SharedKinds
                   \/ k > 7 /\ x[1] = "table"
                   \/ /\ x[1] \in {"keys", "addresses", "fence"}
                      /\ x[2] \in ObjectSlot /\ k > 3 * x[2] + 8
<1>4. x \in Fields(k) => Came
  BY <1>1, FieldKinds
<1>5. ASSUME NEW kind \in SharedKinds
      PROVE  Plan(k) # Shared(kind)
  BY FieldsOfObject
<1>6. CASE k = 7 /\ Plan(k) = Table
  <2>1. Unfenced(k) = {} /\ x[1] = "table"
    BY <1>1, <1>3, <1>6, UnfencedIs, KindAndSlot DEF Table, Shared
  <2>2. QED
    BY <1>2, <1>4, <1>6, <2>1 DEF SharedKinds
<1>7. CASE k = 8 /\ Plan(k) = Staging
  <2>1. Unfenced(k) = {} /\ x[1] = "staging"
    BY <1>1, <1>3, <1>7, UnfencedIs, KindAndSlot DEF Staging, Shared
  <2>2. QED
    BY <1>2, <1>4, <2>1 DEF SharedKinds
<1>8. ASSUME NEW s \in ObjectSlot, k = 3 * s + 6, Plan(k) = Keys(s)
      PROVE  FALSE
  <2>1. s \in Nat \ {0}
    BY InflightPositive DEF ObjectSlot
  <2>2. Unfenced(k) = {} /\ x[1] = "keys" /\ x[2] = s
    BY <1>1, <1>3, <1>8, <2>1, UnfencedIs, KindAndSlot DEF Keys
  <2>3. ~ k > 3 * s + 8
    BY <1>8, <2>1
  <2>4. QED
    BY <1>2, <1>4, <2>2, <2>3 DEF SharedKinds
<1>9. ASSUME NEW s \in ObjectSlot, k = 3 * s + 7, Plan(k) = Addresses(s)
      PROVE  FALSE
  <2>1. s \in Nat \ {0}
    BY InflightPositive DEF ObjectSlot
  <2>2. Unfenced(k) = Both(Keys(s)) /\ x[1] = "addresses" /\ x[2] = s
    BY <1>1, <1>3, <1>9, <2>1, UnfencedIs, KindAndSlot DEF Addresses
  <2>3. ~ k > 3 * s + 8
    BY <1>9, <2>1
  <2>4. x \notin Both(Keys(s))
    BY <2>2, KindAndSlot DEF Keys
  <2>5. QED
    BY <1>2, <1>4, <2>2, <2>3, <2>4 DEF SharedKinds
<1>10. \A s \in ObjectSlot : Plan(k) # Fence(s)
  BY FieldsOfObject
<1>11. QED
  BY <1>5, <1>6, <1>7, <1>8, <1>9, <1>10, PlannedObject

(* When an object is ready, what there is is what the next one starts      *)
(* from: for the staging buffer only once it is destroyed.                 *)
LEMMA ObjectReady ==
  ASSUME NEW k \in 1 .. PlanLength,
         NEW made, made = IF IsBuffer(Plan(k)) THEN Both(Plan(k)) ELSE {Plan(k)}
  PROVE  IF k = 8
           THEN /\ made = Both(Staging)
                /\ Fields(k + 1) = Fields(k)
                /\ Unfenced(k) = {} /\ Unfenced(k + 1) = {}
           ELSE Fields(k + 1) \union Unfenced(k + 1) =
                  Fields(k) \union Unfenced(k) \union made
<1>1. k \in Nat /\ k + 1 \in Nat
  BY InflightPositive DEF PlanLength
<1>2. Fields(k + 1) = Fields(k) \union FieldsOf(Plan(k))
  BY FieldsStep
<1>3. 9 = 3 * 1 + 6
  OBVIOUS
<1>4. CASE k <= 6 /\ \E kind \in SharedKinds : Plan(k) = Shared(kind)
  <2>1. Unfenced(k) = {} /\ Unfenced(k + 1) = {}
    BY <1>1, <1>4, UnfencedIs
  <2>2. FieldsOf(Plan(k)) = made /\ k # 8
    BY <1>1, <1>4, FieldsOfObject
  <2>3. QED
    BY <1>2, <2>1, <2>2
<1>5. CASE k = 7 /\ Plan(k) = Table
  <2>1. Unfenced(k) = {} /\ Unfenced(k + 1) = {}
    BY <1>1, <1>5, UnfencedIs
  <2>2. FieldsOf(Plan(k)) = made
    BY <1>5, FieldsOfObject
  <2>3. QED
    BY <1>2, <1>5, <2>1, <2>2
<1>6. CASE k = 8 /\ Plan(k) = Staging
  <2>1. Unfenced(k) = {} /\ Unfenced(k + 1) = {}
    BY <1>1, <1>3, <1>6, UnfencedIs
  <2>2. FieldsOf(Plan(k)) = {} /\ made = Both(Staging)
    BY <1>6, FieldsOfObject
  <2>3. QED
    BY <1>2, <1>6, <2>1, <2>2
<1>7. ASSUME NEW s \in ObjectSlot, k = 3 * s + 6, Plan(k) = Keys(s)
      PROVE  k # 8 /\ Fields(k + 1) \union Unfenced(k + 1) =
                        Fields(k) \union Unfenced(k) \union made
  <2>1. s \in Nat \ {0} /\ k + 1 = 3 * s + 7 /\ k # 8
    BY <1>7, InflightPositive DEF ObjectSlot
  <2>2. Unfenced(k) = {} /\ Unfenced(k + 1) = Both(Keys(s))
    BY <1>1, <1>7, <2>1, UnfencedIs
  <2>3. FieldsOf(Plan(k)) = {} /\ made = Both(Keys(s))
    BY <1>7, FieldsOfObject
  <2>4. QED
    BY <1>2, <2>1, <2>2, <2>3
<1>8. ASSUME NEW s \in ObjectSlot, k = 3 * s + 7, Plan(k) = Addresses(s)
      PROVE  k # 8 /\ Fields(k + 1) \union Unfenced(k + 1) =
                        Fields(k) \union Unfenced(k) \union made
  <2>1. s \in Nat \ {0} /\ k + 1 = 3 * s + 8 /\ k # 8
    BY <1>8, InflightPositive DEF ObjectSlot
  <2>2. /\ Unfenced(k) = Both(Keys(s))
        /\ Unfenced(k + 1) = Both(Keys(s)) \union Both(Addresses(s))
    BY <1>1, <1>8, <2>1, UnfencedIs
  <2>3. FieldsOf(Plan(k)) = {} /\ made = Both(Addresses(s))
    BY <1>8, FieldsOfObject
  <2>4. QED
    BY <1>2, <2>1, <2>2, <2>3
<1>9. ASSUME NEW s \in ObjectSlot, k = 3 * s + 8, Plan(k) = Fence(s)
      PROVE  k # 8 /\ Fields(k + 1) \union Unfenced(k + 1) =
                        Fields(k) \union Unfenced(k) \union made
  <2>1. /\ s \in Nat \ {0} /\ s + 1 \in Nat \ {0}
        /\ k + 1 = 3 * (s + 1) + 6 /\ k # 8
    BY <1>9, InflightPositive DEF ObjectSlot
  <2>2. /\ Unfenced(k) = Both(Keys(s)) \union Both(Addresses(s))
        /\ Unfenced(k + 1) = {}
    BY <1>1, <1>9, <2>1, UnfencedIs
  <2>3. /\ FieldsOf(Plan(k)) = Both(Keys(s)) \union Both(Addresses(s)) \union {Fence(s)}
        /\ made = {Fence(s)}
    BY <1>9, FieldsOfObject
  <2>4. QED
    BY <1>2, <2>1, <2>2, <2>3
<1>10. QED
  BY <1>4, <1>5, <1>6, <1>7, <1>8, <1>9, PlannedObject

LEMMA PlanEnds == Unfenced(PlanLength + 1) = {}
<1>1. /\ Inflight + 1 \in Nat \ {0} /\ PlanLength + 1 \in Nat
      /\ PlanLength + 1 = 3 * (Inflight + 1) + 6
  BY InflightPositive DEF PlanLength
<1>2. QED
  BY <1>1, UnfencedIs

(* Drop goes through its plan.                                             *)
LEMMA RemainingStep ==
  ASSUME NEW k \in 1 .. DropLength
  PROVE  /\ Remaining(k) \ {DropPlan(k)} \subseteq Remaining(k + 1)
         /\ k = DropLength => Remaining(k + 1) = {}
<1>1. k \in Nat /\ DropLength \in Nat
  BY InflightPositive DEF DropLength
<1>2. \A i \in k .. DropLength : i = k \/ i \in k + 1 .. DropLength
  BY <1>1
<1>3. k = DropLength => k + 1 .. DropLength = {}
  BY <1>1
<1>4. QED
  BY <1>2, <1>3 DEF Remaining
-----------------------------------------------------------------------------
(***************************************************************************)
(* What the device uses.                                                   *)
(***************************************************************************)
LEMMA FieldsHave ==
  ASSUME NEW k \in 1 .. PlanLength + 1, NEW i \in 1 .. k - 1
  PROVE  i \in 1 .. PlanLength /\ FieldsOf(Plan(i)) \subseteq Fields(k)
  BY InflightPositive DEF PlanLength, Fields

LEMMA PlanHas ==
  /\ Plan(1) = Shared("command pool") /\ Plan(3) = Shared("descriptor pool")
  /\ Plan(6) = Shared("pipeline") /\ Plan(7) = Table
  /\ \A s \in ObjectSlot : 3 * s + 8 \in 1 .. PlanLength /\ Plan(3 * s + 8) = Fence(s)
<1>1. /\ SharedPlan[1] = Shared("command pool")
      /\ SharedPlan[3] = Shared("descriptor pool")
      /\ SharedPlan[6] = Shared("pipeline") /\ SharedPlan[7] = Table
  BY DEF SharedPlan
<1>2. ASSUME NEW s \in ObjectSlot
      PROVE  3 * s + 8 \in 1 .. PlanLength /\ Plan(3 * s + 8) = Fence(s)
  <2>1. /\ s \in Nat \ {0} /\ s <= Inflight
        /\ ~ 3 * s + 8 <= 8
        /\ (3 * s + 8 - 6) \div 3 = s /\ (3 * s + 8 - 6) % 3 = 2
    BY InflightPositive DEF ObjectSlot
  <2>2. SlotPlan(s)[1 + 2] = Fence(s)
    BY DEF SlotPlan
  <2>3. QED
    BY <2>1, <2>2, InflightPositive DEF Plan, PlanLength
<1>3. \A i \in {1, 3, 6, 7} : Plan(i) = SharedPlan[i]
  BY DEF Plan
<1>4. QED
  BY <1>1, <1>2, <1>3

(* A batch uses only fields of a finished backend, and the copy nothing    *)
(* but the fields so far and the staging buffer.                           *)
LEMMA UsesFields ==
  /\ \A s \in ObjectSlot : UsedBy(s) \subseteq Fields(PlanLength + 1)
  /\ UsedBy(0) \subseteq Fields(8) \union Both(Staging)
<1>1. PlanLength \in Nat /\ PlanLength >= 8 /\ 8 \in 1 .. PlanLength + 1
  BY InflightPositive DEF PlanLength
<1>2. ASSUME NEW k \in 8 .. PlanLength + 1
      PROVE  {Instance, LogicalDevice, Shared("command pool")} \union Both(Table)
               \subseteq Fields(k)
  <2>1. k \in 1 .. PlanLength + 1 /\ 1 \in 1 .. k - 1 /\ 7 \in 1 .. k - 1
    BY <1>1
  <2>2. FieldsOf(Plan(1)) \subseteq Fields(k) /\ FieldsOf(Plan(7)) \subseteq Fields(k)
    BY <2>1, FieldsHave
  <2>3. FieldsOf(Plan(1)) = {Shared("command pool")} /\ FieldsOf(Plan(7)) = Both(Table)
    BY PlanHas, FieldsOfObject DEF SharedKinds
  <2>4. {Instance, LogicalDevice} \subseteq Fields(k)
    BY DEF Fields
  <2>5. QED
    BY <2>2, <2>3, <2>4
<1>3. ASSUME NEW s \in ObjectSlot
      PROVE  UsedBy(s) \subseteq Fields(PlanLength + 1)
  <2>1. s # 0
    BY DEF ObjectSlot
  <2>2. ASSUME NEW i \in 1 .. PlanLength
        PROVE  FieldsOf(Plan(i)) \subseteq Fields(PlanLength + 1)
    BY <1>1, FieldsHave
  <2>3. 3 \in 1 .. PlanLength /\ 6 \in 1 .. PlanLength
    BY <1>1
  <2>4. /\ FieldsOf(Plan(3)) \subseteq Fields(PlanLength + 1)
        /\ FieldsOf(Plan(6)) \subseteq Fields(PlanLength + 1)
        /\ FieldsOf(Plan(3 * s + 8)) \subseteq Fields(PlanLength + 1)
    BY <2>2, <2>3, PlanHas
  <2>5. /\ FieldsOf(Plan(3)) = {Shared("descriptor pool")}
        /\ FieldsOf(Plan(6)) = {Shared("pipeline")}
        /\ FieldsOf(Plan(3 * s + 8)) =
             Both(Keys(s)) \union Both(Addresses(s)) \union {Fence(s)}
    BY PlanHas, FieldsOfObject DEF SharedKinds
  <2>6. PlanLength + 1 \in 8 .. PlanLength + 1
    BY <1>1
  <2>7. QED
    BY <1>2, <2>1, <2>4, <2>5, <2>6 DEF UsedBy
<1>4. 8 \in 8 .. PlanLength + 1
  BY <1>1
<1>5. UsedBy(0) \subseteq Fields(8) \union Both(Staging)
  BY <1>2, <1>4 DEF UsedBy
<1>6. QED
  BY <1>3, <1>5

(* Drop comes to the objects of a slot only after the slots before it.     *)
LEMMA DropSpares ==
  ASSUME NEW k \in 1 .. DropLength
  PROVE  /\ \A w \in ObjectSlot : k < 5 * w - 4 => DropPlan(k) \notin UsedBy(w)
         /\ DropPlan(k)[1] = "fence" =>
              \E s \in ObjectSlot : k = 5 * s - 4 /\ DropPlan(k) = Fence(s)
<1>1. k \in Nat /\ Inflight \in Nat
  BY InflightPositive DEF DropLength
<1>2. ASSUME NEW s \in ObjectSlot, k = 5 * s - 4 => DropPlan(k) = Fence(s),
             k # 5 * s - 4 => DropPlan(k) \in Both(Keys(s)) \union Both(Addresses(s))
      PROVE  /\ DropPlan(k)[1] \in {"fence", "keys", "addresses"}
             /\ DropPlan(k)[2] = s
             /\ DropPlan(k)[1] = "fence" => k = 5 * s - 4
  BY <1>2, KindAndSlot DEF Keys, Addresses, Fence
<1>3. ASSUME NEW w \in ObjectSlot, NEW x \in UsedBy(w),
             x[1] \in {"fence", "keys", "addresses"}
      PROVE  x[2] = w
  <2>1. w # 0
    BY <1>1 DEF ObjectSlot
  <2>2. x \in {Instance, LogicalDevice, Shared("command pool"), Fence(w),
               Shared("pipeline"), Shared("descriptor pool")}
        \/ x \in Both(Table) \/ x \in Both(Keys(w)) \/ x \in Both(Addresses(w))
    BY <2>1 DEF UsedBy
  <2>3. /\ Instance[1] = "instance" /\ LogicalDevice[1] = "device"
        /\ Shared("command pool")[1] = "command pool"
        /\ Shared("pipeline")[1] = "pipeline"
        /\ Shared("descriptor pool")[1] = "descriptor pool"
    BY KindAndSlot DEF Instance, LogicalDevice, Shared
  <2>4. \A y \in Both(Table) : y[1] = "table"
    BY KindAndSlot DEF Table, Shared
  <2>5. x = Fence(w) \/ x \in Both(Keys(w)) \/ x \in Both(Addresses(w))
    BY <1>3, <2>2, <2>3, <2>4
  <2>6. QED
    BY <2>5, KindAndSlot DEF Fence, Keys, Addresses
<1>4. CASE \E s \in ObjectSlot :
             /\ 5 * s - 4 <= k /\ k <= 5 * s
             /\ k = 5 * s - 4 => DropPlan(k) = Fence(s)
             /\ k # 5 * s - 4 => DropPlan(k) \in Both(Keys(s)) \union Both(Addresses(s))
  <2>1. PICK s \in ObjectSlot :
             /\ 5 * s - 4 <= k /\ k <= 5 * s
             /\ k = 5 * s - 4 => DropPlan(k) = Fence(s)
             /\ k # 5 * s - 4 => DropPlan(k) \in Both(Keys(s)) \union Both(Addresses(s))
    BY <1>4
  <2>2. ASSUME NEW w \in ObjectSlot, k < 5 * w - 4
        PROVE  s # w
    BY <1>1, <2>1, <2>2 DEF ObjectSlot
  <2>3. QED
    BY <1>2, <1>3, <2>1, <2>2
<1>5. CASE /\ k > 5 * Inflight
           /\ \/ DropPlan(k) \in Both(Table) \union {LogicalDevice, Instance}
              \/ \E kind \in SharedKinds : DropPlan(k) = Shared(kind)
  <2>1. \A w \in ObjectSlot : ~ k < 5 * w - 4
    BY <1>1, <1>5 DEF ObjectSlot
  <2>2. DropPlan(k)[1] # "fence"
    <3>1. \A y \in Both(Table) \union {LogicalDevice, Instance} : y[1] # "fence"
      BY DEF Both, MemoryOf, Instance, LogicalDevice, Table, Shared, Object
    <3>2. \A kind \in SharedKinds : Shared(kind)[1] # "fence"
      BY DEF Shared, Object, SharedKinds
    <3>3. QED
      BY <1>5, <3>1, <3>2
  <2>3. QED
    BY <2>1, <2>2
<1>6. QED
  BY <1>4, <1>5, DroppedObject
-----------------------------------------------------------------------------
(***************************************************************************)
(* The steps.                                                              *)
(***************************************************************************)
LEMMA LooseIs ==
  ASSUME NEW k
  PROVE  /\ Loose(k, "object") = Unfenced(k)
         /\ Loose(k, "memory") = Unfenced(k) \union {Plan(k)}
         /\ Loose(k, "bind") = Unfenced(k) \union Both(Plan(k))
         /\ Loose(k, "map") = Unfenced(k) \union Both(Plan(k))
  BY DEF Loose, Partial

(* Before the backend is finished nothing but the copy runs.               *)
LEMMA NothingRuns ==
  ASSUME ObjectsInv, vulkan \in Early \union {"create", "copy"}
  PROVE  running = {} /\ unsure = {}
<1>1. unsure = {}
  BY DEF ObjectsInv, Uses, Early
<1>2. ASSUME NEW work \in running
      PROVE  FALSE
  <2>1. Busy(work)
    BY <1>1 DEF ObjectsInv
  <2>2. QED
    BY <2>1 DEF Busy, Early
<1>3. QED
  BY <1>1, <1>2

LEMMA InitObjects == VulkanInit => ObjectsInv
<1>1. SUFFICES ASSUME VulkanInit PROVE ObjectsInv
  OBVIOUS
<1>2. ObjectsTypeOK
  BY <1>1 DEF VulkanInit, ObjectsTypeOK, Early, Copying
<1>3. InstanceOnly /\ InCreation /\ Complete /\ InDrop /\ NothingLeft /\ Uses
  BY <1>1 DEF VulkanInit, InstanceOnly, InCreation, Complete, InDrop, NothingLeft,
     Uses, Early, Copying
<1>4. QED
  BY <1>1, <1>2, <1>3 DEF VulkanInit, ObjectsInv

LEMMA FindingInv ==
  ASSUME ObjectsInv, CreateInstance \/ \E some \in BOOLEAN : PickDevice(some)
  PROVE  ObjectsInv'
<1> USE DEF CreateInstance, PickDevice, PickFails, DevicePicked, NoDevice
<1>1. /\ vulkan \in {"idle", "pick"} /\ running = {} /\ running' = {}
      /\ owned = {} /\ making = "object"
      /\ vulkan' \in {"absent", "pick", "failed", "device"}
      /\ live' = IF vulkan' = "absent" THEN {} ELSE {Instance}
      /\ UNCHANGED << at, making, rebar, owned, submitted, whole, unsure >>
  BY NothingRuns DEF ObjectsInv, InstanceOnly, Early
<1>2. ObjectsTypeOK'
  BY <1>1 DEF ObjectsInv, ObjectsTypeOK, Early, Copying
<1>3. InstanceOnly' /\ InCreation' /\ Complete' /\ InDrop'
  BY <1>1 DEF InstanceOnly, InCreation, Complete, InDrop, Early, Copying
<1>4. NothingLeft' /\ Uses'
  BY <1>1 DEF ObjectsInv, NothingLeft, Uses, Early, Copying
<1>5. QED
  BY <1>1, <1>2, <1>3, <1>4 DEF ObjectsInv

LEMMA CreateDeviceInv ==
  ASSUME ObjectsInv, CreateDevice
  PROVE  ObjectsInv'
<1> USE DEF CreateDevice
<1>1. /\ vulkan = "device" /\ running = {} /\ running' = {}
      /\ live = {Instance} /\ owned = {}
  BY NothingRuns DEF ObjectsInv, InstanceOnly, Early
<1>2. 1 \in 1 .. PlanLength /\ Unfenced(1) = {}
  BY InflightPositive, UnfencedIs DEF PlanLength
<1>3. CASE vulkan' = "failed"
  <2>1. UNCHANGED << at, making, rebar, live, owned, submitted, whole, unsure >>
    BY <1>3
  <2>2. ObjectsTypeOK'
    BY <1>1, <1>3, <2>1 DEF ObjectsInv, ObjectsTypeOK, Early, Copying
  <2>3. /\ InstanceOnly' /\ InCreation' /\ Complete' /\ InDrop'
        /\ NothingLeft' /\ Uses'
    BY <1>1, <1>3, <2>1 DEF ObjectsInv, InstanceOnly, InCreation, Complete, InDrop,
       NothingLeft, Uses, Early, Copying
  <2>4. QED
    BY <1>1, <2>2, <2>3 DEF ObjectsInv
<1>4. CASE vulkan' = "create"
  <2>1. /\ at' = 1 /\ live' = {Instance, LogicalDevice} /\ owned' = {Instance, LogicalDevice}
        /\ UNCHANGED << making, rebar, submitted, whole, unsure >>
    BY <1>4
  <2>2. ObjectsTypeOK'
    BY <1>1, <1>4, <2>1 DEF ObjectsInv, ObjectsTypeOK, Early, Copying
  <2>3. making = "object"
    BY <1>1 DEF ObjectsInv, InstanceOnly, Early
  <2>4. InCreation'
    BY <1>2, <1>4, <2>1, <2>3, FieldsFirst, LooseIs DEF InCreation, Copying
  <2>5. /\ InstanceOnly' /\ Complete' /\ InDrop' /\ NothingLeft' /\ Uses'
    BY <1>1, <1>4, <2>1 DEF ObjectsInv, InstanceOnly, Complete, InDrop,
       NothingLeft, Uses, Early, Copying
  <2>6. QED
    BY <1>1, <2>2, <2>4, <2>5 DEF ObjectsInv
<1>5. QED
  BY <1>3, <1>4
(* The next object of the plan, or the end of it.                          *)
LEMMA AdvanceInv ==
  ASSUME ObjectsInv, vulkan \in {"create", "wait"}, NextInPlan,
         making' = "object", rebar' \in BOOLEAN,
         owned' = Fields(at + 1), live' = Fields(at + 1) \union Unfenced(at + 1),
         running' = {}, UNCHANGED << submitted, unsure >>
  PROVE  ObjectsInv'
<1>1. /\ at \in 1 .. PlanLength /\ at' = at + 1
      /\ at \in Nat /\ PlanLength \in Nat /\ at + 1 \in Nat
  BY InflightPositive DEF ObjectsInv, InCreation, Copying, NextInPlan, PlanLength
<1>2. CASE at = PlanLength
  <2>1. vulkan' = "ready" /\ whole' = TRUE
    BY <1>2 DEF NextInPlan
  <2>2. live' = owned'
    BY <1>2, PlanEnds
  <2>3. ObjectsTypeOK'
    BY <1>1, <2>1 DEF ObjectsInv, ObjectsTypeOK, Early, Copying
  <2>4. Complete'
    BY <1>2, <2>1, <2>2 DEF Complete, PlanLength
  <2>5. InstanceOnly' /\ InCreation' /\ InDrop' /\ NothingLeft' /\ Uses'
    BY <2>1 DEF ObjectsInv, InstanceOnly, InCreation, InDrop, NothingLeft, Uses,
       Early, Copying
  <2>6. QED
    BY <2>3, <2>4, <2>5 DEF ObjectsInv
<1>3. CASE at # PlanLength
  <2>1. vulkan' = "create" /\ ~ whole' /\ whole' \in BOOLEAN /\ at' \in 1 .. PlanLength
    <3>1. vulkan' = "create" /\ ~ whole' /\ whole' \in BOOLEAN
      BY <1>3 DEF NextInPlan
    <3>2. QED
      BY <1>1, <1>3, <3>1
  <2>2. ObjectsTypeOK'
    BY <1>1, <2>1 DEF ObjectsInv, ObjectsTypeOK, Early, Copying
  <2>3. InCreation'
    BY <1>1, <2>1, LooseIs DEF InCreation, Copying
  <2>4. InstanceOnly' /\ Complete' /\ InDrop' /\ NothingLeft' /\ Uses'
    BY <2>1 DEF ObjectsInv, InstanceOnly, Complete, InDrop, NothingLeft, Uses,
       Early, Copying
  <2>5. QED
    BY <2>2, <2>3, <2>4 DEF ObjectsInv
<1>4. QED
  BY <1>2, <1>3

(* While an object is made: create_buffer's steps, and the staging buffer  *)
(* when it is there.                                                       *)
LEMMA MakingInv ==
  ASSUME ObjectsInv, vulkan = "create",
         making' \in {"object", "memory", "bind", "map"}, rebar' \in BOOLEAN,
         UNCHANGED << at, owned, submitted, running, whole, unsure >>,
         \/ /\ vulkan' = "create"
            /\ live' = Fields(at) \union Loose(at, making')
            /\ making' # "object" => IsBuffer(Plan(at))
         \/ /\ vulkan' = "copy" /\ at = 8 /\ making' = "object"
            /\ live' = Fields(at) \union Loose(at, "map")
  PROVE  ObjectsInv'
<1>1. running = {} /\ running' = {}
  BY NothingRuns
<1>2. ObjectsTypeOK'
  BY DEF ObjectsInv, ObjectsTypeOK, Early, Copying
<1>3. InCreation'
  BY DEF ObjectsInv, InCreation, Copying
<1>4. InstanceOnly' /\ Complete' /\ InDrop' /\ NothingLeft' /\ Uses'
  BY DEF ObjectsInv, InstanceOnly, Complete, InDrop, NothingLeft, Uses, Early, Copying
<1>5. QED
  BY <1>1, <1>2, <1>3, <1>4 DEF ObjectsInv

LEMMA MadeInv ==
  ASSUME ObjectsInv, vulkan = "create", Made(Plan(at)),
         live' = Fields(at) \union Unfenced(at) \union
                   (IF IsBuffer(Plan(at)) THEN Both(Plan(at)) ELSE {Plan(at)}),
         UNCHANGED << submitted, running, unsure >>
  PROVE  ObjectsInv'
<1>1. at \in 1 .. PlanLength /\ owned = Fields(at) /\ running = {}
  BY NothingRuns DEF ObjectsInv, InCreation, Copying
<1>2. owned' = Fields(at + 1) /\ making' = "object" /\ rebar' = TRUE
  BY <1>1, FieldsStep DEF Made
<1>3. Plan(at) = Staging <=> at = 8
  <2>1. at # 8 => Plan(at) # Staging
    <3>1. \A s \in ObjectSlot : Plan(at) \in {Keys(s), Addresses(s), Fence(s)} =>
                                  Plan(at)[1] # "staging"
      BY DEF Keys, Addresses, Fence, Object
    <3>2. \A kind \in SharedKinds : Shared(kind)[1] # "staging"
      BY DEF SharedKinds, Shared, Object
    <3>3. Table[1] # "staging" /\ Staging[1] = "staging"
      BY DEF Table, Staging, Shared, Object
    <3>4. QED
      BY <1>1, <3>1, <3>2, <3>3, PlannedObject
  <2>2. QED
    BY <1>1, <2>1, PlannedObject DEF PlanLength
<1>4. CASE at = 8
  <2>1. /\ Fields(at + 1) = Fields(at) /\ Unfenced(at) = {}
        /\ live' = Fields(at) \union Loose(at, "map")
    BY <1>1, <1>4, ObjectReady, LooseIs, <1>3, FieldsOfObject
  <2>2. vulkan' = "copy" /\ UNCHANGED << at, whole >>
    BY <1>3, <1>4 DEF Made
  <2>3. QED
    BY <1>1, <1>2, <1>4, <2>1, <2>2, MakingInv
<1>5. CASE at # 8
  <2>1. NextInPlan
    BY <1>3, <1>5 DEF Made
  <2>2. live' = Fields(at + 1) \union Unfenced(at + 1)
    BY <1>1, <1>5, ObjectReady
  <2>3. QED
    BY <1>1, <1>2, <2>1, <2>2, AdvanceInv
<1>6. QED
  BY <1>4, <1>5

LEMMA CreateInv ==
  ASSUME ObjectsInv, CreateObject \/ AllocateMemory \/ BindMemory \/ MapMemory
  PROVE  ObjectsInv'
<1> USE DEF Creating
<1>1. /\ vulkan = "create" /\ at \in 1 .. PlanLength /\ owned = Fields(at)
      /\ live = Fields(at) \union Loose(at, making)
      /\ making # "object" => IsBuffer(Plan(at))
      /\ rebar \in BOOLEAN
  BY DEF CreateObject, AllocateMemory, BindMemory, MapMemory, ObjectsInv, ObjectsTypeOK,
     InCreation, Copying
<1>2. CASE CreateObject
  <2>1. /\ making = "object" /\ live' = live \union {Plan(at)}
        /\ UNCHANGED << submitted, running, unsure >>
    BY <1>2 DEF CreateObject
  <2>2. live' = Fields(at) \union Unfenced(at) \union {Plan(at)}
    BY <1>1, <2>1, LooseIs
  <2>3. CASE IsBuffer(Plan(at))
    <3>1. making' = "memory" /\ UNCHANGED << vulkan, at, rebar, owned, whole >>
      BY <1>2, <2>3 DEF CreateObject
    <3>2. live' = Fields(at) \union Loose(at, making')
      BY <2>2, <3>1, LooseIs
    <3>3. QED
      BY <1>1, <2>1, <2>3, <3>1, <3>2, MakingInv
  <2>4. CASE ~ IsBuffer(Plan(at))
    <3>1. Made(Plan(at))
      BY <1>2, <2>4 DEF CreateObject
    <3>2. QED
      BY <1>1, <2>1, <2>2, <2>4, <3>1, MadeInv
  <2>5. QED
    BY <2>3, <2>4
<1>3. CASE AllocateMemory
  <2>1. /\ making = "memory" /\ live' = live \union {MemoryOf(Plan(at))}
        /\ making' = "bind"
        /\ UNCHANGED << vulkan, at, rebar, owned, submitted, running, whole, unsure >>
    BY <1>3 DEF AllocateMemory
  <2>2. live' = Fields(at) \union Loose(at, making')
    BY <1>1, <2>1, LooseIs DEF Both
  <2>3. QED
    BY <1>1, <2>1, <2>2, MakingInv
<1>4. CASE BindMemory
  <2>1. /\ making = "bind" /\ live' = live
        /\ UNCHANGED << submitted, running, unsure >>
    BY <1>4 DEF BindMemory
  <2>2. CASE Plan(at) = Table
    <3>1. Made(Plan(at))
      BY <1>4, <2>2 DEF BindMemory
    <3>2. live' = Fields(at) \union Unfenced(at) \union Both(Plan(at))
      BY <1>1, <2>1, LooseIs
    <3>3. QED
      BY <1>1, <2>1, <3>1, <3>2, MadeInv
  <2>3. CASE Plan(at) # Table
    <3>1. making' = "map" /\ UNCHANGED << vulkan, at, rebar, owned, whole >>
      BY <1>4, <2>3 DEF BindMemory
    <3>2. live' = Fields(at) \union Loose(at, making')
      BY <1>1, <2>1, <3>1, LooseIs
    <3>3. QED
      BY <1>1, <2>1, <3>1, <3>2, MakingInv
  <2>4. QED
    BY <2>2, <2>3
<1>5. CASE MapMemory
  <2>1. /\ making = "map" /\ live' = live /\ Made(Plan(at))
        /\ UNCHANGED << submitted, running, unsure >>
    BY <1>5 DEF MapMemory
  <2>2. live' = Fields(at) \union Unfenced(at) \union Both(Plan(at))
    BY <1>1, <2>1, LooseIs
  <2>3. QED
    BY <1>1, <2>1, <2>2, MadeInv
<1>6. QED
  BY <1>2, <1>3, <1>4, <1>5
(* An early return of create_backend, or the user's drop.                  *)
LEMMA StartDropInv ==
  ASSUME ObjectsInv, StartDrop, vulkan \in {"create", "copy", "wait", "ready"},
         making' \in {"object", "memory", "bind", "map"}, rebar' \in BOOLEAN,
         UNCHANGED << owned, submitted, running, whole, unsure >>,
         Tidy(live' \ owned), whole => live' = owned,
         running # {} => live' = live
  PROVE  ObjectsInv'
<1>1. vulkan' = "wait idle" /\ at' = at /\ unsure = {} /\ unsure' = {}
  BY DEF ObjectsInv, Uses, StartDrop, Early
<1>2. ObjectsTypeOK'
  BY <1>1 DEF ObjectsInv, ObjectsTypeOK, Early, Copying
<1>3. owned \subseteq Remaining(1)
  <2>1. \E k \in 1 .. PlanLength + 1 : owned = Fields(k)
    BY InflightPositive DEF ObjectsInv, InCreation, Complete, Copying, PlanLength
  <2>2. QED
    BY <2>1, FieldsAreDropped
<1>4. InDrop'
  BY <1>1, <1>3 DEF InDrop, Tidy
<1>5. InstanceOnly' /\ InCreation' /\ Complete' /\ NothingLeft' /\ Uses'
  BY <1>1 DEF ObjectsInv, InstanceOnly, InCreation, Complete, NothingLeft, Uses,
     Early, Copying
<1>6. ASSUME NEW work \in running'
      PROVE  Busy(work)'
  <2>1. Busy(work) /\ live' = live
    BY <1>1, <1>6 DEF ObjectsInv
  <2>2. QED
    BY <1>1, <2>1 DEF Busy, UsedBy
<1>7. QED
  BY <1>2, <1>4, <1>5, <1>6 DEF ObjectsInv

LEMMA UnfencedTidy ==
  ASSUME NEW k \in 1 .. PlanLength, NEW rest, rest \subseteq Unfenced(k)
  PROVE  Tidy(rest)
<1>1. k \in Nat
  BY InflightPositive DEF PlanLength
<1>2. CASE k <= 8
  BY <1>1, <1>2, UnfencedIs DEF Tidy
<1>3. ASSUME NEW s \in ObjectSlot, k = 3 * s + 6 \/ k = 3 * s + 7 \/ k = 3 * s + 8
      PROVE  Tidy(rest)
  <2>1. s \in Nat \ {0}
    BY InflightPositive DEF ObjectSlot
  <2>2. Unfenced(k) \subseteq Both(Keys(s)) \union Both(Addresses(s))
    BY <1>1, <1>3, <2>1, UnfencedIs
  <2>3. QED
    BY <2>2 DEF Tidy
<1>4. QED
  BY <1>1, <1>2, <1>3, PlannedObject

LEMMA FailureInv ==
  ASSUME ObjectsInv, BufferFails \/ ObjectFails
  PROVE  ObjectsInv'
<1>1. /\ vulkan = "create" /\ at \in 1 .. PlanLength /\ owned = Fields(at)
      /\ live = Fields(at) \union Loose(at, making)
      /\ making # "object" => IsBuffer(Plan(at))
      /\ making \in {"object", "memory", "bind", "map"} /\ rebar \in BOOLEAN
      /\ ~ whole /\ running = {}
  BY NothingRuns DEF BufferFails, ObjectFails, ObjectsInv, ObjectsTypeOK, InCreation,
     Uses, Copying
<1>2. /\ Unfenced(at) \subseteq Loose(at, making)
      /\ Loose(at, making) \subseteq Unfenced(at) \union Both(Plan(at))
      /\ making = "object" => Loose(at, making) = Unfenced(at)
  BY <1>1, LooseIs DEF Both
<1>3. CASE BufferFails
  <2>1. /\ IsBuffer(Plan(at)) /\ live' = live \ Both(Plan(at)) /\ making' = "object"
        /\ UNCHANGED << owned, submitted, running, whole, unsure >>
    BY <1>3 DEF BufferFails, Undone
  <2>2. live' = Fields(at) \union Unfenced(at)
    BY <1>1, <1>2, <2>1, FreshBuffer
  <2>3. CASE IsHostBuffer(Plan(at)) /\ rebar
    <3>1. rebar' = FALSE /\ UNCHANGED << vulkan, at >>
      BY <1>3, <2>3 DEF BufferFails
    <3>2. live' = Fields(at) \union Loose(at, making')
      BY <2>1, <2>2, LooseIs
    <3>3. QED
      BY <1>1, <2>1, <3>1, <3>2, MakingInv
  <2>4. CASE ~ (IsHostBuffer(Plan(at)) /\ rebar)
    <3>1. StartDrop /\ rebar' = rebar
      BY <1>3, <2>4 DEF BufferFails
    <3>2. Tidy(live' \ owned)
      BY <1>1, <2>2, UnfencedTidy
    <3>3. QED
      BY <1>1, <2>1, <3>1, <3>2, StartDropInv
  <2>5. QED
    BY <2>3, <2>4
<1>4. CASE ObjectFails
  <2>1. /\ StartDrop /\ making = "object"
        /\ UNCHANGED << making, rebar, live, owned, submitted, running, whole, unsure >>
    BY <1>1, <1>4 DEF ObjectFails
  <2>2. Tidy(live' \ owned)
    BY <1>1, <1>2, <2>1, UnfencedTidy
  <2>3. QED
    BY <1>1, <2>1, <2>2, StartDropInv
<1>5. QED
  BY <1>3, <1>4

LEMMA CopyInv ==
  ASSUME ObjectsInv, SubmitCopy \/ WaitForCopy \/ WaitForCopyFails
  PROVE  ObjectsInv'
<1>1. vulkan \in Copying
  BY DEF SubmitCopy, WaitForCopy, WaitForCopyFails, Copying
<1>2. /\ at = 8 /\ 8 \in 1 .. PlanLength /\ owned = Fields(8) /\ making = "object"
      /\ live = Fields(8) \union Loose(8, "map") /\ rebar \in BOOLEAN /\ ~ whole
  BY <1>1 DEF ObjectsInv, ObjectsTypeOK, InCreation, Uses, Copying
<1>3. Plan(8) = Staging /\ IsBuffer(Plan(8))
  BY <1>2, PlannedObject, FieldsOfObject DEF ObjectSlot
<1>4. Fields(8 + 1) = Fields(8) /\ Unfenced(8) = {} /\ Unfenced(8 + 1) = {}
  BY <1>2, <1>3, ObjectReady
<1>5. /\ live = Fields(8) \union Both(Staging)
      /\ Both(Staging) \intersect Fields(8) = {}
  BY <1>2, <1>3, <1>4, LooseIs, FreshBuffer
<1>6. Tidy(live \ owned)
  BY <1>2, <1>5 DEF Tidy
<1>7. CASE WaitForCopy
  <2>1. live' = Fields(8) /\ owned' = Fields(8)
    BY <1>2, <1>5, <1>7 DEF WaitForCopy
  <2>2. QED
    BY <1>2, <1>4, <1>7, <2>1, AdvanceInv DEF WaitForCopy
<1>8. CASE WaitForCopyFails \/ (SubmitCopy /\ StartDrop /\ running' = running)
  <2>1. /\ StartDrop
        /\ UNCHANGED << making, rebar, live, owned, submitted, running, whole, unsure >>
    BY <1>8 DEF WaitForCopyFails, SubmitCopy
  <2>2. vulkan \in {"copy", "wait"} /\ Tidy(live' \ owned)
    BY <1>1, <1>6, <2>1 DEF Copying
  <2>3. QED
    BY <1>2, <2>1, <2>2, StartDropInv
<1>9. CASE SubmitCopy /\ vulkan' = "wait"
  <2>1. /\ vulkan = "copy" /\ running' = {0}
        /\ UNCHANGED << at, making, rebar, live, owned, submitted, whole, unsure >>
    BY <1>9 DEF SubmitCopy, StartDrop
  <2>2. ObjectsTypeOK'
    BY <1>9, <2>1 DEF ObjectsInv, ObjectsTypeOK, Early, Copying
  <2>3. InCreation'
    BY <1>9, <2>1 DEF ObjectsInv, InCreation, Copying
  <2>4. InstanceOnly' /\ Complete' /\ InDrop' /\ NothingLeft' /\ Uses'
    BY <1>9, <2>1 DEF ObjectsInv, InstanceOnly, Complete, InDrop, NothingLeft, Uses,
       Early, Copying
  <2>5. UsedBy(0) \subseteq live
    BY <1>5, UsesFields
  <2>6. Busy(0)'
    BY <1>9, <2>1, <2>5 DEF Busy, UsedBy
  <2>7. QED
    BY <2>1, <2>2, <2>3, <2>4, <2>6 DEF ObjectsInv
<1>10. QED
  BY <1>7, <1>8, <1>9 DEF SubmitCopy
(* The user and the device: of a finished backend only the flags and what  *)
(* runs change; less may run at any time.                                  *)
LEMMA RunningInv ==
  ASSUME ObjectsInv,
         UNCHANGED << vulkan, at, making, rebar, live, owned, whole, unsure >>,
         \/ submitted' = submitted /\ running' \subseteq running
         \/ /\ vulkan = "ready" /\ submitted' \subseteq ObjectSlot
            /\ running' \subseteq (running \intersect {0}) \union submitted'
  PROVE  ObjectsInv'
<1>1. ObjectsTypeOK'
  BY DEF ObjectsInv, ObjectsTypeOK
<1>2. InstanceOnly' /\ InCreation' /\ Complete' /\ InDrop' /\ NothingLeft'
  BY DEF ObjectsInv, InstanceOnly, InCreation, Complete, InDrop, NothingLeft
<1>3. Uses'
  BY DEF ObjectsInv, Uses, Early, Copying
<1>4. ASSUME NEW work \in running' \ unsure'
      PROVE  Busy(work)'
  <2>1. CASE work \in running /\ submitted' = submitted
    <3>1. Busy(work)
      BY <1>4, <2>1 DEF ObjectsInv
    <3>2. QED
      BY <2>1, <3>1 DEF Busy, UsedBy
  <2>2. CASE vulkan = "ready" /\ work \in running \intersect {0}
    <3>1. Busy(work) /\ work = 0
      BY <1>4, <2>2 DEF ObjectsInv
    <3>2. QED
      BY <2>2, <3>1 DEF Busy
  <2>3. CASE vulkan = "ready" /\ work \in submitted' /\ submitted' \subseteq ObjectSlot
    <3>1. whole /\ owned = Fields(PlanLength + 1) /\ live = owned
      BY <2>3 DEF ObjectsInv, Complete, Uses
    <3>2. UsedBy(work) \subseteq owned /\ work # 0
      BY <2>3, <3>1, UsesFields DEF ObjectSlot
    <3>3. QED
      BY <2>3, <3>1, <3>2 DEF Busy, UsedBy
  <2>4. QED
    BY <1>4, <2>1, <2>2, <2>3
<1>5. QED
  BY <1>1, <1>2, <1>3, <1>4 DEF ObjectsInv

LEMMA UserInv ==
  ASSUME ObjectsInv,
         \/ \E s \in ObjectSlot : SubmitBatch(s) \/ CollectBatch(s)
         \/ DropBackend
         \/ \E work \in {0} \union ObjectSlot : DeviceEnds(work)
  PROVE  ObjectsInv'
<1>1. vulkan = "ready" =>
        /\ running \subseteq submitted /\ submitted \subseteq ObjectSlot
        /\ live = owned /\ whole
  <2>1. SUFFICES ASSUME vulkan = "ready" PROVE running \subseteq submitted
    BY DEF ObjectsInv, ObjectsTypeOK, Complete, Uses
  <2>2. ASSUME NEW work \in running PROVE work \in submitted
    <3>1. Busy(work)
      BY <2>1 DEF ObjectsInv, Uses
    <3>2. QED
      BY <2>1, <3>1 DEF Busy
  <2>3. QED
    BY <2>2
<1>2. ASSUME NEW s \in ObjectSlot, SubmitBatch(s) \/ CollectBatch(s)
      PROVE  ObjectsInv'
  <2>1. /\ UNCHANGED << vulkan, at, making, rebar, live, owned, whole, unsure >>
        /\ vulkan = "ready" /\ submitted' \subseteq ObjectSlot
        /\ running' \subseteq submitted'
    BY <1>1, <1>2 DEF SubmitBatch, CollectBatch
  <2>2. QED
    BY <2>1, RunningInv
<1>3. CASE DropBackend
  <2>1. /\ vulkan = "ready" /\ StartDrop
        /\ UNCHANGED << making, rebar, live, owned, submitted, running, whole, unsure >>
    BY <1>3 DEF DropBackend
  <2>2. Tidy(live' \ owned)
    BY <1>1, <2>1 DEF Tidy
  <2>3. making \in {"object", "memory", "bind", "map"} /\ rebar \in BOOLEAN
    BY DEF ObjectsInv, ObjectsTypeOK
  <2>4. QED
    BY <1>1, <2>1, <2>2, <2>3, StartDropInv
<1>4. CASE \E work \in {0} \union ObjectSlot : DeviceEnds(work)
  BY <1>4, RunningInv DEF DeviceEnds
<1>5. QED
  BY <1>2, <1>3, <1>4

(* Drop's first wait: what still runs then is a slot's batch, or in doubt. *)
LEMMA WaitIdleInv ==
  ASSUME ObjectsInv, WaitIdle
  PROVE  ObjectsInv'
<1>1. /\ vulkan = "wait idle" /\ vulkan' = "drop" /\ at' = 1
      /\ UNCHANGED << making, rebar, live, owned, submitted, whole >>
      /\ running' = {} \/ (running' = running /\ unsure' = running \intersect {0})
  BY DEF WaitIdle
<1>2. ObjectsTypeOK'
  BY <1>1 DEF ObjectsInv, ObjectsTypeOK, Early
<1>3. 1 \in 1 .. DropLength
  BY InflightPositive DEF DropLength
<1>4. InDrop'
  BY <1>1, <1>3 DEF ObjectsInv, InDrop, Tidy
<1>5. InstanceOnly' /\ InCreation' /\ Complete' /\ NothingLeft' /\ Uses'
  BY <1>1 DEF ObjectsInv, InstanceOnly, InCreation, Complete, NothingLeft, Uses,
     Early, Copying
<1>6. ASSUME NEW work \in running' \ unsure'
      PROVE  Busy(work)'
  <2>1. work \in running /\ unsure = {} /\ work # 0
    BY <1>1, <1>6 DEF ObjectsInv, Uses, Early
  <2>2. Busy(work) /\ work \in ObjectSlot
    BY <2>1 DEF ObjectsInv, ObjectsTypeOK
  <2>3. 1 <= 5 * work - 4
    BY <2>2, InflightPositive DEF ObjectSlot
  <2>4. QED
    BY <1>1, <2>1, <2>2, <2>3 DEF Busy, UsedBy
<1>7. QED
  BY <1>2, <1>4, <1>5, <1>6 DEF ObjectsInv

(* Drop's loops.  A slot's batch is waited for, or in doubt, before any of *)
(* its objects goes, and the shared ones go last.                          *)
LEMMA DropNextInv ==
  ASSUME ObjectsInv, DropNext
  PROVE  ObjectsInv'
<1> DEFINE o == DropPlan(at)
<1>1. /\ vulkan = "drop" /\ at \in 1 .. DropLength /\ at \in Nat /\ DropLength \in Nat
      /\ owned \subseteq Remaining(at) /\ Tidy(live \ owned)
      /\ (whole => live = owned)
  BY InflightPositive DEF DropNext, ObjectsInv, InDrop, DropLength
<1>2. /\ live' = live \ ({o} \intersect owned) /\ owned' = owned \ {o}
      /\ at' = at + 1
      /\ vulkan' = IF at < DropLength THEN "drop" ELSE IF whole THEN "dropped" ELSE "failed"
      /\ UNCHANGED << making, rebar, whole >>
  BY DEF DropNext
<1>3. /\ submitted' \subseteq submitted /\ running' \subseteq running
      /\ IF o[1] = "fence" /\ o \in owned
           THEN WaitForSlot(o[2]) /\ submitted' = submitted \ {o[2]}
           ELSE UNCHANGED << running, unsure, submitted >>
  BY DEF DropNext, WaitForSlot
<1>4. live' \ owned' = live \ owned /\ (whole => live' = owned')
  <2>1. /\ live' = live \ ({o} \intersect owned) /\ owned' = owned \ {o}
        /\ whole => live = owned
    BY <1>1, <1>2
  <2> HIDE DEF o
  <2>2. QED
    BY <2>1
<1>5. owned' \subseteq Remaining(at + 1) /\ (at = DropLength => owned' = {})
  <2>1. /\ Remaining(at) \ {o} \subseteq Remaining(at + 1)
        /\ at = DropLength => Remaining(at + 1) = {}
    BY <1>1, RemainingStep
  <2>2. owned \subseteq Remaining(at) /\ owned' = owned \ {o}
    BY <1>1, <1>2
  <2> HIDE DEF o
  <2>3. QED
    BY <2>1, <2>2
<1>6. ObjectsTypeOK'
  <2>1. vulkan' \in {"drop", "dropped", "failed"} /\ at' \in Nat
    BY <1>1, <1>2
  <2>2. QED
    BY <1>2, <1>3, <2>1 DEF ObjectsInv, ObjectsTypeOK
<1>7. InDrop'
  <2>1. vulkan' = "drop" => at' \in 1 .. DropLength
    BY <1>1, <1>2
  <2>2. Tidy(live' \ owned')
    BY <1>1, <1>4 DEF Tidy
  <2>3. vulkan' # "wait idle"
    BY <1>2
  <2>4. QED
    BY <1>2, <1>4, <1>5, <2>1, <2>2, <2>3 DEF InDrop, Tidy
<1>8. NothingLeft'
  <2>1. vulkan' # "drop" => owned' = {} /\ live' = live \ owned
    BY <1>1, <1>2, <1>4, <1>5
  <2>2. CASE vulkan' = "drop"
    BY <2>2 DEF NothingLeft
  <2>3. CASE vulkan' = "dropped"
    <3>1. whole
      BY <1>2, <2>3
    <3>2. live' = {}
      BY <1>4, <2>1, <2>3, <3>1
    <3>3. QED
      BY <2>3, <3>2 DEF NothingLeft
  <2>4. CASE vulkan' = "failed"
    <3>1. Tidy(live')
      BY <1>1, <2>1, <2>4 DEF Tidy
    <3>2. QED
      BY <2>4, <3>1 DEF NothingLeft, Tidy
  <2>5. QED
    BY <1>2, <2>2, <2>3, <2>4
<1>9. Uses'
  <2>1. vulkan' = "failed" => ~ whole'
    BY <1>2
  <2>2. vulkan' = "dropped" => whole'
    BY <1>2
  <2>3. vulkan' \in {"drop", "dropped", "failed"} /\ (~ whole' => submitted' = {})
    BY <1>2, <1>3 DEF ObjectsInv, Uses
  <2>4. QED
    BY <2>1, <2>2, <2>3 DEF Uses, Early, Copying
<1>10. InstanceOnly' /\ InCreation' /\ Complete'
  <2>1. vulkan' \in {"drop", "dropped", "failed"}
    BY <1>2
  <2>2. QED
    BY <2>1 DEF InstanceOnly, InCreation, Complete, Early, Copying
<1>11. ASSUME NEW work \in running' \ unsure'
       PROVE  Busy(work)'
  <2>1. work \in running \ unsure
    BY <1>3, <1>11 DEF WaitForSlot
  <2>2. Busy(work) /\ work \in {0} \union ObjectSlot
    BY <2>1 DEF ObjectsInv, ObjectsTypeOK
  <2>3. /\ work # 0 /\ work \in ObjectSlot /\ whole /\ work \in submitted
        /\ UsedBy(work) \subseteq owned /\ at <= 5 * work - 4
    BY <1>1, <2>2 DEF Busy
  <2>4. Fence(work) \in owned
    BY <2>3 DEF UsedBy
  <2>5. o[1] = "fence" /\ o \in owned => o[2] # work
    BY <1>3, <1>11, <2>1, <2>3 DEF WaitForSlot
  <2>6. at # 5 * work - 4
    BY <2>3, <2>4, <2>5, DropHasSlot, KindAndSlot DEF Fence
  <2>7. at < 5 * work - 4 /\ at + 1 <= 5 * work - 4 /\ at + 1 <= DropLength
    BY <1>1, <2>3, <2>6, DropHasSlot DEF ObjectSlot
  <2>8. vulkan' = "drop"
    BY <1>1, <1>2, <2>7
  <2>9. o \notin UsedBy(work)
    BY <1>1, <2>3, <2>7, DropSpares
  <2>10. work \in submitted'
    BY <1>3, <2>3, <2>5
  <2>11. UsedBy(work) \subseteq owned' /\ UsedBy(work) \subseteq live'
    BY <1>2, <1>4, <2>3, <2>9
  <2>12. QED
    BY <1>2, <2>3, <2>7, <2>8, <2>10, <2>11 DEF Busy, UsedBy
<1>12. QED
  BY <1>6, <1>7, <1>8, <1>9, <1>10, <1>11 DEF ObjectsInv

-----------------------------------------------------------------------------
LEMMA ObjectsStep ==
  ASSUME ObjectsInv,
         \/ CreateInstance \/ \E some \in BOOLEAN : PickDevice(some)
         \/ VulkanWork \/ UNCHANGED objects
  PROVE  ObjectsInv'
<1>1. CASE UNCHANGED objects
  <2>1. UNCHANGED << vulkan, at, making, rebar, live, owned, submitted, running,
                     whole, unsure >>
    BY <1>1 DEF objects
  <2>2. QED
    BY <2>1, RunningInv
<1>2. CASE VulkanWork
  BY <1>2, CreateDeviceInv, CreateInv, FailureInv, CopyInv, UserInv, WaitIdleInv,
     DropNextInv DEF VulkanWork
<1>3. QED
  BY <1>1, <1>2, FindingInv

(* Whatever backend is asked for, whichever of its steps fails.            *)
THEOREM ObjectsInvariance == StartupSpec => []ObjectsInv
<1>1. StartupInit => ObjectsInv
  BY InitObjects DEF StartupInit
<1>2. ObjectsInv /\ [StartupNext]_<< own, objects >> => ObjectsInv'
  <2>1. SUFFICES ASSUME ObjectsInv, [StartupNext]_<< own, objects >>
                 PROVE  ObjectsInv'
    OBVIOUS
  <2>2. \/ CreateInstance \/ \E some \in BOOLEAN : PickDevice(some)
        \/ VulkanWork \/ UNCHANGED objects
    <3>1. CASE PickVulkanDevice
      <4>1. PickDevice(device' # 0)
        BY <3>1 DEF PickVulkanDevice
      <4>2. PickDevice(TRUE) \/ PickDevice(FALSE)
        BY <4>1 DEF PickDevice
      <4>3. QED
        BY <4>2
    <3>2. CASE TryMetal \/ TryCuda \/ SelfTestPasses \/ Select \/ Terminated
      BY <3>2 DEF TryMetal, TryCuda, SelfTestPasses, Select, Terminated
    <3>3. CASE TryVulkan \/ VulkanStep
      BY <3>3 DEF TryVulkan, VulkanStep
    <3>4. CASE UNCHANGED << own, objects >>
      BY <3>4
    <3>5. QED
      BY <2>1, <3>1, <3>2, <3>3, <3>4 DEF StartupNext
  <2>3. QED
    BY <2>1, <2>2, ObjectsStep
<1>3. QED
  BY <1>1, <1>2, PTL DEF StartupSpec

(* Nothing of an absent or a dropped backend is left, and of a failed one  *)
(* no more than what no field held.                                        *)
THEOREM NoObjectLeft == StartupSpec => []NothingLeft
<1>1. ObjectsInv => NothingLeft
  BY DEF ObjectsInv
<1>2. QED
  BY <1>1, ObjectsInvariance, PTL

(* What the device may still use exists, unless both waits of Drop failed. *)
THEOREM BusyKept == StartupSpec => []BusyIsKept
<1>1. ObjectsInv => BusyIsKept
  BY DEF ObjectsInv, BusyIsKept, Busy
<1>2. QED
  BY <1>1, ObjectsInvariance, PTL

-----------------------------------------------------------------------------
(***************************************************************************)
(* Rounding up.                                                            *)
(***************************************************************************)
LEMMA CeilDivIs ==
  ASSUME NEW a \in Nat \ {0}, NEW b \in Nat \ {0}
  PROVE  /\ CeilDiv(a, b) \in 1 .. a
         /\ a <= CeilDiv(a, b) * b
         /\ CeilDiv(a, b) * b < a + b
<1> DEFINE q == (a + b - 1) \div b
           r == (a + b - 1) % b
<1>1. q \in Nat /\ r \in 0 .. b - 1 /\ a + b - 1 = q * b + r
  BY Z3
<1> HIDE DEF q, r
<1>2. q * b \in Nat /\ a <= q * b /\ q * b < a + b
  BY <1>1
<1>3. q >= 1
  <2>1. q = 0 => q * b = 0
    BY <1>1
  <2>2. QED
    BY <1>1, <1>2, <2>1
<1>4. q <= a
  <2> SUFFICES ASSUME q > a PROVE FALSE
    BY <1>1
  <2>1. (a + 1) * b <= q * b
    BY <1>1
  <2>2. (a + 1) * b = a * b + b /\ a <= a * b /\ a * b \in Nat
    OBVIOUS
  <2>3. QED
    BY <1>2, <2>1, <2>2
<1>5. q \in 1 .. a
  BY <1>1, <1>3, <1>4
<1>6. CeilDiv(a, b) = q
  BY DEF CeilDiv, q
<1>7. QED
  BY <1>2, <1>5, <1>6

(* The least number of parts of b that hold a.                             *)
LEMMA CeilDivLeast ==
  ASSUME NEW a \in Nat \ {0}, NEW b \in Nat \ {0}, NEW c \in Nat
  PROVE  a <= c * b <=> CeilDiv(a, b) <= c
<1> DEFINE q == CeilDiv(a, b)
<1>1. q \in Nat /\ a <= q * b /\ q * b < a + b
  BY CeilDivIs
<1> HIDE DEF q
<1>2. ASSUME a <= c * b
      PROVE  q <= c
  <2> SUFFICES ASSUME q >= c + 1 PROVE FALSE
    BY <1>1
  <2>1. (c + 1) * b <= q * b
    BY <1>1
  <2>2. (c + 1) * b = c * b + b /\ c * b \in Nat /\ q * b \in Nat
    BY <1>1
  <2>3. QED
    BY <1>1, <1>2, <2>1, <2>2
<1>3. ASSUME q <= c
      PROVE  a <= c * b
  <2>1. q * b <= c * b /\ q * b \in Nat /\ c * b \in Nat
    BY <1>1, <1>3
  <2>2. QED
    BY <1>1, <2>1
<1>4. QED
  BY <1>2, <1>3 DEF q

LEMMA CeilDivByOne == \A a \in Nat \ {0} : CeilDiv(a, 1) = a
<1>1. ASSUME NEW a \in Nat \ {0}
      PROVE  CeilDiv(a, 1) = a
  <2>1. CeilDiv(a, 1) \in 1 .. a /\ a <= CeilDiv(a, 1) * 1
    BY <1>1, CeilDivIs
  <2> DEFINE q == CeilDiv(a, 1)
  <2> HIDE DEF q
  <2>2. q = a
    BY <2>1 DEF q
  <2>3. QED
    BY <2>2 DEF q
<1>2. QED
  BY <1>1

LEMMA CeilDivGrows ==
  ASSUME NEW a \in Nat \ {0}, NEW c \in Nat \ {0}, NEW b \in Nat \ {0}, a <= c
  PROVE  CeilDiv(a, b) <= CeilDiv(c, b)
<1>1. CeilDiv(c, b) \in Nat /\ c <= CeilDiv(c, b) * b
  BY CeilDivIs
<1>2. CeilDiv(c, b) * b \in Nat
  BY <1>1
<1>3. a <= CeilDiv(c, b) * b
  BY <1>1, <1>2
<1>4. QED
  BY <1>1, <1>3, CeilDivLeast

(***************************************************************************)
(* The configurations that validate accepts, by the path they take.        *)
(***************************************************************************)
Plain(c) == ~ c.fuse /\ ~ c.invert /\ c.chunk = 0

Inverted(c) == ~ c.fuse /\ c.invert

Chunked(c) == ~ c.fuse /\ ~ c.invert /\ c.chunk > 0

Jacobian(c) == c.fuse /\ ~ c.affine

AffineWhole(c) == c.fuse /\ c.affine /\ ~ c.split_keccak

AffineSplit(c) == c.fuse /\ c.affine /\ c.split_keccak

Path(c) ==
  \/ Plain(c) \/ Inverted(c) \/ Chunked(c)
  \/ Jacobian(c) \/ AffineWhole(c) \/ AffineSplit(c)

LEMMA Validated ==
  ASSUME NEW c, Validate(c)
  PROVE  /\ Path(c)
         /\ c.chunk \in {0, 4, 8, 16, 32}
         /\ c.stride \in {1, 8, 16, 32, 64}
         /\ c.chunk = 0 \/ ~ c.invert
         /\ c.fuse => c.chunk > 0 /\ ~ c.invert
         /\ c.stride # 1 => c.fuse /\ c.stride % c.chunk = 0
         /\ c.affine => c.stride > 1 /\ c.fuse
<1>1. /\ c.chunk \in {0, 4, 8, 16, 32}
      /\ c.stride \in {1, 8, 16, 32, 64}
  BY DEF Validate
<1>2. Path(c)
  BY <1>1 DEF Validate, Path, Plain, Inverted, Chunked, Jacobian, AffineWhole,
              AffineSplit
<1>3. QED
  BY <1>1, <1>2 DEF Validate

(* What a backend that with_config returned is made of.                    *)
Configured ==
  /\ Validate(config)
  /\ GroupAccepted(config)
  /\ pipelines = Pipelines(config)
  /\ buffers = Buffers(config)

KernelsInv ==
  /\ pc \in {"create", "ready", "committed"} => Validate(config)
  /\ pc \in {"ready", "committed"} => Configured
  /\ pc = "committed" => size \in Count /\ dispatches = Encoded(size)
  /\ pc \notin {"missing", "invalid"}

(* What is encoded on each path.                                           *)
LEMMA EncodedIs ==
  ASSUME Configured, NEW n \in 1 .. Capacity
  PROVE  /\ Plain(config) =>
              Encoded(n) = << Dispatch("derive_addresses", "input", "output", n,
                                       FALSE) >>
         /\ Inverted(config) =>
              Encoded(n) = << Dispatch("jacobian_points", "input", "xyz", n, FALSE),
                              Dispatch("invert_affine_keccak", "xyz", "output", n,
                                       FALSE) >>
         /\ Chunked(config) =>
              Encoded(n) = << Dispatch("jacobian_points", "input", "xyz", n, FALSE),
                              Dispatch("chunk_invert_affine_keccak", "xyz",
                                       "output", CeilDiv(n, config.chunk), FALSE) >>
         /\ Jacobian(config) =>
              Encoded(n) = << Dispatch("chunk_derive_addresses", "input", "output",
                                       FusedThreads(n), buffers.state > 0) >>
         /\ AffineWhole(config) =>
              Encoded(n) = << Dispatch("chain_affine_addresses", "input", "output",
                                       FusedThreads(n), buffers.state > 0) >>
         /\ AffineSplit(config) =>
              Encoded(n) = << Dispatch("chain_affine_points", "input", "xyz",
                                       FusedThreads(n), buffers.state > 0),
                              Dispatch("keccak_points", "xyz", "output", n, FALSE) >>
<1>1. /\ config.chunk \in Nat
      /\ config.chunk = 0 \/ ~ config.invert
      /\ config.fuse => config.chunk > 0 /\ ~ config.invert
      /\ config.affine => config.stride > 1 /\ config.fuse
  BY Validated DEF Configured
<1>2. Plain(config) => pipelines.pipeline = "derive_addresses"
  BY DEF Configured, Pipelines
<1>3. Inverted(config) => /\ pipelines.jacobian = "jacobian_points"
                          /\ pipelines.invert = "invert_affine_keccak"
  BY DEF Configured, Pipelines, Inverted
<1>4. Chunked(config) => /\ pipelines.jacobian = "jacobian_points"
                         /\ pipelines.chunk = "chunk_invert_affine_keccak"
  BY <1>1 DEF Configured, Pipelines, Chunked, SplitKeccakEnabled
<1>5. Jacobian(config) => /\ pipelines.keccak = "none"
                          /\ pipelines.chunk = "chunk_derive_addresses"
  BY <1>1 DEF Configured, Pipelines, Jacobian, SplitKeccakEnabled
<1>6. AffineWhole(config) => /\ pipelines.keccak = "none"
                             /\ pipelines.chunk = "chain_affine_addresses"
  BY <1>1 DEF Configured, Pipelines, AffineWhole, SplitKeccakEnabled
<1>7. AffineSplit(config) => /\ pipelines.keccak = "keccak_points"
                             /\ pipelines.chunk = "chain_affine_points"
  BY <1>1 DEF Configured, Pipelines, AffineSplit, SplitKeccakEnabled
<1>8. CASE Plain(config)
  <2>1. ~ config.fuse /\ ~ config.invert /\ ~ config.chunk > 0
    BY <1>1, <1>8 DEF Plain
  <2>2. Encoded(n) = << Dispatch(pipelines.pipeline, "input", "output", n, FALSE) >>
    BY <2>1 DEF Encoded
  <2>3. QED
    BY <1>2, <1>8, <2>1, <2>2 DEF Inverted, Chunked, Jacobian, AffineWhole,
                                  AffineSplit
<1>9. CASE Inverted(config)
  BY <1>3, <1>9 DEF Encoded, Split, Plain, Inverted, Chunked, Jacobian,
                    AffineWhole, AffineSplit
<1>10. CASE Chunked(config)
  <2>1. ~ config.fuse /\ ~ config.invert /\ config.chunk > 0 /\ config.chunk # 0
    BY <1>1, <1>10 DEF Chunked
  <2>2. Encoded(n) = << Dispatch(pipelines.jacobian, "input", "xyz", n, FALSE),
                        Dispatch(pipelines.chunk, "xyz", "output",
                                 CeilDiv(n, config.chunk), FALSE) >>
    BY <2>1 DEF Encoded, Split
  <2>3. QED
    BY <1>4, <1>10, <2>1, <2>2 DEF Plain, Inverted, Jacobian, AffineWhole,
                                   AffineSplit
<1>11. CASE Jacobian(config)
  BY <1>5, <1>11 DEF Encoded, Fused, Plain, Inverted, Chunked, Jacobian,
                     AffineWhole, AffineSplit
<1>12. CASE AffineWhole(config)
  BY <1>6, <1>12 DEF Encoded, Fused, Plain, Inverted, Chunked, Jacobian,
                     AffineWhole, AffineSplit
<1>13. CASE AffineSplit(config)
  BY <1>7, <1>13 DEF Encoded, Fused, Plain, Inverted, Chunked, Jacobian,
                     AffineWhole, AffineSplit
<1>14. QED
  BY <1>8, <1>9, <1>10, <1>11, <1>12, <1>13

(* with_config finds every kernel it asks the library for.                 *)
LEMMA KernelsFound ==
  ASSUME Validate(config)
  PROVE  ~ KernelsMissing(Pipelines(config))
<1> DEFINE p == Pipelines(config)
           present == Library(config)
<1>1. /\ config.chunk \in Nat
      /\ config.affine => config.stride > 1 /\ config.fuse /\ config.chunk > 0
  BY Validated
<1>2. DOMAIN p = {"pipeline", "jacobian", "invert", "chunk", "keccak"}
  BY DEF Pipelines
<1>3. p["pipeline"] \in present
  BY DEF Pipelines, Library
<1>4. p["jacobian"] = "none" \/ p["jacobian"] \in present
  BY DEF Pipelines, Library
<1>5. p["invert"] = "none" \/ p["invert"] \in present
  BY DEF Pipelines, Library
<1>6. p["chunk"] = "none" \/ p["chunk"] \in present
  BY <1>1 DEF Pipelines, Library, SplitKeccakEnabled
<1>7. p["keccak"] = "none" \/ p["keccak"] \in present
  BY <1>1 DEF Pipelines, Library, SplitKeccakEnabled
<1> HIDE DEF p, present
<1>8. \A role \in DOMAIN p : p[role] = "none" \/ p[role] \in present
  BY <1>2, <1>3, <1>4, <1>5, <1>6, <1>7
<1>9. QED
  BY <1>8 DEF KernelsMissing, p, present

LEMMA ThreadgroupFits ==
  ASSUME Configured
  PROVE  /\ MaxThreads >= SimdWidth
         /\ ThreadgroupSize \in 1 .. Smaller(MaxThreads, 256)
         /\ ThreadgroupSize % SimdWidth = 0
<1>1. /\ SimdWidth \in Nat \ {0} /\ MaxThreads \in Nat \ {0}
      /\ 32 % SimdWidth = 0 /\ SimdWidth <= MaxThreads
  BY MetalKernelsAssumption
<1>2. SimdWidth <= 32
  BY <1>1, Z3
<1>3. CASE config.group = 0
  <2> DEFINE threads == Smaller(Greater(128, SimdWidth), MaxThreads)
             k == threads \div SimdWidth
  <2>1. threads \in SimdWidth .. 128 /\ threads <= MaxThreads
    BY <1>1, <1>2 DEF Smaller, Greater
  <2>2. ThreadgroupSize = k * SimdWidth
    BY <1>3 DEF ThreadgroupSize
  <2> HIDE DEF threads
  <2>3. k \in Nat /\ k * SimdWidth <= threads /\ threads < k * SimdWidth + SimdWidth
    BY <1>1, <2>1, Z3
  <2> HIDE DEF k
  <2>4. k * SimdWidth \in Nat /\ k * SimdWidth >= 1
    <3>1. k # 0
      BY <1>1, <2>1, <2>3
    <3>2. QED
      BY <1>1, <2>3, <3>1
  <2>5. (k * SimdWidth) % SimdWidth = 0
    BY <1>1, <2>3, Z3
  <2>6. QED
    BY <1>1, <2>1, <2>2, <2>3, <2>4, <2>5 DEF Smaller
<1>4. CASE config.group # 0
  <2>1. /\ config.group \in {32, 64, 128, 256}
        /\ config.group % SimdWidth = 0 /\ config.group <= MaxThreads
    BY <1>4 DEF Configured, GroupAccepted
  <2>2. ThreadgroupSize = config.group
    BY <2>1 DEF ThreadgroupSize
  <2>3. QED
    BY <1>1, <2>1, <2>2 DEF Smaller
<1>5. QED
  BY <1>3, <1>4

(* The threads of a fused dispatch: enough for the chains or chunks, and   *)
(* whole simdgroups where they share an inversion.                         *)
LEMMA FusedThreadsFit ==
  ASSUME Configured, config.fuse, NEW n \in 1 .. Capacity
  PROVE  /\ FusedThreads(n) \in 1 .. MaxBatch
         /\ CeilDiv(n, IF config.stride > 1 THEN config.stride ELSE config.chunk)
              <= FusedThreads(n)
         /\ SimdEnabled(config) => FusedThreads(n) % SimdWidth = 0
<1> DEFINE part == IF config.stride > 1 THEN config.stride ELSE config.chunk
           exact == CeilDiv(n, part)
<1>1. /\ config.chunk \in Nat \ {0} /\ config.stride \in Nat \ {0}
      /\ config.affine => config.stride > 1
      /\ config.stride # 1 => config.stride >= 8
  BY Validated DEF Configured
<1>2. /\ n \in Nat \ {0} /\ n <= MaxBatch /\ MaxBatch \in Nat /\ 32 <= MaxBatch
      /\ SimdWidth \in Nat \ {0} /\ 32 % SimdWidth = 0
  BY MetalKernelsAssumption
<1>3. FusedThreadsExact(n) = exact
  BY <1>1 DEF FusedThreadsExact, EffectiveStride, Greater
<1>4. part \in Nat \ {0} /\ exact \in 1 .. n
  <2>1. part \in Nat \ {0}
    BY <1>1
  <2> HIDE DEF part
  <2>2. QED
    BY <1>2, <2>1, CeilDivIs
<1>5. CASE SimdEnabled(config)
  <2>1. part = config.stride /\ part >= 8
    BY <1>1, <1>5 DEF SimdEnabled
  <2>2. FusedThreads(n) = CeilDiv(exact, 32) * 32
    BY <1>1, <1>3, <1>5 DEF FusedThreads, SimdEnabled
  <2> DEFINE q == CeilDiv(exact, 32)
  <2> HIDE DEF exact, part
  <2>3. q \in 1 .. exact /\ exact <= q * 32 /\ q * 32 < exact + 32
    <3>1. exact \in Nat \ {0} /\ 32 \in Nat \ {0}
      BY <1>4
    <3>2. QED
      BY <3>1, CeilDivIs DEF q
  <2>4. exact * part < n + part
    BY <1>2, <1>4, CeilDivIs DEF exact
  <2>5. exact <= 32 \/ exact + 31 <= n
    <3>1. SUFFICES ASSUME exact > 32 PROVE exact + 31 <= n
      BY <1>2, <1>4
    <3>2. (exact - 1) * part < n
      <4>1. (exact - 1) * part = exact * part - part /\ exact * part \in Nat
        BY <1>4
      <4>2. QED
        BY <1>2, <1>4, <2>4, <4>1
    <3>3. (exact - 1) * 8 <= (exact - 1) * part
      BY <1>4, <2>1, <3>1
    <3>4. (exact - 1) * part \in Nat
      BY <1>4
    <3>5. QED
      BY <1>2, <1>4, <3>1, <3>2, <3>3, <3>4
  <2>6. q * 32 <= MaxBatch
    BY <1>2, <1>4, <2>3, <2>5
  <2>7. (q * 32) % SimdWidth = 0
    <3>1. q \in Nat
      BY <2>3, <1>4
    <3> HIDE DEF q
    <3>2. PICK w \in Nat : 32 = w * SimdWidth
      <4>1. 32 = (32 \div SimdWidth) * SimdWidth /\ 32 \div SimdWidth \in Nat
        BY <1>2, Z3
      <4>2. QED
        BY <4>1
    <3>3. q * 32 = (q * w) * SimdWidth /\ q * w \in Nat
      BY <1>2, <3>1, <3>2
    <3>4. QED
      BY <1>2, <3>3, Z3
  <2>8. QED
    BY <1>2, <1>4, <2>2, <2>3, <2>6, <2>7 DEF exact, part
<1>6. CASE ~ SimdEnabled(config)
  <2>1. FusedThreads(n) = exact
    BY <1>3, <1>6 DEF FusedThreads
  <2> HIDE DEF exact, part
  <2>2. QED
    BY <1>2, <1>4, <1>6, <2>1 DEF exact, part
<1>7. QED
  BY <1>5, <1>6

(* A dispatch of n threads, or of one for a chain or a chunk, is in the    *)
(* limits that encode_compute checks.                                      *)
LEMMA BatchEncodable ==
  ASSUME Configured, NEW n \in 1 .. Capacity
  PROVE  /\ ~ Incomplete(Encoded(n))
         /\ \A i \in DOMAIN Encoded(n) : Encodable(Encoded(n)[i])
<1>1. /\ n \in 1 .. MaxBatch
      /\ Path(config)
      /\ config.chunk \in {0, 4, 8, 16, 32}
      /\ config.fuse => config.chunk > 0 /\ ~ config.invert
      /\ config.affine => config.stride > 1 /\ config.fuse
  BY MetalKernelsAssumption, Validated DEF Configured
<1>2. \A d : d.threads \in 1 .. MaxBatch => Encodable(d)
  BY ThreadgroupFits DEF Encodable
<1>3. /\ Inverted(config) \/ Chunked(config) => buffers.xyz = Capacity * 96
      /\ AffineSplit(config) => buffers.xyz = Capacity * 64
  BY <1>1 DEF Configured, Buffers, ScratchBytes, SplitKeccakEnabled, Inverted,
              Chunked, AffineSplit
<1>4. Inverted(config) \/ Chunked(config) \/ AffineSplit(config) => buffers.xyz # 0
  <2>1. Capacity \in Nat \ {0}
    BY MetalKernelsAssumption
  <2>2. Capacity * 96 # 0 /\ Capacity * 64 # 0
    BY <2>1
  <2>3. QED
    BY <1>3, <2>2
<1>5. CASE Plain(config)
  <2>1. Encoded(n) = << Dispatch("derive_addresses", "input", "output", n, FALSE) >>
    BY <1>5, EncodedIs
  <2>2. QED
    BY <1>1, <1>2, <2>1 DEF Incomplete, Dispatch
<1>6. CASE Inverted(config)
  <2>1. Encoded(n) = << Dispatch("jacobian_points", "input", "xyz", n, FALSE),
                        Dispatch("invert_affine_keccak", "xyz", "output", n,
                                 FALSE) >>
    BY <1>6, EncodedIs
  <2>2. QED
    BY <1>1, <1>2, <1>4, <1>6, <2>1 DEF Incomplete, Dispatch
<1>7. CASE Chunked(config)
  <2>1. Encoded(n) = << Dispatch("jacobian_points", "input", "xyz", n, FALSE),
                        Dispatch("chunk_invert_affine_keccak", "xyz", "output",
                                 CeilDiv(n, config.chunk), FALSE) >>
    BY <1>7, EncodedIs
  <2>2. CeilDiv(n, config.chunk) \in 1 .. MaxBatch
    <3>1. n \in Nat \ {0} /\ config.chunk \in Nat \ {0}
      BY <1>1, <1>7 DEF Chunked
    <3>2. CeilDiv(n, config.chunk) \in 1 .. n
      BY <3>1, CeilDivIs
    <3>3. MaxBatch \in Nat /\ n <= MaxBatch
      BY <1>1, MetalKernelsAssumption
    <3>4. QED
      BY <3>1, <3>2, <3>3
  <2>3. QED
    BY <1>1, <1>2, <1>4, <1>7, <2>1, <2>2 DEF Incomplete, Dispatch
<1>8. CASE Jacobian(config)
  <2>1. Encoded(n) = << Dispatch("chunk_derive_addresses", "input", "output",
                                 FusedThreads(n), buffers.state > 0) >>
    BY <1>8, EncodedIs
  <2>2. FusedThreads(n) \in 1 .. MaxBatch
    BY <1>8, FusedThreadsFit DEF Jacobian
  <2>3. QED
    BY <1>2, <2>1, <2>2 DEF Incomplete, Dispatch
<1>9. CASE AffineWhole(config)
  <2>1. Encoded(n) = << Dispatch("chain_affine_addresses", "input", "output",
                                 FusedThreads(n), buffers.state > 0) >>
    BY <1>9, EncodedIs
  <2>2. FusedThreads(n) \in 1 .. MaxBatch
    BY <1>9, FusedThreadsFit DEF AffineWhole
  <2>3. QED
    BY <1>2, <2>1, <2>2 DEF Incomplete, Dispatch
<1>10. CASE AffineSplit(config)
  <2>1. Encoded(n) = << Dispatch("chain_affine_points", "input", "xyz",
                                 FusedThreads(n), buffers.state > 0),
                        Dispatch("keccak_points", "xyz", "output", n, FALSE) >>
    BY <1>10, EncodedIs
  <2>2. FusedThreads(n) \in 1 .. MaxBatch
    BY <1>10, FusedThreadsFit DEF AffineSplit
  <2>3. QED
    BY <1>1, <1>2, <1>4, <1>10, <2>1, <2>2 DEF Incomplete, Dispatch
<1>11. QED
  BY <1>1, <1>5, <1>6, <1>7, <1>8, <1>9, <1>10 DEF Path

LEMMA KernelsInductive == KernelsInv /\ [KernelsNext]_kernels => KernelsInv'
<1> SUFFICES ASSUME KernelsInv, [KernelsNext]_kernels PROVE KernelsInv'
  OBVIOUS
<1>1. ASSUME UNCHANGED << config, pipelines, buffers >>
      PROVE  /\ Configured => Configured'
             /\ \A n : Encoded(n)' = Encoded(n)
  BY <1>1 DEF Configured, Encoded, Fused, Split, FusedThreads, FusedThreadsExact,
              EffectiveStride, SimdEnabled, Buffers, Pipelines
<1>2. CASE Configure
  BY <1>2 DEF Configure, KernelsInv
<1>3. CASE WithConfig
  <2>1. Validate(config) /\ config' = config /\ pc = "create"
    BY <1>3 DEF WithConfig, KernelsInv
  <2>2. pc' \in {"absent", "device error", "ready"}
    BY <1>3, <2>1, KernelsFound DEF WithConfig
  <2>3. pc' = "ready" => /\ GroupAccepted(config)
                         /\ pipelines' = Pipelines(config)
                         /\ buffers' = Buffers(config)
    BY <1>3 DEF WithConfig
  <2>4. pc' = "ready" => Configured'
    BY <2>1, <2>3 DEF Configured, Buffers, Pipelines, GroupAccepted
  <2>5. QED
    BY <2>1, <2>2, <2>4 DEF KernelsInv
<1>4. CASE Begin
  <2>1. /\ Configured /\ Validate(config)
        /\ UNCHANGED << config, pipelines, buffers >>
        /\ size' \in Count /\ size' \in 1 .. Capacity
    BY <1>4, MetalKernelsAssumption DEF Begin, KernelsInv
  <2>2. /\ ~ Incomplete(Encoded(size'))
        /\ \A i \in DOMAIN Encoded(size') : Encodable(Encoded(size')[i])
    BY <2>1, BatchEncodable
  <2>3. pc' = "committed" /\ dispatches' = Encoded(size')
    BY <1>4, <2>2 DEF Begin
  <2>4. Configured' /\ dispatches' = Encoded(size)'
    <3>1. Configured' /\ Encoded(size') = Encoded(size)'
      BY <2>1 DEF Configured, Encoded, Fused, Split, FusedThreads,
                  FusedThreadsExact, EffectiveStride, SimdEnabled, Buffers,
                  Pipelines
    <3>2. QED
      BY <2>3, <3>1
  <2>5. QED
    BY <2>1, <2>3, <2>4 DEF KernelsInv
<1>5. CASE End
  <2>1. /\ pc = "committed" /\ pc' = "ready"
        /\ UNCHANGED << config, pipelines, buffers >>
    BY <1>5 DEF End
  <2>2. QED
    BY <1>1, <2>1 DEF KernelsInv
<1>6. CASE KernelsStopped \/ UNCHANGED kernels
  <2>1. UNCHANGED << pc, config, pipelines, buffers, size, dispatches >>
    BY <1>6 DEF KernelsStopped, kernels
  <2>2. Configured => Configured'
    BY <1>1, <2>1
  <2>3. Encoded(size)' = Encoded(size)
    BY <2>1 DEF Encoded, Fused, Split, FusedThreads, FusedThreadsExact,
                EffectiveStride, SimdEnabled
  <2>4. QED
    BY <2>1, <2>2, <2>3 DEF KernelsInv
<1>7. QED
  BY <1>2, <1>3, <1>4, <1>5, <1>6 DEF KernelsNext

(* Every configuration that validate accepts has what its path asks for.   *)
THEOREM OnlyDeviceFails == KernelsSpec => []OnlyTheDeviceFails
<1>1. KernelsInit => KernelsInv
  BY DEF KernelsInit, KernelsInv
<1>2. KernelsInv => OnlyTheDeviceFails
  BY DEF KernelsInv, OnlyTheDeviceFails
<1>3. QED
  BY <1>1, <1>2, KernelsInductive, PTL DEF KernelsSpec

-----------------------------------------------------------------------------
(***************************************************************************)
(* The threads of a kernel and what each of them writes.                   *)
(***************************************************************************)
(* What the dispatches of the paths have in common: whole parts, and a     *)
(* thread for each of them.                                                *)
Covered(d, n) ==
  LET part == PerThread(d.kernel) IN
  /\ part \in Nat \ {0}
  /\ d.kernel \in {"chunk_derive_addresses", "chunk_invert_affine_keccak"} =>
       config.chunk \in Nat \ {0} /\ \E m \in Nat : part = m * config.chunk
  /\ d.threads \in Nat
  /\ CeilDiv(n, part) <= d.threads

LEMMA ActiveIs ==
  ASSUME NEW d, size \in Nat \ {0}, Covered(d, size)
  PROVE  Active(d) = 0 .. CeilDiv(size, PerThread(d.kernel)) - 1
<1> DEFINE part == PerThread(d.kernel)
           q == CeilDiv(size, part)
<1>1. part \in Nat \ {0} /\ d.threads \in Nat /\ q <= d.threads
  BY DEF Covered
<1>2. Active(d) = {t \in 0 .. d.threads - 1 : t * part < size}
  BY DEF Active
<1> HIDE DEF part
<1>3. q \in Nat /\ \A t \in Nat : size <= t * part <=> q <= t
  <2>1. q \in 1 .. size
    BY <1>1, CeilDivIs
  <2>2. \A t \in Nat : size <= t * part <=> q <= t
    BY <1>1, CeilDivLeast
  <2>3. QED
    BY <2>1, <2>2
<1> HIDE DEF q
<1>4. ASSUME NEW t \in 0 .. d.threads - 1
      PROVE  t * part < size <=> t <= q - 1
  <2>1. t \in Nat /\ t * part \in Nat
    BY <1>1
  <2>2. size <= t * part <=> q <= t
    BY <1>3, <2>1
  <2>3. QED
    BY <1>3, <2>1, <2>2
<1>5. Active(d) = 0 .. q - 1
  <2>1. \A t \in 0 .. q - 1 : t \in 0 .. d.threads - 1 /\ t <= q - 1
    BY <1>1, <1>3
  <2>2. \A t \in 0 .. d.threads - 1 : t <= q - 1 => t \in 0 .. q - 1
    BY <1>1, <1>3
  <2>3. QED
    BY <1>2, <1>4, <2>1, <2>2
<1>6. QED
  BY <1>5 DEF q, part

LEMMA WrittenIs ==
  ASSUME NEW d, size \in Nat \ {0}, Covered(d, size), NEW t \in Active(d)
  PROVE  LET part == PerThread(d.kernel)
         IN  Written(d, t) = t * part .. Smaller(t * part + part, size) - 1
<1> DEFINE part == PerThread(d.kernel)
           base == t * part
           here == Smaller(part, size - base)
           step == IF d.kernel \in {"chunk_derive_addresses",
                                    "chunk_invert_affine_keccak"}
                     THEN config.chunk ELSE 1
           steps == CeilDiv(here, step) * step
<1>1. part \in Nat \ {0} /\ t \in Nat /\ base < size
  BY DEF Covered, Active
<1>2. step \in Nat \ {0} /\ \E m \in Nat : part = m * step
  <2>1. CASE d.kernel \in {"chunk_derive_addresses", "chunk_invert_affine_keccak"}
    BY <2>1 DEF Covered
  <2>2. CASE d.kernel \notin {"chunk_derive_addresses", "chunk_invert_affine_keccak"}
    <3>1. step = 1 /\ part = part * 1
      BY <1>1, <2>2
    <3>2. QED
      BY <1>1, <3>1
  <2>3. QED
    BY <2>1, <2>2
<1>3. Written(d, t) = base .. Smaller(base + steps, size) - 1
  BY DEF Written
<1>4. base \in Nat
  BY <1>1
<1> HIDE DEF part, base, step
<1>5. here \in Nat \ {0} /\ here <= part
  BY <1>1, <1>4 DEF Smaller
<1>6. CeilDiv(here, step) \in Nat /\ here <= steps
  <2> HIDE DEF here
  <2>1. CeilDiv(here, step) \in 1 .. here /\ here <= CeilDiv(here, step) * step
    BY <1>2, <1>5, CeilDivIs
  <2>2. QED
    BY <2>1
<1>7. steps \in Nat
  <2> HIDE DEF here
  <2>1. QED
    BY <1>2, <1>6
<1>8. Smaller(base + steps, size) = Smaller(base + part, size)
  <2>1. CASE here = part
    <3>1. PICK m \in Nat : part = m * step
      BY <1>2
    <3>2. CeilDiv(here, step) <= m
      BY <1>2, <1>5, <2>1, <3>1, CeilDivLeast
    <3>3. CeilDiv(here, step) * step <= m * step
      <4> HIDE DEF here
      <4>1. QED
        BY <1>2, <1>6, <3>1, <3>2
    <3>4. steps = part
      <4> HIDE DEF here
      <4>1. QED
        BY <1>1, <1>6, <1>7, <2>1, <3>1, <3>3
    <3>5. QED
      BY <3>4
  <2>2. CASE here # part
    <3>1. here = size - base
      BY <2>2 DEF Smaller
    <3> HIDE DEF here, steps
    <3>2. QED
      BY <1>1, <1>4, <1>5, <1>6, <1>7, <3>1 DEF Smaller
  <2>3. QED
    BY <2>1, <2>2
<1>9. QED
  BY <1>3, <1>8 DEF base, part

(* Each address has one thread.                                            *)
LEMMA WrittenOnce ==
  ASSUME NEW d, size \in Nat \ {0}, Covered(d, size)
  PROVE  /\ UNION {Written(d, t) : t \in Active(d)} = 0 .. size - 1
         /\ \A t, u \in Active(d) :
              t < u => Written(d, t) \intersect Written(d, u) = {}
<1> DEFINE part == PerThread(d.kernel)
           q == CeilDiv(size, part)
<1>1. part \in Nat \ {0}
  BY DEF Covered
<1>2. Active(d) = 0 .. q - 1
  BY ActiveIs
<1>3. \A t \in Active(d) :
        Written(d, t) = t * part .. Smaller(t * part + part, size) - 1
  BY WrittenIs
<1> HIDE DEF part
<1>4. q \in Nat /\ size <= q * part
  <2>1. q \in 1 .. size /\ size <= q * part
    BY <1>1, CeilDivIs
  <2>2. QED
    BY <2>1
<1> HIDE DEF q
<1>5. ASSUME NEW t \in Active(d), NEW e \in Written(d, t)
      PROVE  e \in 0 .. size - 1 /\ t * part <= e /\ e < t * part + part
  <2>1. t \in Nat
    BY <1>2, <1>4
  <2>2. t * part \in Nat
    BY <1>1, <2>1
  <2>3. e \in t * part .. Smaller(t * part + part, size) - 1
    BY <1>3
  <2>4. QED
    BY <1>1, <2>2, <2>3 DEF Smaller
<1>6. ASSUME NEW e \in 0 .. size - 1
      PROVE  \E t \in Active(d) : e \in Written(d, t)
  <2> DEFINE t == e \div part
  <2>1. t \in Nat /\ t * part <= e /\ e < t * part + part
    BY <1>1, Z3
  <2> HIDE DEF t
  <2>2. t < q
    <3> SUFFICES ASSUME q <= t PROVE FALSE
      BY <1>4, <2>1
    <3>1. q * part <= t * part /\ q * part \in Nat /\ t * part \in Nat
      BY <1>1, <1>4, <2>1
    <3>2. QED
      BY <1>4, <2>1, <3>1
  <2>3. t \in Active(d)
    BY <1>2, <1>4, <2>1, <2>2
  <2>4. t * part \in Nat
    BY <1>1, <2>1
  <2>5. e \in t * part .. Smaller(t * part + part, size) - 1
    BY <1>1, <2>1, <2>4 DEF Smaller
  <2>6. QED
    BY <1>3, <2>3, <2>5
<1>7. ASSUME NEW t \in Active(d), NEW u \in Active(d), t < u
      PROVE  Written(d, t) \intersect Written(d, u) = {}
  <2>1. t \in Nat /\ u \in Nat
    BY <1>2
  <2>2. (t + 1) * part <= u * part
    BY <1>1, <1>7, <2>1
  <2>3. (t + 1) * part = t * part + part
    BY <1>1, <2>1
  <2>4. t * part \in Nat /\ u * part \in Nat
    BY <1>1, <2>1
  <2>5. SUFFICES ASSUME NEW e, e \in Written(d, t), e \in Written(d, u)
                 PROVE  FALSE
    OBVIOUS
  <2>6. e \in Nat /\ e < t * part + part /\ u * part <= e
    BY <1>5, <2>5
  <2>7. QED
    BY <1>1, <2>2, <2>3, <2>4, <2>6
<1>8. QED
  BY <1>5, <1>6, <1>7

(* The dispatches of every path: how many there are, and that each covers  *)
(* the batch.                                                              *)
LEMMA BatchCovered ==
  ASSUME Configured, NEW n \in 1 .. Capacity
  PROVE  \A i \in DOMAIN Encoded(n) : Covered(Encoded(n)[i], n)
<1>1. /\ n \in Nat \ {0}
      /\ Path(config)
      /\ config.chunk \in {0, 4, 8, 16, 32}
      /\ config.stride \in {1, 8, 16, 32, 64}
      /\ config.fuse => config.chunk > 0 /\ ~ config.invert
      /\ config.affine => config.stride > 1 /\ config.fuse
      /\ config.stride # 1 => config.fuse /\ config.stride % config.chunk = 0
  BY Validated, MetalKernelsAssumption DEF Configured
(* A thread for each element.                                              *)
<1>2. ASSUME NEW d, PerThread(d.kernel) = 1, d.threads = n,
             d.kernel \notin {"chunk_derive_addresses", "chunk_invert_affine_keccak"}
      PROVE  Covered(d, n)
  <2>1. CeilDiv(n, 1) = n
    BY <1>1, CeilDivByOne
  <2>2. QED
    BY <1>1, <1>2, <2>1 DEF Covered
<1>3. CASE Plain(config)
  <2>1. Encoded(n) = << Dispatch("derive_addresses", "input", "output", n, FALSE) >>
    BY <1>3, EncodedIs
  <2>2. QED
    BY <1>2, <2>1 DEF PerThread, Dispatch
<1>4. CASE Inverted(config)
  <2>1. Encoded(n) = << Dispatch("jacobian_points", "input", "xyz", n, FALSE),
                        Dispatch("invert_affine_keccak", "xyz", "output", n,
                                 FALSE) >>
    BY <1>4, EncodedIs
  <2>2. QED
    BY <1>2, <2>1 DEF PerThread, Dispatch
<1>5. CASE Chunked(config)
  <2> DEFINE first == Dispatch("jacobian_points", "input", "xyz", n, FALSE)
             d == Dispatch("chunk_invert_affine_keccak", "xyz", "output",
                           CeilDiv(n, config.chunk), FALSE)
  <2>1. Encoded(n) = << first, d >>
    BY <1>5, EncodedIs
  <2>2. Covered(d, n)
    <3>1. config.chunk \in Nat \ {0} /\ config.chunk = 1 * config.chunk
      BY <1>1, <1>5 DEF Chunked
    <3>2. CeilDiv(n, config.chunk) \in Nat
      <4>1. CeilDiv(n, config.chunk) \in 1 .. n
        BY <1>1, <3>1, CeilDivIs
      <4>2. QED
        BY <1>1, <4>1
    <3>3. /\ PerThread(d.kernel) = config.chunk
          /\ d.threads = CeilDiv(n, config.chunk)
      BY DEF PerThread, Dispatch
    <3>4. d.threads \in Nat
      BY <3>2, <3>3
    <3> HIDE DEF d
    <3>5. QED
      BY <3>1, <3>3, <3>4 DEF Covered
  <2>3. Covered(first, n)
    BY <1>2 DEF PerThread, Dispatch
  <2> HIDE DEF first, d
  <2>4. QED
    BY <2>1, <2>2, <2>3
<1>6. CASE Jacobian(config)
  <2> DEFINE d == Dispatch("chunk_derive_addresses", "input", "output",
                           FusedThreads(n), buffers.state > 0)
             part == IF config.stride > 1 THEN config.stride ELSE config.chunk
  <2>1. Encoded(n) = << d >>
    BY <1>6, EncodedIs
  <2>2. FusedThreads(n) \in 1 .. MaxBatch /\ CeilDiv(n, part) <= FusedThreads(n)
    BY <1>6, FusedThreadsFit DEF Jacobian
  <2>3. PerThread(d.kernel) = part /\ d.threads = FusedThreads(n)
    BY DEF PerThread, Dispatch
  <2>4. part \in Nat \ {0} /\ config.chunk \in Nat \ {0}
    BY <1>1, <1>6 DEF Jacobian
  <2>5. \E m \in Nat : part = m * config.chunk
    <3>1. CASE config.stride > 1
      <4>1. config.stride = (config.stride \div config.chunk) * config.chunk
        BY <1>1, <2>4, <3>1, Z3
      <4>2. config.stride \div config.chunk \in Nat
        BY <1>1, <2>4, Z3
      <4>3. QED
        BY <3>1, <4>1, <4>2
    <3>2. CASE ~ config.stride > 1
      <4>1. part = 1 * config.chunk
        BY <2>4, <3>2
      <4>2. QED
        BY <4>1
    <3>3. QED
      BY <3>1, <3>2
  <2>6. FusedThreads(n) \in Nat
    BY <2>2, MetalKernelsAssumption
  <2> HIDE DEF d, part
  <2>7. Covered(d, n)
    BY <2>2, <2>3, <2>4, <2>5, <2>6 DEF Covered
  <2>8. QED
    BY <2>1, <2>7
<1>7. ASSUME NEW d, config.fuse, config.affine,
             d.kernel \in {"chain_affine_addresses", "chain_affine_points"},
             d.threads = FusedThreads(n)
      PROVE  Covered(d, n)
  <2>1. config.stride > 1 /\ config.stride \in Nat \ {0}
    BY <1>1, <1>7
  <2>2. /\ FusedThreads(n) \in 1 .. MaxBatch
        /\ CeilDiv(n, config.stride) <= FusedThreads(n)
    BY <1>7, <2>1, FusedThreadsFit
  <2>3. FusedThreads(n) \in Nat
    BY <2>2, MetalKernelsAssumption
  <2>4. PerThread(d.kernel) = config.stride
    BY <1>7 DEF PerThread
  <2>5. QED
    BY <1>7, <2>1, <2>2, <2>3, <2>4 DEF Covered
<1>8. CASE AffineWhole(config)
  <2>1. Encoded(n) = << Dispatch("chain_affine_addresses", "input", "output",
                                 FusedThreads(n), buffers.state > 0) >>
    BY <1>8, EncodedIs
  <2>2. QED
    BY <1>7, <1>8, <2>1 DEF AffineWhole, Dispatch
<1>9. CASE AffineSplit(config)
  <2>1. Encoded(n) = << Dispatch("chain_affine_points", "input", "xyz",
                                 FusedThreads(n), buffers.state > 0),
                        Dispatch("keccak_points", "xyz", "output", n, FALSE) >>
    BY <1>9, EncodedIs
  <2>2. QED
    BY <1>2, <1>7, <1>9, <2>1 DEF AffineSplit, Dispatch, PerThread
<1>10. QED
  BY <1>1, <1>3, <1>4, <1>5, <1>6, <1>8, <1>9 DEF Path

LEMMA CommittedIs ==
  ASSUME KernelsInv, pc = "committed"
  PROVE  /\ Configured
         /\ size \in 1 .. Capacity /\ size \in Nat \ {0}
         /\ Capacity \in Nat \ {0} /\ size <= Capacity
         /\ dispatches = Encoded(size)
         /\ \A i \in DOMAIN dispatches : Covered(dispatches[i], size)
         /\ Path(config)
<1>1. Configured /\ size \in 1 .. Capacity /\ dispatches = Encoded(size)
  BY MetalKernelsAssumption DEF KernelsInv
<1>2. QED
  BY <1>1, BatchCovered, Validated, MetalKernelsAssumption DEF Configured

(* One dispatch feeds the next, and the last one writes the addresses.     *)
LEMMA DispatchesChain ==
  ASSUME KernelsInv, pc = "committed"
  PROVE  /\ dispatches[Len(dispatches)].out = "output"
         /\ \A i \in DOMAIN dispatches :
              /\ dispatches[i].in = IF i = 1 THEN "input" ELSE dispatches[i - 1].out
              /\ SimdEnabled(config) /\ Affine(dispatches[i].kernel) =>
                   dispatches[i].threads % SimdWidth = 0
<1>1. /\ Configured /\ size \in 1 .. Capacity /\ dispatches = Encoded(size)
      /\ Path(config)
  BY CommittedIs
<1>2. CASE Plain(config)
  <2>1. dispatches = << Dispatch("derive_addresses", "input", "output", size,
                                 FALSE) >>
    BY <1>1, <1>2, EncodedIs
  <2>2. QED
    BY <2>1 DEF Dispatch, Affine
<1>3. CASE Inverted(config)
  <2>1. dispatches = << Dispatch("jacobian_points", "input", "xyz", size, FALSE),
                        Dispatch("invert_affine_keccak", "xyz", "output", size,
                                 FALSE) >>
    BY <1>1, <1>3, EncodedIs
  <2>2. QED
    BY <2>1 DEF Dispatch, Affine
<1>4. CASE Chunked(config)
  <2>1. dispatches = << Dispatch("jacobian_points", "input", "xyz", size, FALSE),
                        Dispatch("chunk_invert_affine_keccak", "xyz", "output",
                                 CeilDiv(size, config.chunk), FALSE) >>
    BY <1>1, <1>4, EncodedIs
  <2>2. QED
    BY <2>1 DEF Dispatch, Affine
<1>5. CASE Jacobian(config)
  <2>1. dispatches = << Dispatch("chunk_derive_addresses", "input", "output",
                                 FusedThreads(size), buffers.state > 0) >>
    BY <1>1, <1>5, EncodedIs
  <2>2. QED
    BY <2>1 DEF Dispatch, Affine
<1>6. SimdEnabled(config) /\ config.fuse => FusedThreads(size) % SimdWidth = 0
  BY <1>1, FusedThreadsFit
<1>7. CASE AffineWhole(config)
  <2>1. dispatches = << Dispatch("chain_affine_addresses", "input", "output",
                                 FusedThreads(size), buffers.state > 0) >>
    BY <1>1, <1>7, EncodedIs
  <2>2. QED
    BY <1>6, <1>7, <2>1 DEF Dispatch, AffineWhole
<1>8. CASE AffineSplit(config)
  <2>1. dispatches = << Dispatch("chain_affine_points", "input", "xyz",
                                 FusedThreads(size), buffers.state > 0),
                        Dispatch("keccak_points", "xyz", "output", size, FALSE) >>
    BY <1>1, <1>8, EncodedIs
  <2>2. QED
    BY <1>6, <1>8, <2>1 DEF Dispatch, Affine, AffineSplit
<1>9. QED
  BY <1>1, <1>2, <1>3, <1>4, <1>5, <1>7, <1>8 DEF Path

(* For every capacity, batch and accepted configuration: no address is     *)
(* left out, and none is computed twice.                                   *)
THEOREM AddressesOnce == KernelsSpec => []EveryAddressOnce
<1>1. KernelsInit => KernelsInv
  BY DEF KernelsInit, KernelsInv
<1>2. KernelsInv => EveryAddressOnce
  <2>1. SUFFICES ASSUME KernelsInv, pc = "committed"
                 PROVE  EveryAddressOnce
    BY DEF EveryAddressOnce
  <2>2. ASSUME NEW i \in DOMAIN dispatches
        PROVE  /\ UNION {Written(dispatches[i], t) : t \in Active(dispatches[i])}
                    = 0 .. size - 1
               /\ \A t, u \in Active(dispatches[i]) :
                    t < u => Written(dispatches[i], t)
                               \intersect Written(dispatches[i], u) = {}
    <3>1. size \in Nat \ {0} /\ Covered(dispatches[i], size)
      BY <2>1, CommittedIs
    <3>2. QED
      BY <3>1, WrittenOnce
  <2>3. QED
    BY <2>1, <2>2, DispatchesChain DEF EveryAddressOnce
<1>3. QED
  BY <1>1, <1>2, KernelsInductive, PTL DEF KernelsSpec

(***************************************************************************)
(* The sizes of the buffers.                                               *)
(***************************************************************************)
LastThread(d) == CHOOSE t \in Active(d) : \A u \in Active(d) : u <= t

LEMMA LastThreadIs ==
  ASSUME NEW d, size \in Nat \ {0}, Covered(d, size)
  PROVE  LastThread(d) + 1 = CeilDiv(size, PerThread(d.kernel))
<1> DEFINE q == CeilDiv(size, PerThread(d.kernel))
<1>1. Active(d) = 0 .. q - 1
  BY ActiveIs
<1>2. q \in Nat \ {0}
  <2>1. PerThread(d.kernel) \in Nat \ {0}
    BY DEF Covered
  <2>2. q \in 1 .. size
    BY <2>1, CeilDivIs
  <2>3. QED
    BY <2>2
<1> HIDE DEF q
<1>3. q - 1 \in Active(d) /\ \A u \in Active(d) : u <= q - 1
  BY <1>1, <1>2
<1>4. LastThread(d) \in Active(d) /\ q - 1 <= LastThread(d)
  BY <1>3 DEF LastThread
<1>5. LastThread(d) = q - 1
  BY <1>1, <1>2, <1>3, <1>4
<1>6. QED
  BY <1>2, <1>5 DEF q

KeysRead(d) ==
  IF Affine(d.kernel) \/ config.stride > 1 THEN LastThread(d) + 1 ELSE size

(* What BuffersFit says of a dispatch and the one before it.               *)
Fits(d, before) ==
  /\ size * WrittenBytes(d.kernel) <= buffers[d.out]
  /\ d.in = "input" => KeysRead(d) * 32 <= buffers.input
  /\ d.in = "xyz" => /\ ReadBytes(d.kernel) = WrittenBytes(before.kernel)
                     /\ size * ReadBytes(d.kernel) <= buffers.xyz
  /\ d.extra <=> Affine(d.kernel) /\ PersistEnabled(config)
  /\ d.extra => (LastThread(d) + 1) * 64 <= buffers.state
  /\ Affine(d.kernel) =>
       (IF PersistEnabled(config) THEN config.stride ELSE config.stride - 1)
         < 2 ^ config.window

(* A chain, or an address without chains, has a place for its key, and     *)
(* where points are kept one for them.                                     *)
LEMMA PlacesForKeys ==
  ASSUME KernelsInv, pc = "committed"
  PROVE  /\ config.stride > 1 => CeilDiv(size, config.stride) <= KeySlots(config)
         /\ config.stride = 1 => size <= KeySlots(config)
         /\ KeySlots(config) \in Nat \ {0}
<1>1. /\ size \in Nat \ {0} /\ Capacity \in Nat \ {0} /\ size <= Capacity
      /\ config.stride \in {1, 8, 16, 32, 64}
      /\ config.stride # 1 => config.fuse
  BY CommittedIs, Validated DEF Configured
<1>2. EffectiveStride(config) = config.stride /\ config.stride \in Nat \ {0}
  BY <1>1 DEF EffectiveStride
<1>3. CeilDiv(size, config.stride) <= CeilDiv(Capacity, config.stride)
  BY <1>1, <1>2, CeilDivGrows
<1>4. CeilDiv(Capacity, config.stride) \in Nat \ {0}
  <2>1. CeilDiv(Capacity, config.stride) \in 1 .. Capacity
    BY <1>1, <1>2, CeilDivIs
  <2>2. QED
    BY <1>1, <2>1
<1>5. config.stride = 1 => CeilDiv(Capacity, config.stride) = Capacity
  BY <1>1, CeilDivByOne
<1>6. KeySlots(config) = CeilDiv(Capacity, config.stride)
  BY <1>2 DEF KeySlots
<1>7. QED
  BY <1>1, <1>3, <1>4, <1>5, <1>6

LEMMA BufferSizes ==
  ASSUME KernelsInv, pc = "committed"
  PROVE  /\ buffers["output"] = Capacity * 20
         /\ buffers["xyz"] = Capacity * ScratchBytes(config)
         /\ buffers.input = KeySlots(config) * 32
         /\ buffers.state = IF PersistEnabled(config) THEN KeySlots(config) * 64 ELSE 0
         /\ buffers.state > 0 <=> PersistEnabled(config)
         /\ \A each \in Nat : size * each <= Capacity * each
<1>1. buffers = Buffers(config)
  BY CommittedIs DEF Configured
<1>2. KeySlots(config) \in Nat \ {0}
  BY PlacesForKeys
<1>3. KeySlots(config) * 64 > 0
  BY <1>2
<1>4. size \in Nat /\ Capacity \in Nat /\ size <= Capacity
  BY CommittedIs
<1>5. \A each \in Nat : size * each <= Capacity * each
  BY <1>4
<1>6. QED
  BY <1>1, <1>3, <1>5 DEF Buffers

(* The kernels of the other paths.                                         *)
LEMMA PlainFits ==
  ASSUME KernelsInv, pc = "committed", NEW d, NEW before,
         Covered(d, size),
         ~ d.extra, d.extra \in BOOLEAN, ~ Affine(d.kernel),
         d.in = "input" => config.stride = 1 \/ PerThread(d.kernel) = config.stride,
         \/ d.out = "output" /\ WrittenBytes(d.kernel) = 20
         \/ d.out = "xyz" /\ WrittenBytes(d.kernel) = ScratchBytes(config),
         d.in = "xyz" => /\ ReadBytes(d.kernel) = WrittenBytes(before.kernel)
                         /\ ReadBytes(d.kernel) = ScratchBytes(config)
  PROVE  Fits(d, before)
<1>1. ScratchBytes(config) \in Nat /\ 20 \in Nat
  BY DEF ScratchBytes
<1>2. size * WrittenBytes(d.kernel) <= buffers[d.out]
  BY <1>1, BufferSizes
<1>3. d.in = "xyz" => size * ReadBytes(d.kernel) <= buffers.xyz
  BY <1>1, BufferSizes
<1>4. d.in = "input" => KeysRead(d) * 32 <= buffers.input
  <2>1. SUFFICES ASSUME d.in = "input"
                 PROVE  KeysRead(d) <= KeySlots(config) /\ KeysRead(d) \in Int
    <3>1. KeySlots(config) \in Nat
      BY PlacesForKeys
    <3>2. QED
      BY <2>1, <3>1, BufferSizes
  <2>2. /\ size \in Nat \ {0} /\ config.stride \in {1, 8, 16, 32, 64}
    BY CommittedIs, Validated DEF Configured
  <2>3. CASE config.stride = 1
    BY <2>2, <2>3, PlacesForKeys DEF KeysRead
  <2>4. CASE config.stride # 1
    <3>1. config.stride > 1 /\ config.stride \in Nat \ {0}
      BY <2>2, <2>4
    <3>2. KeysRead(d) = CeilDiv(size, config.stride)
      BY <2>1, <2>2, <2>4, <3>1, LastThreadIs DEF KeysRead
    <3>3. CeilDiv(size, config.stride) \in Int
      <4>1. CeilDiv(size, config.stride) \in 1 .. size
        BY <2>2, <3>1, CeilDivIs
      <4>2. QED
        BY <4>1
    <3>4. QED
      BY <3>1, <3>2, <3>3, PlacesForKeys
  <2>5. QED
    BY <2>3, <2>4
<1>5. QED
  BY <1>2, <1>3, <1>4 DEF Fits

(* The kernels of the affine paths.                                        *)
LEMMA AffineFits ==
  ASSUME KernelsInv, pc = "committed", NEW d, NEW before,
         Covered(d, size), config.affine,
         Affine(d.kernel), d.in = "input", d.extra = (buffers.state > 0),
         \/ d.out = "output" /\ WrittenBytes(d.kernel) = 20
         \/ d.out = "xyz" /\ WrittenBytes(d.kernel) = ScratchBytes(config)
  PROVE  Fits(d, before)
<1>1. ScratchBytes(config) \in Nat /\ 20 \in Nat
  BY DEF ScratchBytes
<1>2. size * WrittenBytes(d.kernel) <= buffers[d.out]
  BY <1>1, BufferSizes
<1>3. /\ size \in Nat \ {0} /\ config.stride \in {1, 8, 16, 32, 64}
      /\ config.stride > 1
  BY CommittedIs, Validated DEF Configured
<1>4. LastThread(d) + 1 = CeilDiv(size, config.stride)
  BY <1>3, LastThreadIs DEF Affine, PerThread
<1>5. CeilDiv(size, config.stride) \in Int
  <2>1. config.stride \in Nat \ {0}
    BY <1>3
  <2>2. CeilDiv(size, config.stride) \in 1 .. size
    BY <1>3, <2>1, CeilDivIs
  <2>3. QED
    BY <2>2
<1>6. CeilDiv(size, config.stride) <= KeySlots(config) /\ KeySlots(config) \in Nat
  BY <1>3, PlacesForKeys
<1>7. KeysRead(d) * 32 <= buffers.input
  BY <1>3, <1>4, <1>5, <1>6, BufferSizes DEF KeysRead
<1>8. d.extra <=> PersistEnabled(config)
  BY BufferSizes
<1>9. d.extra => (LastThread(d) + 1) * 64 <= buffers.state
  BY <1>4, <1>5, <1>6, <1>8, BufferSizes
<1>10. (IF PersistEnabled(config) THEN config.stride ELSE config.stride - 1)
         < 2 ^ config.window
  <2>1. config.window \in {4, 8, 16} /\ 2 ^ config.window > config.stride
    BY CommittedIs DEF Configured, Validate
  <2>2. 2 ^ config.window \in Int
    BY <2>1
  <2>3. QED
    BY <1>3, <2>1, <2>2
<1>11. QED
  BY <1>2, <1>7, <1>8, <1>9, <1>10 DEF Fits

(* Every dispatch of a batch, on the six paths.                            *)
LEMMA DispatchesFit ==
  ASSUME KernelsInv, pc = "committed"
  PROVE  \A i \in DOMAIN dispatches : Fits(dispatches[i], dispatches[i - 1])
<1>1. /\ Configured /\ size \in 1 .. Capacity /\ dispatches = Encoded(size)
      /\ Path(config)
      /\ \A i \in DOMAIN dispatches : Covered(dispatches[i], size)
  BY CommittedIs
<1>2. /\ config.affine => config.stride > 1 /\ config.fuse
      /\ ~ config.fuse => config.stride = 1
      /\ config.stride # 1 => config.stride > 1
  BY <1>1, Validated DEF Configured
<1>3. ~ config.affine => ~ (buffers.state > 0)
  BY BufferSizes DEF PersistEnabled
<1>4. (buffers.state > 0) \in BOOLEAN
  BY BufferSizes
<1>5. CASE Plain(config)
  <2> DEFINE d == Dispatch("derive_addresses", "input", "output", size, FALSE)
  <2>1. dispatches = << d >>
    BY <1>1, <1>5, EncodedIs
  <2>2. /\ d.extra = FALSE /\ ~ Affine(d.kernel) /\ d.in = "input"
        /\ d.out = "output" /\ WrittenBytes(d.kernel) = 20
    BY DEF Dispatch, Affine, WrittenBytes
  <2>3. config.stride = 1
    BY <1>2, <1>5 DEF Plain
  <2> HIDE DEF d
  <2>4. Covered(d, size)
    BY <1>1, <2>1
  <2>5. \A before : Fits(d, before)
    BY <2>2, <2>3, <2>4, PlainFits
  <2>6. QED
    BY <2>1, <2>5
<1>6. CASE Inverted(config) \/ Chunked(config)
  <2> DEFINE first == Dispatch("jacobian_points", "input", "xyz", size, FALSE)
             second == IF config.invert
                         THEN Dispatch("invert_affine_keccak", "xyz", "output",
                                       size, FALSE)
                         ELSE Dispatch("chunk_invert_affine_keccak", "xyz", "output",
                                       CeilDiv(size, config.chunk), FALSE)
  <2>1. dispatches = << first, second >>
    BY <1>1, <1>6, EncodedIs DEF Inverted, Chunked
  <2>2. /\ first.extra = FALSE /\ ~ Affine(first.kernel) /\ first.in = "input"
        /\ first.out = "xyz" /\ WrittenBytes(first.kernel) = 96
    BY DEF Dispatch, Affine, WrittenBytes
  <2>3. /\ second.extra = FALSE /\ ~ Affine(second.kernel) /\ second.in = "xyz"
        /\ second.out = "output" /\ WrittenBytes(second.kernel) = 20
        /\ ReadBytes(second.kernel) = 96
    BY DEF Dispatch, Affine, WrittenBytes, ReadBytes
  <2>4. ScratchBytes(config) = 96 /\ config.stride = 1
    BY <1>2, <1>6 DEF Inverted, Chunked, ScratchBytes
  <2> HIDE DEF first, second
  <2>5. Covered(first, size) /\ Covered(second, size)
    BY <1>1, <2>1
  <2>6. \A before : Fits(first, before)
    BY <2>2, <2>4, <2>5, PlainFits
  <2>7. Fits(second, first)
    <3>1. /\ ~ second.extra /\ second.extra \in BOOLEAN
          /\ second.in # "input"
      BY <2>3
    <3>2. /\ ReadBytes(second.kernel) = WrittenBytes(first.kernel)
          /\ ReadBytes(second.kernel) = ScratchBytes(config)
      BY <2>2, <2>3, <2>4
    <3>3. QED
      BY <2>3, <2>5, <3>1, <3>2, PlainFits
  <2>8. QED
    BY <2>1, <2>6, <2>7
<1>7. CASE Jacobian(config)
  <2> DEFINE d == Dispatch("chunk_derive_addresses", "input", "output",
                           FusedThreads(size), buffers.state > 0)
  <2>1. dispatches = << d >>
    BY <1>1, <1>7, EncodedIs
  <2>2. /\ ~ d.extra /\ d.extra \in BOOLEAN
    BY <1>3, <1>4, <1>7 DEF Dispatch, Jacobian
  <2>3. /\ ~ Affine(d.kernel) /\ d.in = "input"
        /\ d.out = "output" /\ WrittenBytes(d.kernel) = 20
    BY DEF Dispatch, Affine, WrittenBytes
  <2>4. config.stride = 1 \/ PerThread(d.kernel) = config.stride
    BY <1>2 DEF Dispatch, PerThread
  <2> HIDE DEF d
  <2>5. Covered(d, size)
    BY <1>1, <2>1
  <2>6. \A before : Fits(d, before)
    BY <2>2, <2>3, <2>4, <2>5, PlainFits
  <2>7. QED
    BY <2>1, <2>6
<1>8. CASE AffineWhole(config)
  <2> DEFINE d == Dispatch("chain_affine_addresses", "input", "output",
                           FusedThreads(size), buffers.state > 0)
  <2>1. dispatches = << d >>
    BY <1>1, <1>8, EncodedIs
  <2>2. /\ Affine(d.kernel) /\ d.in = "input" /\ d.extra = (buffers.state > 0)
        /\ d.out = "output" /\ WrittenBytes(d.kernel) = 20
    BY DEF Dispatch, Affine, WrittenBytes
  <2>3. config.affine
    BY <1>8 DEF AffineWhole
  <2> HIDE DEF d
  <2>4. Covered(d, size)
    BY <1>1, <2>1
  <2>5. \A before : Fits(d, before)
    BY <2>2, <2>3, <2>4, AffineFits
  <2>6. QED
    BY <2>1, <2>5
<1>9. CASE AffineSplit(config)
  <2> DEFINE first == Dispatch("chain_affine_points", "input", "xyz",
                               FusedThreads(size), buffers.state > 0)
             second == Dispatch("keccak_points", "xyz", "output", size, FALSE)
  <2>1. dispatches = << first, second >>
    BY <1>1, <1>9, EncodedIs
  <2>2. /\ Affine(first.kernel) /\ first.in = "input"
        /\ first.extra = (buffers.state > 0)
        /\ first.out = "xyz" /\ WrittenBytes(first.kernel) = 64
    BY DEF Dispatch, Affine, WrittenBytes
  <2>3. /\ second.extra = FALSE /\ ~ Affine(second.kernel) /\ second.in = "xyz"
        /\ second.out = "output" /\ WrittenBytes(second.kernel) = 20
        /\ ReadBytes(second.kernel) = 64
    BY DEF Dispatch, Affine, WrittenBytes, ReadBytes
  <2>4. config.affine /\ ScratchBytes(config) = 64
    <3>1. config.fuse /\ config.affine /\ config.split_keccak
      BY <1>9 DEF AffineSplit
    <3>2. ~ config.invert
      BY <1>1, <3>1, Validated DEF Configured
    <3>3. QED
      BY <3>1, <3>2 DEF ScratchBytes, SplitKeccakEnabled
  <2> HIDE DEF first, second
  <2>5. Covered(first, size) /\ Covered(second, size)
    BY <1>1, <2>1
  <2>6. \A before : Fits(first, before)
    BY <2>2, <2>4, <2>5, AffineFits
  <2>7. Fits(second, first)
    <3>1. /\ ~ second.extra /\ second.extra \in BOOLEAN
          /\ second.in # "input"
      BY <2>3
    <3>2. /\ ReadBytes(second.kernel) = WrittenBytes(first.kernel)
          /\ ReadBytes(second.kernel) = ScratchBytes(config)
      BY <2>2, <2>3, <2>4
    <3>3. QED
      BY <2>3, <2>5, <3>1, <3>2, PlainFits
  <2>8. QED
    BY <2>1, <2>6, <2>7
<1>10. QED
  BY <1>1, <1>5, <1>6, <1>7, <1>8, <1>9 DEF Path

(* For every capacity, batch and accepted configuration: what the kernels  *)
(* read and write is inside the buffers that with_config allocated, in the *)
(* layout of the kernel before.                                            *)
THEOREM BuffersAreEnough == KernelsSpec => []BuffersFit
<1>1. KernelsInit => KernelsInv
  BY DEF KernelsInit, KernelsInv
<1>2. KernelsInv => BuffersFit
  <2>1. SUFFICES ASSUME KernelsInv, pc = "committed"
                 PROVE  BuffersFit
    BY DEF BuffersFit
  <2>2. QED
    BY <2>1, DispatchesFit DEF BuffersFit, Fits, KeysRead, LastThread
<1>3. QED
  BY <1>1, <1>2, KernelsInductive, PTL DEF KernelsSpec
=============================================================================
