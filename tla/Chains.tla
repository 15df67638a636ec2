------------------------------- MODULE Chains -------------------------------
(***************************************************************************)
(* The scalars of one GPU slot, batch after batch: the startup self-test,  *)
(* the filling or advancing of the chain starts by the host, and what the  *)
(* kernels compute from them with addition formulas that go wrong for      *)
(* P + Q with P = Q or P = -Q.                                             *)
(*                                                                         *)
(* A point is the scalar it is a multiple of, and an address is the point  *)
(* it is hashed from.  Wrong stands for coordinates out of an exceptional  *)
(* addition; it is neither a scalar nor NoScalar.                          *)
(***************************************************************************)
EXTENDS ChainRules

CONSTANTS
  Setups,   (* <<kernel, source>>: the backend's kernel, and how the host  *)
            (* makes the batches of the run.                               *)
  Counts,   (* The values of --gpu-batch-size.                             *)
  Lanes     (* Threads of a simdgroup, one chain each (32), which invert   *)
            (* together; 1 without OPT_SIMD.                               *)

Kernels == {"chunk", "affine", "persist"}
Sources == {"sequential", "pipeline"}

ASSUME SetupsAssumption ==
  /\ Setups \subseteq Kernels \X Sources
  /\ Counts \subseteq Nat \ {0}
  /\ Lanes \in Nat \ {0}
  (* Metal's config.validate; CUDA's and Vulkan's kernels are "chunk".     *)
  /\ Stride = 1 => Setups \subseteq {"chunk"} \X Sources

VARIABLES
  kernel, source,
  capacity,   (* Of the backend, which is the size of the run's batches.   *)
  vector,     (* The next batch of gpu_self_test_batches; 3: tests passed. *)
  count,      (* Addresses of the current batch.                           *)
  starts,     (* Its chain starts.                                         *)
  batches,    (* Batches from the starts of the last fill; 0: none yet.    *)
  resume,     (* The flag the batch is submitted with.                     *)
  kept,       (* The slot's state buffer: the point of a chain's start.    *)
  kept_count, (* persist_count of a warm slot, or 0.                       *)
  addresses,  (* The slot's output.                                        *)
  phase       (* "prepare", "ready", "derived"; "error" ends the backend.  *)

vars == << kernel, source, capacity, vector, count, starts, batches, resume,
           kept, kept_count, addresses, phase >>

Wrong == -1

Point == Scalar \union {Wrong}

Persisting == kernel = "persist" /\ source = "pipeline"

-----------------------------------------------------------------------------
(* The batches of the self-test: scalar 1, the last scalar, and one chain; *)
(* of three addresses at least, so with a small stride it is several, and  *)
(* never more than the backend has room for.                               *)
Larger(a, b) == IF a > b THEN a ELSE b

Lesser(a, b) == IF a < b THEN a ELSE b

TestCount(v) == IF v < 2 THEN 1 ELSE Lesser(Larger(Stride, 3), capacity)

TestFirstAtStride == Larger(Stride, 2)

TestFirst == Larger(Stride, 2) + 1

TestStarts(v) ==
  [c \in Chains(TestCount(v)) |->
     CASE v = 0 -> 1
       [] v = 1 -> Order - 1
       [] OTHER -> TestFirst + c * Stride]

Init ==
  /\ \E setup \in Setups : kernel = setup[1] /\ source = setup[2]
  /\ capacity \in Counts
  /\ vector = 0
  /\ count = TestCount(0)
  /\ starts = TestStarts(0)
  /\ batches = 0
  /\ resume = FALSE
  /\ kept = [c \in {} |-> Wrong]
  /\ kept_count = 0
  /\ addresses = << >>
  /\ phase = "ready"

(* The self-test goes on, and after its last batch the run begins.         *)
Tested ==
  /\ phase = "derived" /\ vector < 3
  /\ vector' = vector + 1
  /\ IF vector < 2
     THEN /\ count' = TestCount(vector')
          /\ starts' = TestStarts(vector')
          /\ phase' = "ready"
     ELSE /\ count' = capacity
          /\ starts' = [c \in {} |-> NoScalar]
          /\ phase' = "prepare"
  /\ UNCHANGED << kernel, source, capacity, batches, resume, kept, kept_count,
                  addresses >>

-----------------------------------------------------------------------------
(* The pipeline's producer moves on the starts it has, if it can; the      *)
(* sequential source and a producer without persistence draw new ones.     *)
CanAdvance ==
  /\ Persisting /\ Stride > 1 /\ DOMAIN starts = Chains(count)
  /\ \A c \in Chains(count) : AdvanceAccepted(starts[c])

Advance ==
  /\ phase = "prepare" /\ CanAdvance
  /\ starts' = [c \in Chains(count) |-> Offset(starts[c], Stride)]
  /\ batches' = batches + 1
  /\ resume' = TRUE
  /\ phase' = "ready"
  /\ UNCHANGED << kernel, source, capacity, vector, count, kept, kept_count,
                  addresses >>

Filled(c) ==
  {k \in Scalar : FillAccepted(k, ChainLen(count, c), Persisting /\ Stride > 1)}

Fill ==
  /\ phase = "prepare" /\ ~ CanAdvance
  /\ starts' \in {s \in [Chains(count) -> Scalar] :
                    \A c \in Chains(count) : s[c] \in Filled(c)}
  /\ batches' = 1
  /\ resume' = FALSE
  /\ phase' = "ready"
  /\ UNCHANGED << kernel, source, capacity, vector, count, kept, kept_count,
                  addresses >>

-----------------------------------------------------------------------------
(* Adding i*G to p*G with an incomplete formula: doubling, or infinity.    *)
Exceptional(p, i) == p = Wrong \/ p = i \/ p + i = Order

(* The multiples of G a thread of chain_affine adds to the chain's first   *)
(* point; the last one is the next batch's start.                          *)
Taken(len) ==
  (1 .. len - 1)
    \union (IF kernel = "persist" /\ len = Stride THEN {Stride} ELSE {})

(* begin_observed: the slot's kept points are used instead of the starts.  *)
Step ==
  /\ resume /\ kernel = "persist"
  /\ kept_count = count /\ WholeChains(count)

FirstPoint(c) == IF Step THEN kept[c] ELSE starts[c]

(* The denominators of a chain are inverted as one product; the lanes of a *)
(* simdgroup that all have a chain multiply theirs together first.         *)
InvertedWith(c) ==
  LET first == (c \div Lanes) * Lanes
      group == first .. first + Lanes - 1
  IN  IF group \subseteq Chains(count) THEN group ELSE {c}

(* One zero makes all of the product's inverses zero.  (A sum beyond Order *)
(* is never looked at: the sum Order comes before it.)                     *)
Spoiled(c) ==
  \E d \in InvertedWith(c) :
    \E j \in Taken(ChainLen(count, d)) : Exceptional(FirstPoint(d), j)

AffinePoint(c, i) == IF Spoiled(c) THEN Wrong ELSE FirstPoint(c) + i

(* The other kernels add G to the last point, again and again; a wrong one *)
(* spoils those that follow.                                               *)
ChunkPoint(p, i) ==
  IF \E j \in 0 .. i - 1 : Exceptional(p + j, 1) THEN Wrong ELSE p + i

ChainPoint(c, i) ==
  IF kernel = "chunk" THEN ChunkPoint(FirstPoint(c), i) ELSE AffinePoint(c, i)

(* The command and end_observed, which has the CPU derive one address.     *)
Derive ==
  /\ phase = "ready"
  /\ addresses' =
       [i \in 0 .. count - 1 |->
          ChainPoint(i \div Stride, i % Stride)]
  /\ kept' = IF kernel = "persist"
             THEN [c \in Chains(count) |->
                     IF ChainLen(count, c) = Stride
                     THEN AffinePoint(c, Stride)
                     ELSE IF c \in DOMAIN kept THEN kept[c] ELSE Wrong]
             ELSE kept
  /\ kept_count' = IF kernel = "persist" /\ WholeChains(count)
                   THEN count ELSE 0
  /\ \E sample \in 0 .. count - 1 :
       phase' = IF addresses'[sample] = ChainKey(starts, sample)
                THEN "derived" ELSE "error"
  /\ UNCHANGED << kernel, source, capacity, vector, count, starts, batches,
                  resume >>

(* The search loop gives the batch back.                                   *)
Recycle ==
  /\ phase = "derived" /\ vector = 3
  /\ phase' = "prepare"
  /\ UNCHANGED << kernel, source, capacity, vector, count, starts, batches,
                  resume, kept, kept_count, addresses >>

Failed == phase = "error" /\ UNCHANGED vars

Next == Tested \/ Advance \/ Fill \/ Derive \/ Recycle \/ Failed

Spec == Init /\ [][Next]_vars

-----------------------------------------------------------------------------
(* Every start is a scalar of the curve's range, every kept point a        *)
(* multiple of G or Wrong (KeyBatch, the state buffer).                    *)
TypeOK ==
  /\ << kernel, source >> \in Setups
  /\ capacity \in Counts
  /\ vector \in 0 .. 3
  /\ count \in Nat \ {0}
  /\ DOMAIN starts \in {{}, Chains(count)}
  /\ \A c \in DOMAIN starts : starts[c] \in Scalar
  /\ batches \in Nat
  /\ resume \in BOOLEAN
  /\ \A c \in DOMAIN kept : kept[c] \in Point
  /\ kept_count \in Nat
  /\ phase \in {"prepare", "ready", "derived", "error"}

(* Whole chains that SequentialSource fills have starts accepted for the   *)
(* Stride addresses only; the persistent kernel, which it feeds below      *)
(* MIN_PIPELINED_BATCH addresses, adds Stride * G as well.                 *)
MeetsStep(c) ==
  /\ kernel = "persist" /\ source = "sequential"
  /\ ChainLen(count, c) = Stride
  /\ starts[c] \in {Stride, Order - Stride}

(***************************************************************************)
(* An address of a batch, of the self-test's included, never comes out of  *)
(* an exceptional addition nor belongs to another scalar than the one      *)
(* chain_key tells for it, but for those two starts and the chains that    *)
(* are inverted with them: the rules of the host (fill_secret_keys,        *)
(* advance_chain_starts, gpu_self_test_batches) are otherwise tight enough *)
(* for the formulas of the kernels, however long the points stay on the    *)
(* GPU.                                                                    *)
(***************************************************************************)
AddressesRight ==
  phase \in {"derived", "error"} =>
    \A i \in 0 .. count - 1 :
      addresses[i] = IF \E c \in InvertedWith(i \div Stride) : MeetsStep(c)
                     THEN Wrong ELSE ChainKey(starts, i)

(* The producer only draws new starts for persistent chains when a whole   *)
(* PERSIST_HEADROOM_BATCHES of batches came from the old ones: the         *)
(* headroom asked of a candidate is enough, with the tighter rule that     *)
(* advance_chain_starts applies to every later start.                      *)
HeadroomLasts ==
  [][ phase = "prepare" /\ Persisting /\ batches > 0 /\ batches' = 1
        => batches >= Headroom ]_vars

(***************************************************************************)
(* What the comment of chain_affine says (src/backend/shader.metal:718):   *)
(* "Persist adds S*G to store the next start, so the host also requires    *)
(* k >= S+1 and k+S <= n-1 (accepted length S+1). [...] so d_i is never    *)
(* zero here."                                                             *)
(***************************************************************************)
DenominatorsNeverZero ==
  phase = "ready" /\ kernel # "chunk" =>
    \A c \in Chains(count) : \A i \in Taken(ChainLen(count, c)) :
      ~ Exceptional(FirstPoint(c), i)
=============================================================================
