---------------------------- MODULE MetalKernels ----------------------------
(***************************************************************************)
(* The kernels of the Metal backend and what they are run with             *)
(* (src/backend/metal.rs and shader.metal): the switches a configuration   *)
(* is made from, the pipelines and buffers with_config creates for it and  *)
(* the dispatches that begin_observed encodes with them.  Three places     *)
(* decide on their own which path a configuration takes; here they are put *)
(* together.  The ring around a batch is module GpuRing, the arithmetic of *)
(* the kernels module Chains.                                              *)
(***************************************************************************)
EXTENDS Integers, Sequences

CONSTANTS
  Environment,  (* The settings of the VANITY_BENCH_ switches; the program *)
                (* itself has the one with every switch unset.             *)
  Unset,        (* A switch that is not set.                               *)
  Capacity,     (* --gpu-batch-size.                                       *)
  Count,        (* The batches a caller may begin.                         *)
  MaxBatch,     (* MAX_GPU_BATCH_SIZE.                                     *)
  SimdWidth,    (* threadExecutionWidth of the device; the shader and the  *)
                (* dispatch of whole simdgroups take it to go into 32.     *)
  MaxThreads    (* maxTotalThreadsPerThreadgroup of a pipeline, for Metal  *)
                (* at least one simdgroup.                                 *)

Switch == {"GROUP", "INVERT", "WINDOW", "CHUNK", "FUSE", "STRIDE", "AFFINE",
           "KSPLIT", "PERSIST", "SIMD"}

ASSUME MetalKernelsAssumption ==
  /\ \A e \in Environment : DOMAIN e = Switch
  /\ {Capacity, MaxBatch, SimdWidth, MaxThreads} \subseteq Nat \ {0}
  /\ Capacity <= MaxBatch
  /\ 32 <= MaxBatch
  /\ 32 % SimdWidth = 0 /\ SimdWidth <= MaxThreads
  /\ Count \subseteq 1 .. Capacity

VARIABLES
  pc,          (* Where the backend is.                                    *)
  env,         (* The environment.                                         *)
  config,      (* MetalConfig.                                             *)
  pipelines,   (* The kernel of each pipeline, "none" for Option::None.    *)
  buffers,     (* The bytes of each buffer of a slot, 0 for none.          *)
  size,        (* The addresses of the batch, count in the code.           *)
  dispatches   (* What is encoded for it.                                  *)

kernels == << pc, env, config, pipelines, buffers, size, dispatches >>

NoPipelines ==
  [pipeline |-> "none", jacobian |-> "none", invert |-> "none",
   chunk |-> "none", keccak |-> "none"]

NoBuffers == [input |-> 0, output |-> 0, xyz |-> 0, state |-> 0]

CeilDiv(a, b) == (a + b - 1) \div b

Smaller(a, b) == IF a < b THEN a ELSE b

Greater(a, b) == IF a > b THEN a ELSE b

-----------------------------------------------------------------------------
(***************************************************************************)
(* The configuration.                                                      *)
(***************************************************************************)
Given(switch, default) == IF env[switch] = Unset THEN default ELSE env[switch]

(* MetalConfig::default and from_env: what is not set follows from what is.*)
FromEnv ==
  LET invert == Given("INVERT", FALSE)
      chunk == Given("CHUNK", IF invert THEN 0 ELSE 8)
      fuse == Given("FUSE", ~ invert)
      stride == Given("STRIDE", IF ~ fuse \/ chunk = 0 THEN 1 ELSE 32)
      window == Given("WINDOW", 16)
      affine == Given("AFFINE", stride > 1 /\ fuse /\ 2 ^ window > stride)
  IN  [group |-> Given("GROUP", 0), invert |-> invert, window |-> window,
       chunk |-> chunk, fuse |-> fuse, stride |-> stride, affine |-> affine,
       split_keccak |-> Given("KSPLIT", affine),
       persist |-> Given("PERSIST", affine), simd |-> Given("SIMD", affine)]

EffectiveStride(c) == IF c.fuse /\ c.stride > 1 THEN c.stride ELSE 1

(* MetalConfig::validate; i*G of an affine chain comes from the first row  *)
(* of the table, which holds the digits below the radix.                   *)
ValidateRoundRadix(c) ==
  /\ c.window \in {4, 8, 16}
  /\ c.chunk \in {0, 4, 8, 16, 32}
  /\ c.chunk = 0 \/ ~ c.invert
  /\ c.fuse => c.chunk > 0 /\ ~ c.invert
  /\ \/ c.stride = 1
     \/ /\ c.stride \in {8, 16, 32, 64}
        /\ c.fuse /\ c.chunk > 0 /\ c.stride % c.chunk = 0
  /\ c.affine => c.stride > 1 /\ c.fuse /\ 2 ^ c.window >= c.stride

Validate(c) ==
  /\ c.window \in {4, 8, 16}
  /\ c.chunk \in {0, 4, 8, 16, 32}
  /\ c.chunk = 0 \/ ~ c.invert
  /\ c.fuse => c.chunk > 0 /\ ~ c.invert
  /\ \/ c.stride = 1
     \/ /\ c.stride \in {8, 16, 32, 64}
        /\ c.fuse /\ c.chunk > 0 /\ c.stride % c.chunk = 0
  /\ c.affine => c.stride > 1 /\ c.fuse /\ 2 ^ c.window > c.stride

PersistEnabled(c) == c.persist /\ c.affine

SimdEnabled(c) == c.simd /\ c.affine

SplitKeccakAlone(c) == c.split_keccak

SplitKeccakEnabled(c) == c.split_keccak /\ c.affine

(* Bytes of a point between two kernels: X, Y and Z, or affine x and y.    *)
ScratchBytes(c) ==
  IF c.invert \/ (c.chunk > 0 /\ ~ c.fuse) THEN 96
  ELSE IF SplitKeccakEnabled(c) THEN 64
  ELSE 0

KernelsInit ==
  /\ pc = "env"
  /\ env \in Environment
  /\ config = FromEnv
  /\ pipelines = NoPipelines
  /\ buffers = NoBuffers
  /\ size = 0
  /\ dispatches = << >>

(* The environment is not read again, and forgotten here.                  *)
Configure ==
  /\ pc = "env"
  /\ pc' = IF Validate(config) THEN "create" ELSE "refused"
  /\ env' = [s \in Switch |-> Unset]
  /\ UNCHANGED << config, pipelines, buffers, size, dispatches >>

-----------------------------------------------------------------------------
(***************************************************************************)
(* with_config.                                                            *)
(***************************************************************************)
(* The kernels the shader has when it is compiled for a configuration.     *)
Library(c) ==
  {"derive_addresses", "jacobian_points", "invert_affine_keccak"}
    \union (IF c.chunk > 0
              THEN {"chunk_invert_affine_keccak", "chunk_derive_addresses"}
              ELSE {})
    \union (IF c.stride > 1 /\ c.affine
              THEN {"chain_affine_addresses", "chain_affine_points",
                    "keccak_points"}
              ELSE {})

Pipelines(c) ==
  [pipeline |-> "derive_addresses",
   jacobian |-> IF c.invert \/ (c.chunk > 0 /\ ~ c.fuse)
                  THEN "jacobian_points" ELSE "none",
   invert |-> IF c.invert THEN "invert_affine_keccak" ELSE "none",
   chunk |-> CASE c.chunk = 0 -> "none"
               [] c.chunk > 0 /\ SplitKeccakEnabled(c) -> "chain_affine_points"
               [] c.chunk > 0 /\ c.affine /\ ~ c.split_keccak ->
                    "chain_affine_addresses"
               [] c.chunk > 0 /\ ~ c.affine /\ c.fuse -> "chunk_derive_addresses"
               [] OTHER -> "chunk_invert_affine_keccak",
   keccak |-> IF SplitKeccakEnabled(c) THEN "keccak_points" ELSE "none"]

KeySlots(c) == CeilDiv(Capacity, EffectiveStride(c))

Buffers(c) ==
  [input |-> KeySlots(c) * 32,
   output |-> Capacity * 20,
   xyz |-> Capacity * ScratchBytes(c),
   state |-> IF PersistEnabled(c) THEN KeySlots(c) * 64 ELSE 0]

(* pipeline_with_group: a tuned group must suit the device.                *)
GroupAccepted(c) ==
  \/ c.group = 0
  \/ /\ c.group \in {32, 64, 128, 256}
     /\ c.group % SimdWidth = 0 /\ c.group <= MaxThreads

KernelsMissing(p) ==
  \E role \in DOMAIN p : p[role] # "none" /\ p[role] \notin Library(config)

(* No device, or a failure of it: a compilation, an allocation, the table; *)
(* or a kernel that the library does not have.                             *)
WithConfig ==
  /\ pc = "create"
  /\ \/ pc' \in {"absent", "device error"} /\ UNCHANGED << pipelines, buffers >>
     \/ /\ KernelsMissing(Pipelines(config))
        /\ pc' = "missing"
        /\ UNCHANGED << pipelines, buffers >>
     \/ /\ ~ KernelsMissing(Pipelines(config)) /\ ~ GroupAccepted(config)
        /\ pc' = "device error"
        /\ UNCHANGED << pipelines, buffers >>
     \/ /\ ~ KernelsMissing(Pipelines(config)) /\ GroupAccepted(config)
        /\ pipelines' = Pipelines(config)
        /\ buffers' = Buffers(config)
        /\ pc' = "ready"
  /\ UNCHANGED << env, config, size, dispatches >>

-----------------------------------------------------------------------------
(***************************************************************************)
(* begin_observed, from a free slot to the commit of its command.          *)
(***************************************************************************)
(* encode_compute; extra tells whether state and resume are bound.         *)
Dispatch(kernel, in, out, threads, extra) ==
  [kernel |-> kernel, in |-> in, out |-> out, threads |-> threads,
   extra |-> extra]

ThreadgroupSize ==
  IF config.group > 0 THEN config.group
  ELSE (Smaller(Greater(128, SimdWidth), MaxThreads) \div SimdWidth) * SimdWidth

Encodable(d) ==
  /\ d.threads \in 1 .. MaxBatch
  /\ MaxThreads >= SimdWidth
  /\ ThreadgroupSize \in 1 .. Smaller(MaxThreads, 256)
  /\ ThreadgroupSize % SimdWidth = 0

(* One thread per chain or, without increments, per chunk; the lanes of a  *)
(* simdgroup exchange values, so that there are only whole ones.           *)
FusedThreadsExact(n) ==
  IF config.stride > 1 THEN CeilDiv(n, EffectiveStride(config))
                       ELSE CeilDiv(n, Greater(config.chunk, 1))

FusedThreads(n) ==
  IF SimdEnabled(config) /\ config.stride > 1
    THEN CeilDiv(FusedThreadsExact(n), 32) * 32
    ELSE FusedThreadsExact(n)

Fused(n) ==
  LET extra == buffers.state > 0
  IN  IF pipelines.keccak # "none"
        THEN << Dispatch(pipelines.chunk, "input", "xyz", FusedThreads(n), extra),
                Dispatch(pipelines.keccak, "xyz", "output", n, FALSE) >>
        ELSE << Dispatch(pipelines.chunk, "input", "output", FusedThreads(n),
                         extra) >>

Split(n) ==
  << Dispatch(pipelines.jacobian, "input", "xyz", n, FALSE),
     IF config.invert
       THEN Dispatch(pipelines.invert, "xyz", "output", n, FALSE)
       ELSE Dispatch(pipelines.chunk, "xyz", "output", CeilDiv(n, config.chunk),
                     FALSE) >>

Encoded(n) ==
  IF config.fuse THEN Fused(n)
  ELSE IF config.invert \/ config.chunk > 0 THEN Split(n)
  ELSE << Dispatch(pipelines.pipeline, "input", "output", n, FALSE) >>

(* An optional pipeline or buffer that the path needs and does not find.   *)
Incomplete(ds) ==
  \E i \in DOMAIN ds :
    \/ ds[i].kernel = "none"
    \/ "xyz" \in {ds[i].in, ds[i].out} /\ buffers.xyz = 0

Begin ==
  /\ pc = "ready"
  /\ size' \in Count
  /\ LET ds == Encoded(size')
     IN  \/ /\ Incomplete(ds)
            /\ pc' = "missing"
            /\ UNCHANGED dispatches
         \/ /\ ~ Incomplete(ds)
            /\ pc' = IF \A i \in DOMAIN ds : Encodable(ds[i])
                       THEN "committed" ELSE "invalid"
            /\ dispatches' = ds
  /\ UNCHANGED << env, config, pipelines, buffers >>

(* The batch is over, for the next one.                                    *)
End ==
  /\ pc = "committed"
  /\ pc' = "ready"
  /\ dispatches' = << >>
  /\ size' = 0
  /\ UNCHANGED << env, config, pipelines, buffers >>

KernelsStopped ==
  /\ pc \in {"refused", "absent", "device error", "missing", "invalid"}
  /\ UNCHANGED kernels

KernelsNext ==
  \/ Configure
  \/ WithConfig
  \/ Begin
  \/ End
  \/ KernelsStopped

KernelsSpec == KernelsInit /\ [][KernelsNext]_kernels

-----------------------------------------------------------------------------
(***************************************************************************)
(* What the kernels do with a dispatch.                                    *)
(***************************************************************************)
(* The points or addresses a thread is responsible for.                    *)
PerThread(kernel) ==
  CASE kernel \in {"chain_affine_addresses", "chain_affine_points"} ->
         config.stride
    [] kernel = "chunk_derive_addresses" ->
         IF config.stride > 1 THEN config.stride ELSE config.chunk
    [] kernel = "chunk_invert_affine_keccak" -> config.chunk
    [] OTHER -> 1

(* The threads that the kernel does not send home: base < count.           *)
Active(d) == {t \in 0 .. d.threads - 1 : t * PerThread(d.kernel) < size}

(* The elements a thread writes.  The chunked kernels go through their part*)
(* in whole chunks, and only the end of the batch stops them.              *)
Written(d, t) ==
  LET base == t * PerThread(d.kernel)
      part == Smaller(PerThread(d.kernel), size - base)
      step == IF d.kernel \in {"chunk_derive_addresses",
                               "chunk_invert_affine_keccak"}
                THEN config.chunk ELSE 1
      end == Smaller(base + CeilDiv(part, step) * step, size)
  IN  base .. end - 1

(* The bytes of an element on either side of a kernel: a scalar, a point   *)
(* in three coordinates, one in two, or an address.                        *)
ReadBytes(kernel) ==
  CASE kernel \in {"invert_affine_keccak", "chunk_invert_affine_keccak"} -> 96
    [] kernel = "keccak_points" -> 64
    [] OTHER -> 32

WrittenBytes(kernel) ==
  CASE kernel = "jacobian_points" -> 96
    [] kernel = "chain_affine_points" -> 64
    [] OTHER -> 20

Affine(kernel) == kernel \in {"chain_affine_addresses", "chain_affine_points"}

(***************************************************************************)
(* A configuration that is accepted has every pipeline and buffer that its *)
(* batches need, and every dispatch is within the limits of the device:    *)
(* only the device can fail, and only at the start.                        *)
(***************************************************************************)
OnlyTheDeviceFails == pc \notin {"missing", "invalid"}

(***************************************************************************)
(* Every address of a batch is computed once, by one thread of the kernel  *)
(* that writes the output, and so is every point that another kernel       *)
(* reads; threads that share an inversion come in whole simdgroups.        *)
(***************************************************************************)
EveryAddressOnce ==
  pc = "committed" =>
    /\ dispatches[Len(dispatches)].out = "output"
    /\ \A i \in DOMAIN dispatches :
         LET d == dispatches[i]
         IN  /\ UNION {Written(d, t) : t \in Active(d)} = 0 .. size - 1
             /\ \A t, u \in Active(d) :
                  t < u => Written(d, t) \intersect Written(d, u) = {}
             /\ d.in = IF i = 1 THEN "input" ELSE dispatches[i - 1].out
             /\ SimdEnabled(config) /\ Affine(d.kernel) =>
                  d.threads % SimdWidth = 0

(***************************************************************************)
(* What a kernel writes and what the next one reads have one layout, and   *)
(* both fit into the buffers for every batch up to the capacity; the state *)
(* of kept points is bound exactly when the kernel was compiled with it,   *)
(* and the table's first row holds every multiple of G a chain adds.       *)
(***************************************************************************)
BuffersFit ==
  pc = "committed" =>
    \A i \in DOMAIN dispatches :
      LET d == dispatches[i]
          last == CHOOSE t \in Active(d) : \A u \in Active(d) : u <= t
          keys == IF Affine(d.kernel) \/ config.stride > 1 THEN last + 1 ELSE size
      IN  /\ size * WrittenBytes(d.kernel) <= buffers[d.out]
          /\ d.in = "input" => keys * 32 <= buffers.input
          /\ d.in = "xyz" => /\ ReadBytes(d.kernel) =
                                  WrittenBytes(dispatches[i - 1].kernel)
                             /\ size * ReadBytes(d.kernel) <= buffers.xyz
          /\ d.extra <=> Affine(d.kernel) /\ PersistEnabled(config)
          /\ d.extra => (last + 1) * 64 <= buffers.state
          /\ Affine(d.kernel) =>
               (IF PersistEnabled(config) THEN config.stride ELSE config.stride - 1)
                 < 2 ^ config.window
=============================================================================
