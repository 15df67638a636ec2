# vanity-rs in TLA+

`vanity-rs` searches for EVM addresses with a given prefix or suffix. This
directory holds TLA+ models of the program, TLC configurations that check them,
and proofs that TLAPS checks. The models are translated from the source under
`src/` (paths below are relative to it: `src/search.rs` stands for the crate's
`search.rs`); `PROJECT.json` maps each definition to the lines it stands for.

## The system

Worker threads derive addresses from private keys in batches, compare them with
the targets and share three things: a stop flag, an attempt counter and the
closest candidate so far. The main thread receives a hit or an error, saves the
closest candidate to a file whenever it improves, stops and joins the workers,
and picks the exit status. A GPU backend replaces the CPU workers by one worker
with a ring of in-flight slots. With batches of `MIN_PIPELINED_BATCH` (65536)
addresses or more a second, the producer thread prepares the keys of the next
batches while the GPU works.

| Component | State | Operations | Talks to |
| --- | --- | --- | --- |
| Closest-candidate register, `search.rs` `BestState` | an atomic score and a candidate under a mutex | `consider_checked`, `snapshot` | workers write, main and summary threads read |
| Worker loop, `search.rs` `run_with_source`, `run_inflight_source` | `completed`, `TryCounter`, the clones of the batches in flight | derive or begin/end, match, notify, report, swap `stop` | register, backend, main by two channels |
| Main thread, `main.rs` | channels, closest-candidate file, first result | spawn, `receive_hit`, save, stop, join, decide | workers |
| Host pipeline, `search/pipeline.rs` | two circulating batches, channels `ready` (1) and `recycle` (2) | `produce`, `PipelineSource::next`, `recycle`, `run` | worker and producer thread |
| Metal configuration, `backend/metal.rs` `MetalConfig`, `with_config` | the switches, pipelines and buffers chosen by them | `from_env`, `validate`, `with_config`, the dispatches of `begin_observed` | the kernels of `shader.metal` |
| Metal ring, `backend/metal.rs` | two slots with input, output, kept points, command; `collect_at`, `pending` | `begin_observed`, `end_observed`, `Drop` | worker; the device executes in between |
| CUDA and Vulkan rings, `backend/cuda.rs`, `backend/vulkan.rs` | two slots with keys, addresses, `submitted` | `begin_batch`, `end_batch`, `Drop` | worker; driver and device |
| Chain rules, `backend/mod.rs`, `search.rs` `fill_secret_keys` | none (pure functions on scalars) | `chain_start_accepted`, `advance_chain_starts`, `offset_secret_key`, self-test vectors | producer, worker, backends |
| Kernels, `backend/shader.*` | the points of a chain | additions of G or i·G, one shared inversion | the rings |
| Matching, `search.rs` `evaluate_batch` | none | nibble comparison, ranking | worker |
| Targets, `main.rs` `validate_targets`, `hex_to_nibbles` | the digits asked for | validate, convert, estimate | main, matching |
| Closest-candidate file, `main.rs` `write_closest_candidate` | a temporary file and the file | create, write, sync, rename | main |
| Output file, `main.rs` `open_output` | the file and a `BufWriter` | open, truncate, append a hit, flush | main |
| Backend selection, `backend/mod.rs` `select`, `pick_device` | none | try each backend, pick a device | main, the backends' `new` |
| Vulkan objects, `backend/vulkan.rs` `create_backend`, `Drop` | some forty handles, in fields or still in locals | create, copy the table, destroy | selection, the ring |
| Command line, statistics, timing | options, counters | parse, format, measure | main |

What is hard to get right or to test here:

- *Interleavings.* The score is read without the lock; two workers hit at once;
  producer, worker and device run in any order.
- *Ordering and stale state.* Kept points of a slot are used instead of keys that
  the host moves on separately, and nothing but the order of the batches says
  that they belong together.
- *Failure in the middle.* A driver call, a verification, the entropy source, a
  save or a closure fails, or panics, between two steps of an update; keys must
  still be wiped and no failure be hidden by an earlier hit.
- *Termination.* Channels, joins and the stop flag: every way a thread ends has
  to end the others.
- *Crashes.* A user stops a search with a signal: the files it writes have to be
  of use afterwards, and to the next run.
- *Resources without owners.* Vulkan's handles are destroyed by hand, after a
  creation that may fail anywhere and while the device may still use them.
- *Decisions taken apart.* Which Metal kernels, buffers and dispatches go with a
  configuration is decided in three functions that have to agree.
- *Numeric edges.* The kernels' addition formulas are incomplete, so that chain
  starts next to 0, to the stride or to the group's order give wrong points;
  threads are rounded up to simdgroups, targets to half bytes.

## Modules

| Module | Models | Theorems in |
| --- | --- | --- |
| `Candidates` | candidates and their rank | |
| `MaxRegister` | *abstract:* an atomic register that keeps the best sound candidate | |
| `BestState` | `BestState`, each access to shared memory a step | `BestStateProofs` |
| `ChainKeys` | a batch of chain starts as (fill, steps since) | |
| `BatchFifo` | *abstract:* a bounded FIFO of batches, what `AddressBackend` promises | |
| `GpuRing` | Metal's ring, the device, Drop, the kept points | `GpuRingProofs` |
| `UploadRing` | the CUDA and Vulkan rings, from creation through self-test to Drop | `UploadRingProofs` |
| `HostPipeline` | producer, worker and channels; instantiates `GpuRing` | `HostPipelineProofs` |
| `SearchRun` | main thread and workers in the one-slot loop | `SearchRunProofs` |
| `ChainRules` | which scalars may start a chain | |
| `Chains` | starts and kernels' points of a slot, batch after batch | `BackendProofs` |
| `ScalarBytes` | the byte loops that add to a scalar | `BackendProofs` |
| `Matching` | targets, and the match of a batch digit by digit | `MatchingProofs` |
| `AtomicFile` | *abstract:* a file that changes as a whole | |
| `OutputFiles` | the closest-candidate file and the output file over several runs | `OutputFilesProofs` |
| `MetalKernels` | Metal's configurations, pipelines, buffers and dispatches | `BackendProofs` |
| `VulkanObjects` | Vulkan's handles from creation to Drop | `BackendProofs` |
| `Startup` | `select`, the choice of a device; extends `VulkanObjects` | `BackendProofs` |
| `MC*` | the TLC instances of the above | |

How they fit together: `BestState` implements `MaxRegister`, and `SearchRun`
takes the register as one step. `GpuRing` and `UploadRing` implement `BatchFifo`;
`HostPipeline` contains `GpuRing` and is shown to use it as `GpuRing`'s own caller
would (`ImplementsRing`), so what is proved of `GpuRing` holds inside it. `Chains`
says which scalars the batches hold, which `HostPipeline` abstracts, and
`ScalarBytes` justifies the arithmetic `ChainRules` writes as addition. `SearchRun`
takes a save as one step; `OutputFiles` opens it up and implements `AtomicFile`.
`Matching` says where the ranks that `SearchRun` draws come from. `Startup` runs
`VulkanObjects` as the creation of one of the backends it tries; the batches of a
slot, which are there only submitted and waited for, are `UploadRing`'s.

## How the models correspond to the code

**BestState.** A worker with an offer loads the relaxed score (any value ever
stored that is no older than the last one it saw), is rejected below it, else
locks, compares the whole rank with the candidate, calls `verify`, assigns, stores
the score and unlocks. The atomic is modelled with its history `stored`, because
a relaxed load may return an old value. `view` is the per-thread coherence bound.

**GpuRing.** A slot is the record of `GpuSlot`. `BeginBatch`, `BeginFails` and
`BeginRefused` are the outcomes of `begin_observed`; `EndBatch` is `end_observed`
with all of its outcomes; `Execute` and `DeviceFails` are the device; `DropBackend`
is `Drop`. A command's output is the batch whose addresses it wrote, taken from
the uploaded keys or from the points the slot kept. Left out: the `ensure!`s on
capacity and on the number of chains, and a capacity smaller than the
self-test's chain (each caller's batches have the size it configured the backend
for; what the buffers hold is `MetalKernels`).

**UploadRing.** `BeginBatch` stops after any of the calls of `begin_batch` that can
fail, with what was done before it left in place. While a kernel runs, its output
buffer is a mixture, which the CPU's check of one sample may miss. `Lose` is the
device's sticky error: every later call fails. Vulkan's specification lets a wait
succeed on a lost device; that is not modelled. Drop's calls are taken to fail on
a lost device only. A wait of `end_batch` may fail at any time, with the kernel
still running (`WaitFails`); the results of the waits in Drop
(`device_wait_idle`, the event's and the stream's `synchronize`) are ignored by
the code, and they are taken to fail only on a lost device, where nothing runs
any more. (`VulkanObjects` lets them fail at any time, and `BusyIsKept` says
what that costs.)

**HostPipeline.** One action per blocking or shared step of each thread, in the
code's order: `ProducerReceive` looks at `stop`, `ProducerRecvTimeout` is the
`recv_timeout` that gets a batch, times out or finds the channel closed, and so
on. Scalars are abstracted to (fill, step), so equal batches are equal keys. The
stop flag, `Relaxed` in the code, is sequentially consistent here; a thread that
sees it late behaves as one that is scheduled late. An `advance_chain_starts` that
fails half-way leaves starts of two kinds, but is always followed by a full
refill, so that `Prepare` has no such state. Parts of the worker that the one-slot
loop has too (progress, candidates) are in `SearchRun`.

**SearchRun.** Worker and main thread as above, an address being its rank (0: no
match, `MaxRank`: a hit), a batch being one attempt. A worker derives, checks,
matches, notifies, reports and swaps the stop flag; errors and panics of each of
these are actions' alternatives. `Decide` is the exit status. When a spawn fails
(`main.rs:522`), the scope's closure unwinds: `crossbeam::scope` catches the
panic, joins the workers that its `StopOnExit` has stopped, and resumes the panic
(`Unwind`). Nothing after the scope runs then: the last `save_closest`
(`main.rs:594`) does not, what the workers sent is not looked at, and the
closest-candidate file stays as the run found it, perhaps an earlier run's.
`FileIsFinal` has that case apart; for the files it is as the `Kill` of
`OutputFiles`. The summary thread, which only displays, is left out.

**Chains.** A point is the scalar it is a multiple of, and `Wrong` the outcome of
an addition P + Q with P = ±Q. `kernel` is the chunked kernel of CUDA, Vulkan and
Metal's stride-1 path, Metal's affine kernel, or the latter with persistent
points; `source` is `SequentialSource` or the pipeline's producer, and every
kernel is run with both. The affine kernel inverts the differences of a chain as
one product, and `simdgroup_invert` those of `Lanes` chains together if all
lanes of the simdgroup have one (`InvertedWith`), so that one zero spoils all of
them (`Spoiled`). `MeetsStep` names the starts where that happens: persistent
kernel, `SequentialSource` (Metal with fewer than 65536 addresses), a whole
chain, and k = S or k = n-S. `AddressesRight` says that the addresses inverted
with such a chain are wrong and that all others are right. The prefix and suffix
products the lanes exchange are not modelled.

**ScalarBytes.** One byte per step, base and width being constants. What the bytes
mean (`Power`, `Value`) is written as recursive functions, so that it can be proved
about; so is `Picked`, the loop over the devices in `Startup`.

**Matching.** A text is a sequence of characters as bytes; `Validate` and `Convert`
are `validate_targets` and `hex_to_nibbles`, one step each. Then each address of a
batch takes one step per digit in `MatchPrefix` and `MatchSuffix`, the loops with
their early exits, and one in `Compare`, the body of `evaluate_batch`. The reference
the loops are compared with reads an address as its digits.

**OutputFiles.** An inode is the record written into it, how much of it was, and
whether `sync_all` has succeeded. `BeginSave`, `WriteTemp`, `SyncTemp` and
`Persist` are the calls of `write_closest_candidate` in order, each of which may
fail, whereupon the `NamedTempFile` is dropped. `entries` is what the directory may
show after a power loss, `Remains` what an unsynced file may hold then. `Kill` ends
the process between any two steps without a destructor; the temporary file of a
save then stays on the disk, under a name that no run looks for. Runs follow each other;
two at a time, on one output path, are not modelled. The output is not synced by
the code, so that `HitsKeepTheirLines` counts a hit as kept only as long as no
power loss came before the file system wrote it back, and no later run truncated
the file. Outputs of one stem in different formats (`a.txt`, `a.json`) share one
closest-candidate file; the second run then replaces the first one's, which
`LeavesOnlyItsBest` takes as it is: the promise is about the last run. A last save
that fails ends a search that has a hit with an error, before the hit is written
(`Decide`); the closest-candidate file then holds an earlier candidate.

**MetalKernels.** `FromEnv` reads the switches, `Validate`, `Library`, `Pipelines`,
`KeySlots`, `Buffers` are the parts of `with_config`, `Fused`, `Split` the two
branches of `begin_observed`, and `Active`, `Written` what `chain_affine` and the
chunk kernels do with a thread's index. A buffer is its size in bytes. An
`expect` or `ensure!` that would fire is `pc = "missing"` or `"invalid"`, a
refusal by the device is `"device error"`. `CHUNK=0` alone is refused, although
`README.zh.md:92` lists it, since `FUSE` defaults to true.

**VulkanObjects, Startup.** A handle exists or not (`live`) and is in a field of
`VulkanBackend` or not (`owned`). `Plan` and `DropPlan` are the orders of creation
and of `Drop`. A failure drops the backend as far as it was made, so the same
`DropNext` follows. What no field holds yet is not destroyed: after a failed
creation the staging buffer, the two buffers of the slot being made or, before
there is a device, the instance stay behind (the device is destroyed all the
same). The program ends then, so it is a leak of a process that exits;
`NothingLeft` bounds it. `Startup` tries the backends as `select` does; CUDA and Metal are outcomes.

## Runs

| Run | Distinct states | Shows |
| --- | --- | --- |
| `best_state` | 86,805 | No offer is lost or published unverified by the relaxed hint and the mutex together; they implement `MaxRegister`. |
| `gpu_ring` | 803,949 | Batches of three sizes, resumed or not: the ring is a FIFO, keys only lie in flight, Drop waits, and the backend's own `ensure!`s never fire. |
| `upload_ring` | 1,918 | The same for CUDA and Vulkan, with a failure at each driver call, waits included. |
| `host_pipeline` | 74,850 | Batches stay in order, no key is searched twice, resumed points are right (`ImplementsRing`), failures are reported, keys wiped, and the search terminates. |
| `search_run` | 73,948 | At most one hit, exact attempt counts, the file ends up with the best candidate unless a failed spawn unwinds main, an honest exit status, termination. |
| `output_files` | 71,995 | The closest-candidate file changes as a whole through failures, kills and power losses; success means it holds the run's best; reported hits keep their lines. |
| `matching` | 762,403 | Exactly the impossible targets are refused, the digit loops agree with the digits, first hit and best candidate agree. |
| `metal_kernels` | 48,928 | Whatever the switches, an accepted configuration has the pipelines and buffers its batches need, and each address is computed once. |
| `startup` | 7,506 | The table of fallbacks, the best device, what a failed creation leaves, and Drop after any failure. |
| `scalars` | 506,542 | Every accepted start, batch shape, kernel and source of keys in a group of 19: an address is wrong iff the persistent kernel is fed by `SequentialSource` and a chain inverted with its own starts at S or n-S; a fill lasts for its headroom. The byte loops add what these rules take for granted, carries over several bytes and both ends of the range included. |
| `cuda_slot_reuse` | violation | `VecZeroize` empties a slot's vector of keys, so that the slot's second batch is refused. See the finding. |
| `chains_sequential` | violation | The persistent kernel fed by `SequentialSource` may spoil a shared inversion. See the finding. |

Every property of a passing run has a mutant in `PROJECT.json`: a change of one
mapped definition, of the kind a slip in the code would be, that breaks it. The
modules' type invariants are not among the runs' properties: a state of the wrong
type would show in the others, and where it matters they are proved.

### Bounds, and why they are enough

- `BestState`: two workers with two offers each, one digit of prefix and suffix.
  A race needs two workers; a stale hint needs a third value of the score (0, 1,
  2); a tie-break needs equal scores with different prefixes, and equal ranks with
  different attempt numbers. The theorems hold for any number of workers and digits.
- `GpuRing`: two slots, as in every backend; sizes below, at and above the stride
  so that last chains are partial, one or several; two fills, one advance. The
  theorems hold for all sizes.
- `UploadRing`: seven batches use each slot three times, more than once around.
- `HostPipeline`: room for two steps after a fill, so that five batches contain
  advances, a refill and another advance on each of the two host batches; a hit in
  the fifth batch at the latest. Without the bound the producer would number its
  fills for ever.
- `SearchRun`: two workers of two batches, flush and report at the second, so
  that a flush is pending, due and done at each place a worker can end.
- `Chains`: stride 3 in a group of order 19 has starts near every exception: below
  and at the stride, one above, in the middle, and the same distances from the
  end. Batches are part of a chain, one chain, one and a part, and two; with two
  lanes to a simdgroup these are half a simdgroup and whole ones. Stride 1, 32
  lanes and every other size are covered by the proofs.
- `ScalarBytes`: three digits in base three hold every position of a carry: none,
  across one digit, across all, out of the last; offsets of up to three digits.
  `MCScalars` runs it and `Chains` on one range of scalars; as they share no
  state, one of them rests while the other one runs.
- `OutputFiles`: two runs, since what one leaves is met by the next; three scores,
  so that a save can replace a save and a hit. A third run would meet nothing new:
  a file is the last run's or an earlier one's.
- `Matching`: addresses of two bytes are the least with a prefix and a suffix that
  overlap, end in the middle of a byte, or are longer than a byte; two digits,
  one of them a letter, in both cases; two addresses for ties and for the first
  of two hits. Texts also hold the neighbours of the hexadecimal characters.
- `MetalKernels`: each documented value that a decision tells apart, in every
  combination, also of switches that contradict each other; batches of one, of a
  stride and of one more, up to the capacity; simdgroups of 32.
- `Startup`: two slots, as in the code; two devices, for the first of equals.

Deadlock is checked in `host_pipeline`, `search_run`, `scalars`, `matching`,
`metal_kernels` and `startup`, which have an explicit terminal step, and in
`output_files`, which goes on for ever. It is off where
the caller may stop calling, or a bound ends the offers: `best_state`, `gpu_ring`,
`upload_ring`.

### Fairness

`HostPipeline` and `SearchRun` assume weak fairness of each thread's next step
(`ProducerStep`, `WorkerStep`, `MainStep`): the operating system runs every thread,
and each wait has a timeout or is a step that is disabled until what it awaits has
happened. `HostPipeline` also assumes it of `Device`: a command buffer ends, with
success or an error. Nothing is assumed of `Cancel`, of errors or of luck: that a
search ends without a cancellation rests on the bound `MaxBatches`, so `Terminates`
says that the threads never block each other, not that a hit is found. In the
same way `OneEndEndsAll` starts from the end of some thread.

## Proofs

TLAPS proves the following for every value of the constants, from the modules'
named assumptions only.

**`BestStateProofs`** (any set of workers, any lengths). The invariant has four
parts beyond the types: a worker is in the critical section iff it owns the mutex
(`MutexInv`); a worker that is to assign outranks the candidate, and one that is
to store the score has assigned its offer (`OfferInv`); the score is the largest
value ever stored, and equals the candidate's unless a store is due (`ScoreInv`).
The properties alone are not inductive: that a rejection by a stale hint loses
nothing needs that each old score is at most the current one, which needs that
the store is under the lock. The refinement maps the assignment to `Replace`, the
two rejections to `Keep` and everything else to a stutter.

**`GpuRingProofs`** (any number of slots, stride and sizes). `Window`: while the
backend is usable, the k-th slot from the oldest has the k-th batch in flight, of
its size, and will derive or has derived its addresses; the other slots are idle.
`Kept`: a warm slot's points are those of its last output, moved on. `Window` is
not inductive alone, since a step's addresses come from the points and not from
the keys that were submitted; `Kept` turns the caller's promise about the last
batch into one about the points. The refinement to `BatchFifo` follows.

**`BackendProofs`** has the five modules about what a backend is made of.

- `Chains` (any order, stride, headroom and batch sizes, as long as the order is
  more than twice the stride and a few units). `StartsClear` says that no chain in
  use meets an exception, `PointsKept` that kept points are the starts moved on
  by the stride, `HeadroomLeft` what remains of a fill's headroom. There is no
  hypothesis about kernel and source: `OnlyTheStep` shows that an accepted start
  meets an exception of the affine kernel at the step to the next start only, and
  iff it is one of `MeetsStep`; `ChainPoints` carries that over to the chains
  inverted together, and `Setup` keeps it away from the pipeline's points.
  What remains of the argument is arithmetic on products and quotients by the
  stride, kept in lemmas (`Division`, `Monotone`, ...).
- `ScalarBytes` (any base, width, order and offset). `LoopInv`: after `place` bytes,
  the bytes done, the carry times the base to the power `place`, and the bytes
  still to come make the sum; `ResultIsOffset` follows (`BytesAreRight`).
- `Startup` (any machine, any number of devices). `SelectionInv` says which of the
  backends have been tried when, `PickedIsBest` that the loop over the devices,
  a recursive function, returns the first of the highest rank; together they are
  the table of the repository's tests (`SelectionIsResolved`).
- `VulkanObjects` (any number of slots). `ObjectsInv` says what exists and what is
  owned at each place of the plans of creation and of Drop, which are indexed by
  slot. It gives `NothingLeft` (`NoObjectLeft`) and `BusyIsKept` (`BusyKept`).
- `MetalKernels` (any setting of the switches, capacity, batch, threadgroup limit
  and simdgroup width). `KernelsInv`: a backend that exists has the pipelines and
  buffers of a configuration that `validate` accepted (`Configured`), and what is
  committed was encoded from these. Such a configuration takes one of six paths
  (`Path`, `EncodedIs`); the pipelines are created by one decision and the
  dispatches encoded by another, and on each path they meet. From there on it
  is rounding up (`CeilDivIs`, `CeilDivLeast`): the parts of a dispatch's threads
  are disjoint and cover the batch (`WrittenOnce`), and a thread that has a part
  has a key and a place for its points (`PlacesForKeys`). The theorems are
  `OnlyDeviceFails`, `AddressesOnce` and `BuffersAreEnough`. Its assumptions on the
  device: `shader.metal:239` takes simdgroups to have 32 lanes, so the width
  divides 32; a threadgroup may have at least one simdgroup; and
  `MAX_GPU_BATCH_SIZE` is at least 32.

Induction is by a least counterexample (`InductionUpTo`), and that a recursive
function over numbers exists at all is `RecursionExists`; the library's theorems
for both take an operator.

**`UploadRingProofs`** (any number of slots and batches; CUDA with either wipe,
and Vulkan). `Window` as above, without kept points but with the two copies of
the keys, on the host and on the device. It holds as long as calls may follow;
after an error `Dropping` takes over: Drop has come to slot `dropped`, no slot
before it has a kernel to run or a key left, except for CUDA's copy on a lost
device. From them `OnlyDriverErrors`, `KeysOnlyInFlight`, `KernelKeepsItsBuffers`
and the refinement of `BatchFifo`.

**`HostPipelineProofs`** (any stride, headroom and batch size, any number of
batches, with or without persistent points; two slots, which the code fixes).
Each step of the pipeline is a step of the ring or leaves it alone, so that the
ring's invariant, taken from `GpuRingProofs` by `INSTANCE`, is part of this one.
The rest is in the order of the argument:

- `Control` and `Late`: whoever leaves has set `stop` before its end of a channel
  closes, so that the other side's closed channel is never a failure of its own
  (`OnlyForeignFailures`, `HonestResult`), and at most one batch begins after it.
- `Numbers`, `Circulation`: the sequence numbers are those of the batches begun
  and prepared, and there are two host batches in circulation.
- `Recycled`, `Prepared`, `Outputs`: the two come back in turns. The keys that
  the producer moves on are therefore those of the batch before the last, which
  is what the slot next in turn has run last. That is the ring's condition for a
  batch that resumes, and so `ImplementsRing`; nothing in the code states it.
- `Lineage`: batches of one fill are an even number apart and each a step further
  than the one before, so that no key comes up twice (`NoKeyTwice`).

The invariant was not inductive before `Control` said that a producer still at
work has no result yet.

**`SearchRunProofs`** (any finite set of workers, any `MaxRank`, any flush and report
intervals). The invariant follows an event through the program: `StopHasCause`
why the search stopped, `OutcomesReported` where a worker's hit or error is until
main has decided, `HitsAreBest` what a hit says of the register, `SavePending`
which candidate the next save writes. It gives `AtMostOneHit`, `ImprovementSaved`,
`FileIsFinal` and `HonestStatus`; in the first, an unwinding finds nothing
saved, since main spawns every worker before it saves for the first time.
`AttemptsAddUp` is about a sum over all workers:
that a sum changes by what one of its terms changes is induction over a set, done
through a least counterexample (section *Sums*), as the library's induction
theorems cannot be used.

**`OutputFilesProofs`** (any number of runs, scores and power losses). `Saving`: a
temporary file is written in full before it is synced, and synced before it is
renamed; hence `Whole`: all that is or was the closest-candidate file is whole
and on the disk, which is the refinement of `AtomicFile`. `Contents` and `Writing`:
each content the output may have after a power loss is a sequence of records of
ever later runs, each in full or cut off, and a run adds the pieces it still has
in its buffer. From them `LeavesOnlyItsBest` and `HitsKeepTheirLines`.

**`MatchingProofs`** (any length of address, any batch, any targets). `Matched`: the
digits counted so far agree, and a loop that ended did so at the first digit that
does not; `BestSoFar` and `HitSoFar` are the properties of the addresses compared
already. `HitIsFirst` and `BestOfBatch` follow, the rank being one number in a base
that exceeds prefix and index together. `TargetsAreExact` has two halves: the
overlap that `validate_targets` compares is the only way in which two targets of
hexadecimal digits can contradict each other (`OnlyImpossibleRefused`); and since
the converted targets agree there (`Agreed`), an address they allow is a choice
of digits for the free positions (`FreeChoice`, a bijection, for any alphabet),
of which there are `Digits` less what `effective_fixed` returns (`AllowedCount`).

Each inductive invariant was checked by TLC on the run's instance before it was
proved.

The assumptions on constants are those of the modules. Of the bounds, `MaxFill`
and `MaxStep` of the ring's own caller have to be as wide as `HostPipeline` uses
them (`PipelineAssumption`); everything else that bounds a run is arbitrary.

Every safety invariant, action property and refinement of the runs is proved.
Only model-checked:

- liveness (`Terminates`, `OneEndEndsAll`): liveness under fairness and ENABLED
  are out of the prover's reach;
- deadlock freedom, which is about ENABLED too;
- that a module's constants have the values of the code: 20 bytes, 16 digits, two
  slots and so on are instances of the theorems.

## Findings

**The CUDA backend cannot use a slot twice** (`cuda_slot_reuse`; a bug).
`end_batch` wipes `host_keys`, a `Zeroizing<Vec<u8>>`, by `zeroize()`
(`src/backend/cuda.rs:192`), and for a `Vec` that also sets the length to 0. The
next `begin_batch` on the slot passes an empty destination to
`expand_chain_keys`, which refuses it. The third batch of the startup self-test
is the first to meet that. The constant `Setups` of `UploadRing` has a CUDA with a
wipe that keeps the length as well, so that `upload_ring` checks the rest of
that ring too; a wipe by `host_keys.as_mut_slice().zeroize()` would be one.

**The host does not exclude the start k = S everywhere** (`chains_sequential`; the
documentation is wrong). `shader.metal:718` and
`docs/gpu-optimization-design.md:86` say that a persistent kernel only gets
starts k >= S+1 with k+S <= n-1, so that no difference is zero. The pipeline's
producer sees to that; batches of fewer than 65536 addresses come from
`SequentialSource`, which calls `fill_secret_keys` with `persist = false`
(`search.rs:178`), and k = S and k = n-S are accepted for the same kernel. All
addresses of that chain and of its simdgroup are then wrong, which the check
of a hit by the CPU would tell. Two starts of about 2^256 are concerned, so it
does not happen in practice; `AddressesRight` and its theorem
`AddressesCorrect` say that nothing else goes wrong.

*Documentation* that the code, and so the models, differ from otherwise:

- `docs/gpu-optimization-design.md:34` and `README.md:42` say that batches which
  complete after a stop are counted. A worker with a hit of its own waits for the
  batch still in flight (`Drain`), but does not add it to the attempts.
- `search/pipeline.rs:1` says "one GPU dispatch at a time"; there are two in flight.
- `README.zh.md:92` lists `CHUNK=0`; alone it is refused.

## Not modelled, and why

- *Field arithmetic, Keccak, base-point tables* of the kernels: 256-bit arithmetic,
  compared with the CPU by the repository's differential tests.
- *CUDA's and Metal's device setup*: calls to drivers whose wrappers release
  their own objects; what Metal chooses to set up is `MetalKernels`.
- *Command line, statistics, progress bars, wording, timing*: sequential code whose
  content is text or measurement. The summary thread only displays.
- *Two processes on one output*: nothing in the code keeps them apart.
- *u64 attempt counters* do not overflow in any run's lifetime.
- *The `secp256k1` library* is an oracle: a key's address is right by definition,
  and `verify` says whether an address belongs to a key.

## Plan

Done: the modules above, in the order register, Metal ring, pipeline, main thread,
chains, uploading rings, files, matching, Metal's kernels, Vulkan's objects and
startup; then the proofs, of the register, the Metal ring, the chains, the main
thread, the uploading rings, the files, the pipeline, the matching, the byte loops,
startup with Vulkan's objects, and Metal's kernels. Left:

1. The prefix and suffix products by which the lanes of a simdgroup exchange their
   inversion (`simdgroup_invert`, `shader.metal:242`). `Chains` takes their
   product's inverse for granted, `EveryAddressOnce` that simdgroups are whole.
2. The summary thread and the statistics, if they ever decide anything.
3. Proofs of liveness, once a prover for fairness and ENABLED can be used.
