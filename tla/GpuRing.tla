------------------------------ MODULE GpuRing -------------------------------
(***************************************************************************)
(* The ring of in-flight slots of a GPU backend (src/backend/metal.rs):    *)
(* begin_observed submits a batch to the slot after the pending ones,      *)
(* end_observed collects the oldest, and the device executes a command at  *)
(* any time in between.                                                    *)
(*                                                                         *)
(* A slot may keep the affine points of its chain starts on the GPU        *)
(* (`state').  A batch that resumes steps these points by stride*G and     *)
(* uploads no keys; the caller vouches that its keys are those of the      *)
(* slot's last batch, moved on by the stride.                              *)
(*                                                                         *)
(* What a command writes is abstracted to the batch whose addresses it     *)
(* wrote: `output' is a batch of keys, and a result is right iff it is the *)
(* batch the caller passes to end_batch.  NoBatch stands for addresses of  *)
(* no batch, where a chain was stepped that has no points.                 *)
(***************************************************************************)
EXTENDS ChainKeys, Sequences, Integers

CONSTANTS
  NumSlots,   (* config.inflight: GpuSlot records of the backend.          *)
  Stride,     (* Addresses per chain, increment_stride().                  *)
  Persist,    (* config.persist_enabled() /\ Stride > 1.                   *)
  MaxFill,    (* Bound: the last CSPRNG fill; the self-test has 0, 1, 2.   *)
  MaxStep,    (* Bound: how often the caller advances the same starts.     *)
  Sizes,      (* The address counts of the caller's batches.               *)
  NoBatch     (* A cleared buffer, or no result.                           *)

(* The points of the starts of `keys', for `count' addresses.              *)
KeptPoints == [keys : KeyBatch, count : Nat]

ASSUME RingAssumption ==
  /\ NumSlots \in Nat \ {0}
  /\ Stride \in Nat \ {0}
  /\ Persist \in BOOLEAN
  /\ MaxFill \in Nat /\ MaxStep \in Nat
  /\ Sizes \subseteq Nat \ {0}
  /\ NoBatch \notin KeyBatch \union KeptPoints

VARIABLES
  slots,       (* The GpuSlot records.                                     *)
  collect_at,  (* The slot of the oldest batch in flight.                  *)
  pending,     (* Batches in flight.                                       *)
  held,        (* run_inflight_source's clones, oldest first.              *)
  got,         (* The last successful end_batch.                           *)
  error,       (* Why no call may follow: an Err of the backend, the end   *)
               (* of the loop; or "none".                                  *)
  dropped      (* Drop has run.                                            *)

vars == << slots, collect_at, pending, held, got, error, dropped >>

Slot == 0 .. NumSlots - 1

Contents == KeyBatch \union {NoBatch}

GpuSlot ==
  [ input   : Contents,    (* Uploaded chain starts.                       *)
    output  : Contents,    (* Whose addresses the last command wrote.      *)
    state   : KeptPoints \union {NoBatch},  (* For the next batch.         *)
    command : {"none", "queued", "done", "failed"},
    step    : BOOLEAN,     (* The resume flag encoded with the command.    *)
    count   : Nat,
    persist_count : Nat,
    warm    : BOOLEAN ]

EmptySlot ==
  [ input |-> NoBatch, output |-> NoBatch, state |-> NoBatch,
    command |-> "none", step |-> FALSE, count |-> 0, persist_count |-> 0,
    warm |-> FALSE ]

WholeChains(count) == count % Stride = 0

(* The startup self-test has derived three batches, of one address, of one *)
(* address and of one chain, one after the other, and each slot still has  *)
(* what the last of them left there.                                       *)
SelfTests == 0 .. 2

SelfTestCount(n) == IF n < 2 THEN 1 ELSE IF Stride > 3 THEN Stride ELSE 3

SelfTestedSlot(n) ==
  LET whole == Persist /\ WholeChains(SelfTestCount(n)) IN
  [ input |-> NoBatch, output |-> Fresh(n),
    state |-> IF whole THEN [keys  |-> Advance(Fresh(n)),
                             count |-> SelfTestCount(n)] ELSE NoBatch,
    command |-> "none", step |-> FALSE, count |-> SelfTestCount(n),
    persist_count |-> SelfTestCount(n), warm |-> whole ]

Init ==
  /\ slots = [i \in Slot |->
                LET ran == {n \in SelfTests : n % NumSlots = i} IN
                IF ran = {} THEN EmptySlot
                ELSE SelfTestedSlot(CHOOSE n \in ran : \A m \in ran : m <= n)]
  /\ collect_at = 3 % NumSlots
  /\ pending = 0
  /\ held = << >>
  /\ got = NoBatch
  /\ error = "none"
  /\ dropped = FALSE

-----------------------------------------------------------------------------
(* The k-th slot after the oldest batch in flight.                         *)
At(k) == (collect_at + k) % NumSlots

SubmitAt == At(pending)

AfterCollect == At(1)

(* begin_observed steps the kept points only if the caller resumes, and    *)
(* the slot's last command covered the same whole chains.                  *)
CanStepAnyCount(slot, count) ==
  Persist /\ slot.warm /\ WholeChains(count)

CanStep(slot, count) ==
  Persist /\ slot.warm /\ slot.persist_count = count /\ WholeChains(count)

(* The batch whose addresses the slot's command derives.                   *)
Source(slot) ==
  CASE ~ slot.step -> slot.input
    [] slot.step /\ slot.state # NoBatch /\ slot.count <= slot.state.count ->
         slot.state.keys
    [] OTHER -> NoBatch

(***************************************************************************)
(* begin_observed(keys, count, resume) and the caller's push to held.      *)
(***************************************************************************)
BeginAccepted == pending < NumSlots /\ slots[SubmitAt].command = "none"

SlotAfterBegin(slot, keys, count, resume) ==
  LET step == resume /\ CanStep(slot, count) IN
  [slot EXCEPT !.input = IF step THEN @ ELSE keys,
               !.command = "queued",
               !.step = step,
               !.count = count,
               !.persist_count = count,
               !.warm = Persist /\ WholeChains(count)]

BeginBatch(keys, count, resume) ==
  /\ BeginAccepted
  /\ slots' = [slots EXCEPT ![SubmitAt] =
                 SlotAfterBegin(@, keys, count, resume)]
  /\ pending' = pending + 1
  /\ held' = Append(held, [keys |-> keys, count |-> count])
  /\ UNCHANGED << collect_at, got, error, dropped >>

(* The ensure! that refuses a batch.                                       *)
BeginRefused ==
  /\ ~ BeginAccepted
  /\ error' = IF pending = NumSlots THEN "exhausted" ELSE "busy"
  /\ UNCHANGED << slots, collect_at, pending, held, got, dropped >>

(* No command buffer, or an encoding error: the keys are already uploaded. *)
BeginFails(keys, count, resume) ==
  /\ BeginAccepted
  /\ slots' = [slots EXCEPT ![SubmitAt].input =
                 IF resume /\ CanStep(slots[SubmitAt], count) THEN @ ELSE keys]
  /\ error' = "device"
  /\ UNCHANGED << collect_at, pending, held, got, dropped >>

(***************************************************************************)
(* The device executes the command of slot i: the points come from the     *)
(* uploaded keys or from the kept points, and a build with persist stores  *)
(* the points of the next batch when every chain is whole.                 *)
(***************************************************************************)
StoredUnmoved(slot) ==
  IF Persist /\ WholeChains(slot.count) /\ Source(slot) # NoBatch
    THEN [keys |-> Source(slot), count |-> slot.count]
    ELSE NoBatch

StoredOneShort(slot) ==
  IF Persist /\ WholeChains(slot.count) /\ Source(slot) # NoBatch
    THEN [keys |-> Advance(Source(slot)), count |-> slot.count - Stride]
    ELSE NoBatch

StoredPoints(slot) ==
  IF Persist /\ WholeChains(slot.count) /\ Source(slot) # NoBatch
    THEN [keys |-> Advance(Source(slot)), count |-> slot.count]
    ELSE NoBatch

Execute(i) ==
  /\ slots[i].command = "queued"
  /\ slots' = [slots EXCEPT ![i].output = Source(slots[i]),
                            ![i].state = StoredPoints(slots[i]),
                            ![i].command = "done"]
  /\ UNCHANGED << collect_at, pending, held, got, error, dropped >>

(* The command buffer ends with a status other than Completed.             *)
DeviceFails(i) ==
  /\ slots[i].command = "queued"
  /\ slots' = [slots EXCEPT ![i].command = "failed"]
  /\ UNCHANGED << collect_at, pending, held, got, error, dropped >>

-----------------------------------------------------------------------------
(***************************************************************************)
(* end_observed(keys, addresses) on the batch the caller popped from held. *)
(* waitUntilCompleted blocks while the command is queued.  On an error the *)
(* command has been taken, but the input is not wiped and the ring does    *)
(* not move: only Drop may follow.  One sampled address is verified, which *)
(* always tells another batch but may miss addresses of no batch.          *)
(***************************************************************************)
EndOutcomes(slot, batch) ==
  IF pending = 0 THEN {"idle"}
  ELSE CASE slot.command = "none"   -> {"missing"}
         [] slot.command = "failed" -> {"device"}
         [] slot.command = "done"   ->
              IF slot.count # batch.count       THEN {"length"}
              ELSE IF slot.output = batch.keys  THEN {"none"}
              ELSE IF slot.output = NoBatch     THEN {"none", "mismatch"}
              ELSE {"mismatch"}

CollectedUnwiped(slot) == [slot EXCEPT !.command = "none"]

Collected(slot) == [slot EXCEPT !.command = "none", !.input = NoBatch]

EndBatch ==
  /\ held # << >>
  /\ UNCHANGED dropped
  /\ held' = Tail(held)
  /\ slots[collect_at].command # "queued"
  /\ \E outcome \in EndOutcomes(slots[collect_at], Head(held)) :
       /\ error' = outcome
       /\ IF outcome = "none"
            THEN /\ slots' = [slots EXCEPT ![collect_at] = Collected(@)]
                 /\ got' = [keys |-> Head(held).keys,
                            addresses |-> slots[collect_at].output]
                 /\ collect_at' = AfterCollect
                 /\ pending' = pending - 1
            ELSE /\ slots' = [slots EXCEPT ![collect_at].command = "none"]
                 /\ UNCHANGED << got, collect_at, pending >>

(***************************************************************************)
(* The search loop is over, by a return, an error or a panic: the clones   *)
(* it still holds are wiped, and what is in flight stays in flight.        *)
(***************************************************************************)
Abandon ==
  /\ held' = << >>
  /\ error' = IF error = "none" THEN "finished" ELSE error
  /\ UNCHANGED << slots, collect_at, pending, got, dropped >>

(***************************************************************************)
(* Drop: each command is taken, which waits for it, and each input wiped.  *)
(***************************************************************************)
DropWithoutWait ==
  /\ ~ dropped
  /\ held = << >>
  /\ dropped' = TRUE
  /\ slots' = [i \in Slot |-> [slots[i] EXCEPT !.input = NoBatch]]
  /\ UNCHANGED << collect_at, pending, held, got, error >>

DropBackend ==
  /\ ~ dropped
  /\ held = << >>
  /\ \A i \in Slot : slots[i].command # "queued"
  /\ dropped' = TRUE
  /\ slots' = [i \in Slot |-> [slots[i] EXCEPT !.command = "none",
                                               !.input = NoBatch]]
  /\ UNCHANGED << collect_at, pending, held, got, error >>

-----------------------------------------------------------------------------
(***************************************************************************)
(* The caller of the trait: run_inflight_source keeps at most              *)
(* inflight_capacity() clones and calls nothing after an error.  It        *)
(* resumes only keys whose predecessors were the last batch of the slot.   *)
(***************************************************************************)
CallerBatch == [fill : 3 .. MaxFill, step : 0 .. MaxStep]

MayResume(keys) ==
  LET before == slots[SubmitAt].output IN
  before # NoBatch /\ keys = Advance(before)

Usable == error = "none" /\ ~ dropped

CallBegin ==
  /\ Usable
  /\ Len(held) < NumSlots
  /\ \/ \E keys \in CallerBatch, count \in Sizes, resume \in BOOLEAN :
          /\ resume => MayResume(keys)
          /\ BeginBatch(keys, count, resume) \/ BeginFails(keys, count, resume)
     \/ BeginRefused

CallEnd ==
  /\ Usable
  /\ EndBatch

Next ==
  \/ CallBegin
  \/ CallEnd
  \/ Abandon
  \/ \E i \in Slot : Execute(i) \/ DeviceFails(i)
  \/ DropBackend

Spec == Init /\ [][Next]_vars
-----------------------------------------------------------------------------
(* Every variable has its type (GpuSlot, MetalBackend of metal.rs).        *)
TypeOK ==
  /\ slots \in [Slot -> GpuSlot]
  /\ collect_at \in Slot
  /\ pending \in 0 .. NumSlots
  /\ held \in Seq([keys : KeyBatch, count : Nat])
  /\ got \in [keys : Contents, addresses : Contents] \union {NoBatch}
  /\ error \in {"none", "exhausted", "busy", "device", "idle", "missing",
                "length", "mismatch", "finished"}
  /\ dropped \in BOOLEAN

(***************************************************************************)
(* The ensure!s of begin_observed and end_observed never fire for this     *)
(* caller: only the device itself makes a call fail.                       *)
(***************************************************************************)
OnlyDeviceErrors == error \in {"none", "device", "finished"}

(***************************************************************************)
(* Key material is in a device buffer only while its command is in flight, *)
(* until a call fails, and nowhere after Drop (metal.rs: input.clear()).   *)
(***************************************************************************)
SecretsOnlyInFlight ==
  \A i \in Slot :
    slots[i].input # NoBatch =>
      ~ dropped /\ (slots[i].command # "none" \/ error # "none")

(* "CPU waits or Drop complete GPU work before the slot is reused": a      *)
(* command in the queue is never overwritten, and none survives Drop.      *)
QueuedCommandIsKept ==
  [][\A i \in Slot :
       slots[i].command = "queued" =>
         /\ slots'[i].command \in {"queued", "done", "failed"}
         /\ slots'[i].input = slots[i].input]_vars

(***************************************************************************)
(* The k-th batch in flight is in the k-th slot after the oldest, and that *)
(* slot has derived, or is going to derive, the addresses of its keys,     *)
(* whether it uploads them or steps the points it kept.                    *)
(***************************************************************************)
Promised(slot) == IF slot.command = "done" THEN slot.output ELSE Source(slot)

SlotsFollowHeld ==
  Usable =>
    /\ pending = Len(held)
    /\ \A k \in 1 .. pending : Promised(slots[At(k - 1)]) = held[k].keys

(***************************************************************************)
(* The backend is a bounded queue for its caller: batches come back in the *)
(* order of submission, each with the addresses of its own keys.           *)
(***************************************************************************)
InFlight == IF Usable THEN [k \in 1 .. Len(held) |-> held[k].keys] ELSE << >>

Fifo == INSTANCE BatchFifo WITH
          Batches <- CallerBatch, Capacity <- NumSlots,
          queue <- InFlight, open <- Usable

ImplementsFifo == Fifo!Spec
=============================================================================
