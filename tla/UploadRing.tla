----------------------------- MODULE UploadRing -----------------------------
(***************************************************************************)
(* The rings of in-flight slots of the CUDA and the Vulkan backend         *)
(* (src/backend/cuda.rs, src/backend/vulkan.rs), from their creation       *)
(* through the startup self-test to Drop.  Every batch's keys are expanded *)
(* on the host and uploaded; nothing stays on the GPU between batches.     *)
(*                                                                         *)
(* CUDA expands into a host buffer of the slot, and copies, launches and   *)
(* records an event on the slot's own stream; any of these calls may fail  *)
(* and leave the ones before it done.  Vulkan expands into the mapped key  *)
(* buffer, and submits command buffer and fence in one call.               *)
(*                                                                         *)
(* A batch is a number, and stands for its keys and for their addresses.   *)
(* A slot is written and read for just the addresses of its batch, so that *)
(* counts are left out.                                                    *)
(***************************************************************************)
EXTENDS Sequences, Integers

CONSTANTS
  Setups,    (* <<api, zeroized>>: "cuda" or "vulkan", and what the call   *)
             (* host_keys.zeroize() makes of the buffer: "zeroed" in place *)
             (* or "emptied", as zeroize does with a Vec.                  *)
  NumSlots,  (* INFLIGHT.                                                  *)
  MaxBatch,  (* Bound: the last batch; 0, 1, 2 are the self-test's.        *)
  NoBatch    (* A cleared buffer, addresses of no one batch, no result.    *)

ASSUME UploadAssumption ==
  /\ Setups \subseteq {"cuda", "vulkan"} \X {"zeroed", "emptied"}
  /\ NumSlots \in Nat \ {0}
  /\ MaxBatch \in Nat
  /\ NoBatch \notin Nat

VARIABLES
  api, zeroized,
  slots,       (* The GpuSlot records.                                     *)
  collect_at,  (* The slot of the oldest batch in flight.                  *)
  pending,     (* Batches in flight.                                       *)
  lost,        (* The device has failed, and every call to it fails.       *)
  next,        (* The caller's next batch.                                 *)
  held,        (* The batches the caller has begun and not ended.          *)
  got,         (* The last successful end_batch.                           *)
  error,       (* Why no call may follow, or "none".                       *)
  dropped      (* Slots that Drop is done with.                            *)

vars == << api, zeroized, slots, collect_at, pending, lost, next, held, got,
           error, dropped >>

Slot == 0 .. NumSlots - 1

Contents == Nat \union {NoBatch}

GpuSlot ==
  [ host      : Contents,   (* host_keys; unused by Vulkan.                *)
    room      : BOOLEAN,    (* host_keys has the length it was made with.  *)
    keys      : Contents,   (* The kernel's input.                         *)
    addresses : Contents,   (* Its output.                                 *)
    kernel    : {"idle", "queued", "running"},
    submitted : BOOLEAN ]

Init ==
  /\ \E setup \in Setups : api = setup[1] /\ zeroized = setup[2]
  /\ slots = [i \in Slot |->
                [ host |-> NoBatch, room |-> TRUE, keys |-> NoBatch,
                  addresses |-> NoBatch, kernel |-> "idle",
                  submitted |-> FALSE ]]
  /\ collect_at = 0
  /\ pending = 0
  /\ lost = FALSE
  /\ next = 0
  /\ held = << >>
  /\ got = NoBatch
  /\ error = "none"
  /\ dropped = 0

-----------------------------------------------------------------------------
(* The k-th slot after the oldest batch in flight.                         *)
At(k) == (collect_at + k) % NumSlots

SubmitAt == At(pending)

AfterCollect == At(1)

Usable == error = "none"

(***************************************************************************)
(* begin_batch.  What has been done of it: 0, the keys are in host_keys;   *)
(* 1, and in the kernel's input; 2, the kernel is launched; 3, its event   *)
(* recorded, or its fence submitted.  Only that is a success.              *)
(***************************************************************************)
Stages == IF api = "cuda" THEN 0 .. 3 ELSE {1, 3}

FirstStage == IF api = "cuda" THEN 0 ELSE 1

SlotAfterBegin(slot, batch, stage) ==
  [slot EXCEPT !.host = IF api = "cuda" THEN batch ELSE @,
               !.keys = IF stage >= 1 THEN batch ELSE @,
               !.kernel = IF stage >= 2 THEN "queued" ELSE @,
               !.submitted = stage = 3]

(* The ensure!s, the last of them in expand_chain_keys.                    *)
Refusal ==
  CASE pending = NumSlots -> "exhausted"
    [] pending < NumSlots /\ slots[SubmitAt].submitted -> "busy"
    [] OTHER -> IF api = "cuda" /\ ~ slots[SubmitAt].room THEN "short"
                                                          ELSE "none"

BeginRefused ==
  /\ Refusal # "none"
  /\ error' = Refusal
  /\ UNCHANGED << slots, pending, held, next >>

BeginBatch(batch) ==
  /\ Refusal = "none"
  /\ \E stage \in Stages :
       /\ lost => stage = FirstStage
       /\ slots' = [slots EXCEPT ![SubmitAt] = SlotAfterBegin(@, batch, stage)]
       /\ IF stage = 3
            THEN /\ pending' = pending + 1
                 /\ held' = Append(held, batch)
                 /\ next' = batch + 1
                 /\ UNCHANGED error
            ELSE /\ error' = "driver"
                 /\ UNCHANGED << pending, held, next >>

(* The caller: the self-test (derive_batch) ends each of its batches       *)
(* before the next one begins, and the search loop fills the slots.        *)
CallBegin ==
  /\ Usable /\ next <= MaxBatch
  /\ IF next <= 3 THEN held = << >> ELSE Len(held) < NumSlots
  /\ BeginRefused \/ BeginBatch(next)
  /\ UNCHANGED << api, zeroized, collect_at, lost, got, dropped >>

-----------------------------------------------------------------------------
(***************************************************************************)
(* The device.  While a kernel runs, some addresses are of its batch and   *)
(* some of an earlier one.                                                 *)
(***************************************************************************)
Start(i) ==
  /\ slots[i].kernel = "queued"
  /\ slots' = [slots EXCEPT ![i].kernel = "running", ![i].addresses = NoBatch]
  /\ UNCHANGED lost

Finish(i) ==
  /\ slots[i].kernel = "running"
  /\ slots' = [slots EXCEPT ![i].kernel = "idle",
                            ![i].addresses = slots[i].keys]
  /\ UNCHANGED lost

Lose ==
  /\ ~ lost
  /\ lost' = TRUE
  /\ slots' = [i \in Slot |-> [slots[i] EXCEPT !.kernel = "idle"]]

Device ==
  /\ Lose \/ \E i \in Slot : Start(i) \/ Finish(i)
  /\ UNCHANGED << api, zeroized, collect_at, pending, next, held, got, error,
                  dropped >>

-----------------------------------------------------------------------------
(***************************************************************************)
(* end_batch on the batch the caller popped from held.  wait_slot blocks   *)
(* while the kernel of a submitted slot is not done, or fails, with the    *)
(* kernel in whatever state it is; CUDA's download waits for the kernel in *)
(* any case.  One address is then derived by the CPU: it always tells      *)
(* another batch, but may miss a mixture.                                  *)
(***************************************************************************)
NotWaited(slot) == TRUE

Waited(slot) ==
  slot.kernel = "idle" \/ (api = "vulkan" /\ ~ slot.submitted)

WaitFails ==
  /\ slots[collect_at].submitted
  /\ error' = "driver"
  /\ UNCHANGED << slots, got, collect_at, pending >>

EndOutcomes(slot, batch) ==
  IF lost THEN {"driver"}
  ELSE (IF api = "cuda" THEN {"driver"} ELSE {})
         \union CASE slot.addresses = batch   -> {"none"}
                  [] slot.addresses = NoBatch -> {"none", "mismatch"}
                  [] OTHER                    -> {"mismatch"}

(* What is left in the slot of a call that failed: Vulkan clears submitted *)
(* as soon as it has waited, and CUDA may fail after wiping its device.    *)
SlotsAfterFailure(slot, outcome) ==
  {[slot EXCEPT !.submitted = @ /\ ~ (api = "vulkan" /\ outcome = "mismatch")]}
    \union IF api = "cuda" /\ outcome = "driver" /\ ~ lost
             THEN {[slot EXCEPT !.keys = NoBatch]} ELSE {}

ZeroizedHost(slot) ==
  [slot EXCEPT !.host = NoBatch, !.room = @ /\ zeroized = "zeroed"]

CollectedSubmitted(slot) ==
  [(IF api = "cuda" THEN ZeroizedHost(slot) ELSE slot) EXCEPT !.keys = NoBatch]

CollectedHostUnwiped(slot) ==
  [slot EXCEPT !.keys = NoBatch, !.submitted = FALSE]

Collected(slot) ==
  [(IF api = "cuda" THEN ZeroizedHost(slot) ELSE slot)
     EXCEPT !.keys = NoBatch, !.submitted = FALSE]

EndWaited(batch) ==
  /\ Waited(slots[collect_at])
  /\ \E outcome \in EndOutcomes(slots[collect_at], batch) :
       IF outcome = "none"
         THEN /\ slots' = [slots EXCEPT ![collect_at] = Collected(@)]
              /\ got' = [keys |-> batch,
                         addresses |-> slots[collect_at].addresses]
              /\ collect_at' = AfterCollect
              /\ pending' = pending - 1
              /\ UNCHANGED error
         ELSE /\ \E slot \in SlotsAfterFailure(slots[collect_at], outcome) :
                   slots' = [slots EXCEPT ![collect_at] = slot]
              /\ error' = outcome
              /\ UNCHANGED << got, collect_at, pending >>

EndBatch(batch) ==
  IF pending = 0
    THEN error' = "idle" /\ UNCHANGED << slots, got, collect_at, pending >>
    ELSE WaitFails \/ EndWaited(batch)

CallEnd ==
  /\ Usable /\ held # << >>
  /\ EndBatch(Head(held))
  /\ held' = Tail(held)
  /\ UNCHANGED << api, zeroized, lost, next, dropped >>

(* The search loop is over, or the self-test has failed.                   *)
Abandon ==
  /\ next < 3 => ~ Usable
  /\ held' = << >>
  /\ error' = IF Usable THEN "finished" ELSE error
  /\ UNCHANGED << api, zeroized, slots, collect_at, pending, lost, next, got,
                  dropped >>

(***************************************************************************)
(* Drop, one slot after the other, ignoring failures.  CUDA wipes the keys *)
(* by a call on the slot's stream, so after a kernel whose event was not   *)
(* recorded too, and in vain on a lost device; Vulkan waits for the device *)
(* and clears the mapped buffer itself.  These waits fail only on a lost   *)
(* device, where nothing runs any more.                                    *)
(***************************************************************************)
Dropped(slot) ==
  [(IF api = "cuda" THEN ZeroizedHost(slot) ELSE slot)
     EXCEPT !.keys = IF api = "cuda" /\ lost THEN slot.keys ELSE NoBatch,
            !.submitted = FALSE]

DropAwaitsSubmitted(i) == {j \in {i} : slots[j].submitted}

DropAwaits(i) == IF api = "cuda" THEN {i} ELSE Slot

DropSlot(i) ==
  /\ ~ Usable /\ held = << >> /\ dropped = i
  /\ \A j \in DropAwaits(i) : slots[j].kernel = "idle"
  /\ slots' = [slots EXCEPT ![i] = Dropped(@)]
  /\ dropped' = dropped + 1
  /\ UNCHANGED << api, zeroized, collect_at, pending, lost, next, held, got,
                  error >>

Next ==
  \/ CallBegin
  \/ CallEnd
  \/ Device
  \/ Abandon
  \/ \E i \in Slot : DropSlot(i)

Spec == Init /\ [][Next]_vars

-----------------------------------------------------------------------------
(* Every variable has its type (GpuSlot and the backends of both files).   *)
TypeOK ==
  /\ << api, zeroized >> \in Setups
  /\ slots \in [Slot -> GpuSlot]
  /\ collect_at \in Slot
  /\ pending \in 0 .. NumSlots
  /\ lost \in BOOLEAN
  /\ next \in Nat
  /\ held \in Seq(Nat)
  /\ got \in [keys : Nat, addresses : Contents] \union {NoBatch}
  /\ error \in {"none", "exhausted", "busy", "short", "driver", "idle",
                "mismatch", "finished"}
  /\ dropped \in 0 .. NumSlots

(***************************************************************************)
(* The ring's own ensure!s and the CPU check never fail for the search     *)
(* loop and the self-test: a slot is free again when its turn comes, and   *)
(* holds the addresses of the batch it is collected for.                   *)
(***************************************************************************)
OnlyDriverErrors == error \in {"none", "driver", "finished", "short"}

(***************************************************************************)
(* While the backend is in use, a slot holds keys, on either side, only of *)
(* the batch in flight there.  Drop leaves none in host memory, whatever   *)
(* failed before and at whichever call, and none on a device that still    *)
(* answers.                                                                *)
(***************************************************************************)
KeysOnlyInFlight ==
  \A i \in Slot :
    /\ Usable => {slots[i].host, slots[i].keys} \subseteq
                   {NoBatch} \union {held[k] : k \in {n \in 1 .. pending :
                                                      At(n - 1) = i}}
    /\ i < dropped => /\ slots[i].host = NoBatch
                      /\ slots[i].keys # NoBatch => lost /\ api = "cuda"

(* The buffers of a kernel that is queued or running are neither written   *)
(* by the host nor given up, not even after a call that failed half-way.   *)
KernelKeepsItsBuffers ==
  [][\A i \in Slot :
       slots[i].kernel # "idle" =>
         slots'[i].keys = slots[i].keys /\ dropped' <= i]_vars

(***************************************************************************)
(* Both backends are the bounded queue that GpuRing is: batches come back  *)
(* in the order of submission, each with its own addresses.                *)
(***************************************************************************)
Fifo == INSTANCE BatchFifo WITH
          Batches <- 0 .. MaxBatch, Capacity <- NumSlots,
          queue <- IF Usable THEN held ELSE << >>, open <- Usable

ImplementsFifo == Fifo!Spec

(***************************************************************************)
(* A slot takes one batch after another: the test cuda_differential        *)
(* (src/backend/cuda.rs:349) derives nine batches on one backend, and the  *)
(* startup self-test three on two slots.                                   *)
(***************************************************************************)
SlotsTakeMore == error # "short"
=============================================================================
