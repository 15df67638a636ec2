--------------------------- MODULE VulkanObjects ----------------------------
(***************************************************************************)
(* The driver's objects of the Vulkan backend (src/backend/vulkan.rs):     *)
(* their creation one after the other, each of which may fail; the copy of *)
(* the table out of its staging buffer; and Drop, which runs as soon as    *)
(* there is a VulkanBackend, finished or not.  None of them is freed by    *)
(* itself, and none may go while the device works with it.                 *)
(*                                                                         *)
(* What the batches of a slot compute is module UploadRing's.              *)
(***************************************************************************)
EXTENDS Integers, SequencesExt

CONSTANT Inflight  (* INFLIGHT.                                            *)

VARIABLES
  vulkan,     (* Where VulkanBackend::new, its user or Drop is.            *)
  at,         (* How far the plan of creation, or that of Drop, has come.  *)
  making,     (* What create_buffer does next.                             *)
  rebar,      (* create_host_buffer still tries device-local memory.       *)
  live,       (* The driver's objects that exist.                          *)
  owned,      (* Those in the fields of the VulkanBackend.                 *)
  submitted,  (* The slots with that flag.                                 *)
  running,    (* What the device works on: slots, and 0 for the copy.      *)
  whole,      (* History: the backend was finished.                        *)
  unsure      (* History: what Drop could not wait for.                    *)

objects == << vulkan, at, making, rebar, live, owned, submitted, running,
              whole, unsure >>

ObjectSlot == 1 .. Inflight

(* An object is its kind, its slot, 0 for what the slots share, and which  *)
(* of the two it is: the memory of a buffer is an object of its own.       *)
Object(kind, s) == << kind, s, "itself" >>

MemoryOf(buffer) == << buffer[1], buffer[2], "memory" >>

Both(buffer) == {buffer, MemoryOf(buffer)}

Shared(kind) == Object(kind, 0)

Instance == Shared("instance")

LogicalDevice == Shared("device")

Table == Shared("table")

Staging == Shared("staging")

Keys(s) == Object("keys", s)

Addresses(s) == Object("addresses", s)

Fence(s) == Object("fence", s)

(* What create_backend makes of the device, the k-th of it: what the slots *)
(* share, then the objects of one slot after the other.  Descriptor sets   *)
(* and command buffers come from their pools, and go with them.            *)
SharedPlan ==
  << Shared("command pool"), Shared("descriptor layout"),
     Shared("descriptor pool"), Shared("pipeline layout"), Shared("shader"),
     Shared("pipeline"), Table, Staging >>

SlotPlan(s) == << Keys(s), Addresses(s), Fence(s) >>

PlanLength == 8 + 3 * Inflight

Plan(k) ==
  IF k <= 8 THEN SharedPlan[k]
            ELSE SlotPlan((k - 6) \div 3)[1 + ((k - 6) % 3)]

(* What Drop destroys, the k-th of it.                                     *)
SlotDrop(s) ==
  << Fence(s), Keys(s), MemoryOf(Keys(s)), Addresses(s), MemoryOf(Addresses(s)) >>

SharedDrop ==
  << Table, MemoryOf(Table), Shared("pipeline"), Shared("pipeline layout"),
     Shared("shader"), Shared("descriptor pool"), Shared("descriptor layout"),
     Shared("command pool"), LogicalDevice, Instance >>

DropLength == 5 * Inflight + 10

DropPlan(k) ==
  IF k <= 5 * Inflight THEN SlotDrop((k + 4) \div 5)[1 + ((k + 4) % 5)]
                       ELSE SharedDrop[k - 5 * Inflight]

IsBuffer(o) == o[1] \in {"table", "staging", "keys", "addresses"}

IsHostBuffer(o) == o[1] \in {"keys", "addresses"}

(* A slot enters the backend once it has its fence, the staging buffer     *)
(* never does.                                                             *)
FieldsOf(o) ==
  IF o[1] = "fence" THEN Both(Keys(o[2])) \union Both(Addresses(o[2])) \union {o}
  ELSE IF o = Table THEN Both(o)
  ELSE IF IsBuffer(o) THEN {}
  ELSE {o}

VulkanInit ==
  /\ vulkan = "idle"
  /\ at = 0
  /\ making = "object"
  /\ rebar = TRUE
  /\ live = {} /\ owned = {}
  /\ submitted = {} /\ running = {}
  /\ whole = FALSE
  /\ unsure = {}

-----------------------------------------------------------------------------
(***************************************************************************)
(* VulkanBackend::new, up to the device.  A missing loader and a failed    *)
(* instance are an absence; any other failure is an error.                 *)
(***************************************************************************)
CreateInstance ==
  /\ vulkan = "idle"
  /\ \/ vulkan' = "absent" /\ live' = live
     \/ vulkan' = "pick" /\ live' = {Instance}
  /\ UNCHANGED << at, making, rebar, owned, submitted, running, whole, unsure >>

DevicePicked == vulkan' = "device" /\ live' = live

NoDevice == vulkan' = "absent" /\ live' = {}

PickFails == vulkan' = "failed" /\ live' = live

PickDevice(some) ==
  /\ vulkan = "pick"
  /\ PickFails \/ (IF some THEN DevicePicked ELSE NoDevice)
  /\ UNCHANGED << at, making, rebar, owned, submitted, running, whole, unsure >>

CreateDevice ==
  /\ vulkan = "device"
  /\ \/ /\ vulkan' = "failed"
        /\ UNCHANGED << at, live, owned >>
     \/ /\ vulkan' = "create"
        /\ at' = 1
        /\ live' = {Instance, LogicalDevice}
        /\ owned' = {Instance, LogicalDevice}
  /\ UNCHANGED << making, rebar, submitted, running, whole, unsure >>

-----------------------------------------------------------------------------
(***************************************************************************)
(* create_backend, with create_buffer, create_host_buffer and upload_table.*)
(* An early return of any of them drops what there is of the backend.      *)
(***************************************************************************)
Creating(step) == vulkan = "create" /\ making = step

StartDrop == vulkan' = "wait idle" /\ UNCHANGED at

NextInPlan ==
  /\ at' = at + 1
  /\ vulkan' = IF at = PlanLength THEN "ready" ELSE "create"
  /\ whole' = (at = PlanLength)

Made(o) ==
  /\ owned' = owned \union FieldsOf(o)
  /\ making' = "object"
  /\ rebar' = TRUE
  /\ IF o = Staging THEN vulkan' = "copy" /\ UNCHANGED << at, whole >>
                    ELSE NextInPlan

CreateObject ==
  /\ Creating("object")
  /\ live' = live \union {Plan(at)}
  /\ IF IsBuffer(Plan(at))
       THEN making' = "memory" /\ UNCHANGED << vulkan, at, rebar, owned, whole >>
       ELSE Made(Plan(at))
  /\ UNCHANGED << submitted, running, unsure >>

AllocateMemory ==
  /\ Creating("memory")
  /\ live' = live \union {MemoryOf(Plan(at))}
  /\ making' = "bind"
  /\ UNCHANGED << vulkan, at, rebar, owned, submitted, running, whole, unsure >>

BindMemory ==
  /\ Creating("bind")
  /\ IF Plan(at) = Table
       THEN Made(Table)
       ELSE making' = "map" /\ UNCHANGED << vulkan, at, rebar, owned, whole >>
  /\ UNCHANGED << live, submitted, running, unsure >>

MapMemory ==
  /\ Creating("map")
  /\ Made(Plan(at))
  /\ UNCHANGED << live, submitted, running, unsure >>

(* What create_buffer undoes before it returns an error.                   *)
UndoneBufferOnly(buffer) == live \ {buffer}

Undone(buffer) == live \ Both(buffer)

BufferFails ==
  /\ vulkan = "create" /\ IsBuffer(Plan(at))
  /\ live' = Undone(Plan(at))
  /\ making' = "object"
  /\ IF IsHostBuffer(Plan(at)) /\ rebar
       THEN rebar' = FALSE /\ UNCHANGED << vulkan, at >>
       ELSE StartDrop /\ UNCHANGED rebar
  /\ UNCHANGED << owned, submitted, running, whole, unsure >>

ObjectFails ==
  /\ vulkan = "create" /\ ~ IsBuffer(Plan(at))
  /\ StartDrop
  /\ UNCHANGED << making, rebar, live, owned, submitted, running, whole, unsure >>

(* The copy is recorded and submitted, or one of these calls fails.        *)
SubmitCopy ==
  /\ vulkan = "copy"
  /\ \/ vulkan' = "wait" /\ running' = {0} /\ UNCHANGED at
     \/ StartDrop /\ UNCHANGED running
  /\ UNCHANGED << making, rebar, live, owned, submitted, whole, unsure >>

(* queue_wait_idle.                                                        *)
WaitForCopy ==
  /\ vulkan = "wait"
  /\ running' = {}
  /\ live' = live \ Both(Staging)
  /\ NextInPlan
  /\ UNCHANGED << making, rebar, owned, submitted, unsure >>

WaitForCopyFails ==
  /\ vulkan = "wait"
  /\ StartDrop
  /\ UNCHANGED << making, rebar, live, owned, submitted, running, whole, unsure >>

-----------------------------------------------------------------------------
(***************************************************************************)
(* The user of the backend, the startup self-test first: it begins and     *)
(* ends batches, and drops the backend at any time.                        *)
(***************************************************************************)
SubmitBatch(s) ==
  /\ vulkan = "ready" /\ s \notin submitted
  /\ submitted' = submitted \union {s}
  /\ running' = running \union {s}
  /\ UNCHANGED << vulkan, at, making, rebar, live, owned, whole, unsure >>

CollectBatch(s) ==
  /\ vulkan = "ready" /\ s \in submitted
  /\ submitted' = submitted \ {s}
  /\ running' = running \ {s}
  /\ UNCHANGED << vulkan, at, making, rebar, live, owned, whole, unsure >>

DropBackend ==
  /\ vulkan = "ready"
  /\ StartDrop
  /\ UNCHANGED << making, rebar, live, owned, submitted, running, whole, unsure >>

(* The device, by itself.                                                  *)
DeviceEnds(work) ==
  /\ work \in running
  /\ running' = running \ {work}
  /\ UNCHANGED << vulkan, at, making, rebar, live, owned, submitted, whole,
                  unsure >>

-----------------------------------------------------------------------------
(***************************************************************************)
(* Drop.  Both of its waits ignore an error.  On a lost device nothing     *)
(* runs; after any other error the work may go on.                         *)
(***************************************************************************)
WaitIdleNever ==
  /\ vulkan = "wait idle"
  /\ vulkan' = "drop" /\ at' = 1
  /\ UNCHANGED << making, rebar, live, owned, submitted, running, whole, unsure >>

WaitIdle ==
  /\ vulkan = "wait idle"
  /\ vulkan' = "drop" /\ at' = 1
  /\ \/ running' = {} /\ UNCHANGED unsure
     \/ UNCHANGED running /\ unsure' = running \intersect {0}
  /\ UNCHANGED << making, rebar, live, owned, submitted, whole >>

(* A slot's wait comes right before its fence goes.                        *)
WaitForSlot(s) ==
  IF s \in submitted
    THEN \/ running' = running \ {s} /\ UNCHANGED unsure
         \/ UNCHANGED running /\ unsure' = unsure \union (running \intersect {s})
    ELSE UNCHANGED << running, unsure >>

DropNext ==
  /\ vulkan = "drop"
  /\ LET o == DropPlan(at)
     IN  /\ IF o[1] = "fence" /\ o \in owned
              THEN WaitForSlot(o[2]) /\ submitted' = submitted \ {o[2]}
              ELSE UNCHANGED << running, unsure, submitted >>
         /\ live' = live \ ({o} \intersect owned)
         /\ owned' = owned \ {o}
  /\ at' = at + 1
  /\ vulkan' = IF at < DropLength THEN "drop"
               ELSE IF whole THEN "dropped" ELSE "failed"
  /\ UNCHANGED << making, rebar, whole >>

(* What follows once a device is picked.                                   *)
VulkanWork ==
  \/ CreateDevice
  \/ CreateObject \/ AllocateMemory \/ BindMemory \/ MapMemory
  \/ BufferFails \/ ObjectFails
  \/ SubmitCopy \/ WaitForCopy \/ WaitForCopyFails
  \/ \E s \in ObjectSlot : SubmitBatch(s) \/ CollectBatch(s)
  \/ DropBackend \/ WaitIdle \/ DropNext
  \/ \E work \in {0} \union ObjectSlot : DeviceEnds(work)

-----------------------------------------------------------------------------
(***************************************************************************)
(* Nothing of an absent backend is left, nor of one that was finished and  *)
(* dropped.  A failed creation leaves what no field held yet, and no more: *)
(* the instance alone, the staging buffer, or the buffers of the slot that *)
(* was being made.                                                         *)
(***************************************************************************)
NothingLeft ==
  /\ vulkan \in {"absent", "dropped"} => live = {}
  /\ vulkan = "failed" =>
       \/ live \subseteq {Instance}
       \/ live = Both(Staging)
       \/ \E s \in ObjectSlot : live \subseteq Both(Keys(s)) \union Both(Addresses(s))

(***************************************************************************)
(* What the device may still use exists: the buffers, pools and pipeline   *)
(* of a batch, the staging buffer of the copy.  Whatever step failed, the  *)
(* waits in Drop come first; only where both fail is it uncertain.         *)
(***************************************************************************)
UsedBy(work) ==
  {Instance, LogicalDevice, Shared("command pool")} \union Both(Table)
    \union (IF work = 0
              THEN Both(Staging)
              ELSE {Fence(work), Shared("pipeline"), Shared("descriptor pool")}
                     \union Both(Keys(work)) \union Both(Addresses(work)))

BusyIsKept == \A work \in running \ unsure : UsedBy(work) \subseteq live
=============================================================================
