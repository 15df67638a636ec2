------------------------------ MODULE Startup -------------------------------
(***************************************************************************)
(* The choice of a backend when the program starts: select of              *)
(* src/backend/mod.rs, and the search for a device in cuda.rs and          *)
(* vulkan.rs.  A backend that is absent is passed over; one that fails     *)
(* ends the program.  The Vulkan backend is put together step by step, by  *)
(* module VulkanObjects; of the others only the outcome is modelled.       *)
(***************************************************************************)
EXTENDS VulkanObjects

CONSTANTS
  CudaDevices,    (* What the driver may tell of a device.                 *)
  VulkanDevices,
  MaxDevices      (* Bound: the devices of a machine.                      *)

ASSUME StartupAssumption ==
  /\ Inflight \in Nat \ {0}
  /\ MaxDevices \in Nat
  /\ \A d \in CudaDevices : d.major \in Int /\ d.minor \in Int

VARIABLES
  choice,     (* --backend.                                                *)
  platform,   (* The target the program is compiled for.                   *)
  tried,      (* The outcome of each backend's new.                        *)
  found,      (* The devices of the driver asked last,                     *)
  device,     (* and the one that was picked of them, or 0.                *)
  selection   (* The result of select.                                     *)

own == << choice, platform, tried, found, device, selection >>

Backends == {"metal", "cuda", "vulkan"}

Choice == Backends \union {"auto", "cpu"}

Platform == {"apple silicon", "intel mac", "other"}

Outcome == {"untried", "trying", "absent", "failed", "created"}

Mac == platform \in {"apple silicon", "intel mac"}

-----------------------------------------------------------------------------
(***************************************************************************)
(* The loops over the devices of a driver: the first of the highest rank.  *)
(***************************************************************************)
Above(a, b) ==
  \E i \in DOMAIN a : a[i] > b[i] /\ \A j \in 1 .. i - 1 : a[j] = b[j]

NotBelow(a, b) == a = b \/ Above(a, b)

(* `pick_device' of cuda.rs and of vulkan.rs: a position, or 0, from what  *)
(* each device is good for.                                                *)
Picked(suits, rank) ==
  LET best[n \in 0 .. Len(suits)] ==
        IF n = 0 THEN 0
        ELSE IF \/ ~ suits[n]
                \/ best[n - 1] # 0 /\ NotBelow(rank[best[n - 1]], rank[n])
               THEN best[n - 1] ELSE n
  IN  best[Len(suits)]

CudaSuits(d) == d.opens /\ d.major >= 6 /\ d.integrated \in {0, 1}

CudaRank(d) == << IF d.integrated = 0 THEN 1 ELSE 0, d.major, d.minor >>

TypeScore(d) == CASE d.type = "discrete" -> 2 [] d.type = "integrated" -> 1
                  [] OTHER -> 0

VulkanSuits(d) == TypeScore(d) > 0 /\ d.int64 /\ d.limits /\ d.compute

VulkanRank(d) == << IF d.amd THEN 1 ELSE 0, TypeScore(d) >>

CudaPick(devices) ==
  Picked([i \in DOMAIN devices |-> CudaSuits(devices[i])],
         [i \in DOMAIN devices |-> CudaRank(devices[i])])

VulkanPick(devices) ==
  Picked([i \in DOMAIN devices |-> VulkanSuits(devices[i])],
         [i \in DOMAIN devices |-> VulkanRank(devices[i])])

-----------------------------------------------------------------------------
(* Auto goes on to the next backend when the one before it is absent.      *)
PassedOnAnyError(b) == tried[b] \in {"absent", "failed"}

Passed(b) == tried[b] = "absent"

Before(b) ==
  CASE b = "metal" -> {}
    [] b = "cuda" -> {"metal"}
    [] b = "vulkan" -> {"metal", "cuda"}

Wanted(b) ==
  /\ tried[b] = "untried"
  /\ \/ choice = b
     \/ choice = "auto" /\ \A earlier \in Before(b) : Passed(earlier)

StartupInit ==
  /\ choice \in Choice
  /\ platform \in Platform
  /\ tried = [b \in Backends |-> "untried"]
  /\ found = << >>
  /\ device = 0
  /\ selection = "none"
  /\ VulkanInit

Outcomes(b, outcomes) ==
  \E outcome \in outcomes : tried' = [tried EXCEPT ![b] = outcome]

(* The backend of a Mac with an Apple GPU, or the module that stands in.   *)
TryMetal ==
  /\ Wanted("metal")
  /\ Outcomes("metal", IF platform = "apple silicon"
                         THEN {"absent", "failed", "created"} ELSE {"absent"})
  /\ UNCHANGED << choice, platform, found, device, selection, objects >>

(* A driver that is missing, or does not count its devices, has none.      *)
TryCuda ==
  /\ Wanted("cuda")
  /\ found' \in IF Mac THEN {<< >>} ELSE SeqOf(CudaDevices, MaxDevices)
  /\ device' = CudaPick(found')
  /\ Outcomes("cuda", IF device' = 0 THEN {"absent"} ELSE {"failed", "created"})
  /\ UNCHANGED << choice, platform, selection, objects >>

TryVulkan ==
  /\ Wanted("vulkan")
  /\ found' = << >> /\ device' = 0
  /\ IF Mac THEN Outcomes("vulkan", {"absent"}) /\ UNCHANGED objects
            ELSE /\ CreateInstance
                 /\ Outcomes("vulkan",
                             {IF vulkan' = "absent" THEN "absent" ELSE "trying"})
  /\ UNCHANGED << choice, platform, selection >>

PickVulkanDevice ==
  /\ tried["vulkan"] = "trying"
  /\ found' \in SeqOf(VulkanDevices, MaxDevices)
  /\ device' = VulkanPick(found')
  /\ PickDevice(device' # 0)
  /\ Outcomes("vulkan", {CASE vulkan' = "device" -> "trying"
                           [] vulkan' = "absent" -> "absent"
                           [] vulkan' = "failed" -> "failed"})
  /\ UNCHANGED << choice, platform, selection >>

(* The creation, the batches of the self-test, and whatever follows.  An   *)
(* error of VulkanBackend::new is returned after Drop.                     *)
VulkanStep ==
  /\ VulkanWork
  /\ found' = << >> /\ device' = 0
  /\ Outcomes("vulkan",
       {IF tried["vulkan"] = "trying" /\ vulkan' \in {"failed", "dropped"}
          THEN "failed" ELSE tried["vulkan"]})
  /\ UNCHANGED << choice, platform, selection >>

SelfTestPasses ==
  /\ tried["vulkan"] = "trying" /\ vulkan = "ready" /\ submitted = {}
  /\ Outcomes("vulkan", {"created"})
  /\ UNCHANGED << choice, platform, found, device, selection, objects >>

Select ==
  /\ selection = "none"
  /\ \/ choice = "cpu" /\ selection' = "cpu"
     \/ \E b \in Backends : tried[b] = "created" /\ selection' = b
     \/ /\ \E b \in Backends : tried[b] = "failed" /\ ~ Passed(b)
        /\ selection' = "error"
     \/ choice \in Backends /\ Passed(choice) /\ selection' = "error"
     \/ /\ choice = "auto" /\ \A b \in Backends : Passed(b)
        /\ selection' = "fallback"
  /\ UNCHANGED << choice, platform, tried, found, device, objects >>

Terminated ==
  /\ selection # "none"
  /\ vulkan \in {"idle", "absent", "failed", "dropped"}
  /\ UNCHANGED << own, objects >>

StartupNext ==
  \/ TryMetal \/ TryCuda
  \/ TryVulkan \/ PickVulkanDevice \/ VulkanStep \/ SelfTestPasses
  \/ Select
  \/ Terminated

StartupSpec == StartupInit /\ [][StartupNext]_<< own, objects >>

-----------------------------------------------------------------------------
(* The table of the tests' `resolve', of which backends are available.     *)
Resolve(c, available) ==
  CASE c = "cpu" -> "cpu"
    [] c \in Backends -> IF available[c] THEN c ELSE "error"
    [] c = "auto" -> IF available["metal"] THEN "metal"
                     ELSE IF available["cuda"] THEN "cuda"
                     ELSE IF available["vulkan"] THEN "vulkan"
                     ELSE "fallback"

(* The device that is picked is usable, none of the others that are usable *)
(* ranks above it, and of its equals it is the first; none is picked only  *)
(* where none is usable.                                                   *)
BestOf(Suits(_), Rank(_)) ==
  LET usable == {i \in DOMAIN found : Suits(found[i])}
  IN  IF device = 0
        THEN usable = {}
        ELSE /\ device \in usable
             /\ \A i \in usable :
                  \/ Above(Rank(found[device]), Rank(found[i]))
                  \/ Rank(found[device]) = Rank(found[i]) /\ device <= i

PicksTheBest ==
  found # << >> => IF tried["vulkan"] = "untried"
                     THEN BestOf(CudaSuits, CudaRank)
                     ELSE BestOf(VulkanSuits, VulkanRank)

(***************************************************************************)
(* The selection is the one of that table, whatever the backends that were *)
(* not tried would have been: an explicit choice never becomes another     *)
(* backend, and auto takes no later one.  A backend that fails ends the    *)
(* start, even where a later one, or the CPU, would do.                    *)
(***************************************************************************)
AsResolved ==
  selection # "none" =>
    IF \E b \in Backends : tried[b] = "failed"
      THEN selection = "error"
      ELSE \A available \in [Backends -> BOOLEAN] :
             (\A b \in Backends :
                /\ (tried[b] = "created" => available[b])
                /\ (tried[b] = "absent" => ~ available[b]))
               => selection = Resolve(choice, available)

(* The start ends with the backend of the table, on the best device.       *)
SelectsAsResolved == AsResolved /\ PicksTheBest
=============================================================================
