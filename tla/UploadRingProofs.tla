-------------------------- MODULE UploadRingProofs --------------------------
(***************************************************************************)
(* Proofs about UploadRing, for every number of slots and every bound on   *)
(* the batches, for CUDA and Vulkan and both outcomes of host_keys's wipe. *)
(*                                                                         *)
(* The inductive invariant IInv has the window of batches in flight as     *)
(* that of GpuRing (Window), which holds as long as calls may follow, and  *)
(* how far Drop has come (Dropping), which says that Drop never passes a   *)
(* slot whose kernel is still to run.                                      *)
(***************************************************************************)
EXTENDS UploadRing, TLAPS

Holds(slot, batch) ==
  /\ slot.submitted
  /\ slot.keys = batch
  /\ slot.host \in {NoBatch, batch}
  /\ slot.kernel = "idle" /\ ~ lost => slot.addresses = batch

Free(slot) ==
  /\ ~ slot.submitted
  /\ slot.kernel = "idle"
  /\ slot.host = NoBatch
  /\ slot.keys = NoBatch

Window ==
  /\ pending = Len(held)
  /\ \A k \in 0 .. NumSlots - 1 :
       IF k < pending THEN Holds(slots[At(k)], held[k + 1])
                      ELSE Free(slots[At(k)])

Dropping ==
  /\ Usable => dropped = 0
  /\ \A i \in Slot :
       /\ slots[i].kernel # "idle" => dropped <= i
       /\ i < dropped => /\ slots[i].host = NoBatch
                         /\ slots[i].keys # NoBatch => lost /\ api = "cuda"

HostUnused == api = "vulkan" => \A i \in Slot : slots[i].host = NoBatch

IInv ==
  /\ TypeOK
  /\ OnlyDriverErrors
  /\ Dropping
  /\ HostUnused
  /\ Usable => Window

-----------------------------------------------------------------------------
(* The indices of the ring: the NumSlots slots from the oldest on are all  *)
(* the slots, each once, and moving the oldest on by one renumbers them.   *)
LEMMA RingIndices ==
  ASSUME collect_at \in Slot
  PROVE  /\ \A k \in 0 .. NumSlots : At(k) = IF collect_at + k < NumSlots
                                                 THEN collect_at + k
                                                 ELSE collect_at + k - NumSlots
         /\ \A k \in 0 .. NumSlots : At(k) \in Slot
         /\ \A j, k \in 0 .. NumSlots - 1 : At(j) = At(k) => j = k
         /\ \A i \in Slot : \E k \in 0 .. NumSlots - 1 : At(k) = i
<1>1. \A k \in 0 .. NumSlots : At(k) = IF collect_at + k < NumSlots
                                         THEN collect_at + k
                                         ELSE collect_at + k - NumSlots
  BY UploadAssumption DEF Slot, At
<1>2. \A i \in Slot : \E k \in 0 .. NumSlots - 1 : At(k) = i
  <2>. SUFFICES ASSUME NEW i \in Slot
                PROVE  \E k \in 0 .. NumSlots - 1 : At(k) = i
    OBVIOUS
  <2>1. CASE i >= collect_at
    <3>1. i - collect_at \in 0 .. NumSlots - 1 /\ At(i - collect_at) = i
      BY <1>1, <2>1, UploadAssumption DEF Slot
    <3>. QED  BY <3>1
  <2>2. CASE i < collect_at
    <3>1. /\ i - collect_at + NumSlots \in 0 .. NumSlots - 1
          /\ At(i - collect_at + NumSlots) = i
      BY <1>1, <2>2, UploadAssumption DEF Slot
    <3>. QED  BY <3>1
  <2>. QED  BY <2>1, <2>2, UploadAssumption DEF Slot
<1>. QED  BY <1>1, <1>2, UploadAssumption DEF Slot

LEMMA NextOldest ==
  ASSUME collect_at \in Slot, collect_at' = AfterCollect
  PROVE  /\ \A k \in 0 .. NumSlots - 2 : At(k)' = At(k + 1)
         /\ At(NumSlots - 1)' = collect_at
<1>1. collect_at' = IF collect_at + 1 < NumSlots THEN collect_at + 1 ELSE 0
  BY UploadAssumption DEF AfterCollect, At, Slot
<1>2. ASSUME NEW k \in 0 .. NumSlots - 2
      PROVE  (collect_at' + k) % NumSlots = (collect_at + (k + 1)) % NumSlots
  BY <1>1, UploadAssumption DEF Slot
<1>3. (collect_at' + (NumSlots - 1)) % NumSlots = collect_at
  BY <1>1, UploadAssumption DEF Slot
<1>. QED  BY <1>2, <1>3 DEF At

-----------------------------------------------------------------------------
LEMMA SetupTypes ==
  ASSUME TypeOK
  PROVE  /\ api \in {"cuda", "vulkan"}
         /\ Setups' = Setups
  BY UploadAssumption DEF TypeOK

LEMMA InitIInv == Init => IInv
<1>. SUFFICES ASSUME Init PROVE IInv
  OBVIOUS
<1>1. << api, zeroized >> \in Setups
  <2>1. PICK setup \in Setups : api = setup[1] /\ zeroized = setup[2]
    BY DEF Init
  <2>. QED  BY <2>1, UploadAssumption
<1>2. \A i \in Slot : slots[i] \in GpuSlot /\ Free(slots[i])
  BY DEF Init, GpuSlot, Contents, Free
<1>3. collect_at \in Slot /\ pending \in 0 .. NumSlots /\ dropped \in 0 .. NumSlots
  BY UploadAssumption DEF Init, Slot
<1>4. TypeOK
  <2>1. slots \in [Slot -> GpuSlot]
    <3>1. DOMAIN slots = Slot /\ slots = [i \in Slot |-> slots[i]]
      BY DEF Init
    <3>. QED  BY <1>2, <3>1
  <2>2. /\ lost = FALSE /\ next = 0 /\ held = << >> /\ got = NoBatch
        /\ error = "none"
    BY DEF Init
  <2>3. lost \in BOOLEAN /\ next \in Nat /\ held \in Seq(Nat)
    <3>1. lost \in BOOLEAN
      BY <2>2
    <3>2. next \in Nat
      BY <2>2
    <3>3. held \in Seq(Nat)
      BY <2>2
    <3>. QED  BY <3>1, <3>2, <3>3
  <2>. QED  BY <1>1, <1>3, <2>1, <2>2, <2>3 DEF TypeOK
<1>5. Window
  <2>1. \A k \in 0 .. NumSlots - 1 : At(k) \in Slot
    BY <1>3, RingIndices, UploadAssumption
  <2>2. pending = 0 /\ held = << >>
    BY DEF Init
  <2>. QED  BY <1>2, <2>1, <2>2 DEF Window
<1>6. Dropping /\ HostUnused /\ OnlyDriverErrors
  BY <1>2, UploadAssumption
     DEF Init, Dropping, HostUnused, OnlyDriverErrors, Free, Slot
<1>. QED  BY <1>4, <1>5, <1>6 DEF IInv

-----------------------------------------------------------------------------
(* begin_batch.                                                            *)
LEMMA BeginSlot ==
  ASSUME NEW slot \in GpuSlot, Free(slot), NEW batch \in Nat,
         NEW stage \in Stages, api \in {"cuda", "vulkan"}
  PROVE  /\ SlotAfterBegin(slot, batch, stage) \in GpuSlot
         /\ SlotAfterBegin(slot, batch, stage).host \in
              {NoBatch} \union (IF api = "cuda" THEN {batch} ELSE {})
         /\ stage = 3 => /\ Holds(SlotAfterBegin(slot, batch, stage), batch)
                         /\ SlotAfterBegin(slot, batch, stage).kernel = "queued"
<1>1. batch \in Contents /\ stage \in 0 .. 3
  BY DEF Contents, Stages
<1>. DEFINE new == SlotAfterBegin(slot, batch, stage)
            sub == stage = 3
<1>2. new = [slot EXCEPT !.host = IF api = "cuda" THEN batch ELSE @,
                         !.keys = IF stage >= 1 THEN batch ELSE @,
                         !.kernel = IF stage >= 2 THEN "queued" ELSE @,
                         !.submitted = sub]
  BY DEF SlotAfterBegin
<1>3. sub \in BOOLEAN /\ (stage = 3 => sub)
  OBVIOUS
<1>. HIDE DEF new, sub
<1>4. /\ new \in GpuSlot
      /\ new.host = IF api = "cuda" THEN batch ELSE slot.host
      /\ new.submitted = sub
      /\ new.keys = IF stage >= 1 THEN batch ELSE slot.keys
      /\ new.kernel = IF stage >= 2 THEN "queued" ELSE slot.kernel
  BY <1>1, <1>2, <1>3 DEF GpuSlot
<1>5. stage = 3 => Holds(new, batch) /\ new.kernel = "queued"
  BY <1>1, <1>3, <1>4 DEF Free, Holds
<1>6. new.host \in {NoBatch} \union (IF api = "cuda" THEN {batch} ELSE {})
  BY <1>4 DEF Free
<1>. QED  BY <1>4, <1>5, <1>6 DEF new

(* The caller meets neither a full ring nor a busy slot.                   *)
LEMMA NotRefused ==
  ASSUME IInv, CallBegin
  PROVE  /\ Usable /\ Window /\ TypeOK /\ dropped = 0
         /\ pending \in 0 .. NumSlots - 1 /\ pending = Len(held)
         /\ SubmitAt \in Slot /\ Free(slots[SubmitAt])
         /\ Refusal \in {"short", "none"}
<1>1. Usable /\ Window /\ TypeOK /\ dropped = 0
  BY DEF IInv, CallBegin, Dropping
<1>2. Len(held) < NumSlots
  <2>1. held = << >> => Len(held) = 0
    OBVIOUS
  <2>. QED  BY <2>1, UploadAssumption DEF CallBegin
<1>3. pending \in 0 .. NumSlots - 1 /\ pending = Len(held)
  BY <1>1, <1>2, UploadAssumption DEF Window, TypeOK
<1>4. SubmitAt \in Slot
  BY <1>1, <1>3, RingIndices, UploadAssumption DEF SubmitAt, TypeOK
<1>5. Free(slots[SubmitAt])
  BY <1>1, <1>3 DEF Window, SubmitAt
<1>6. Refusal \in {"short", "none"}
  BY <1>3, <1>5, UploadAssumption DEF Refusal, Free
<1>. QED  BY <1>1, <1>3, <1>4, <1>5, <1>6

LEMMA BeginIInv ==
  ASSUME IInv, CallBegin
  PROVE  IInv'
<1>1. /\ Usable /\ Window /\ TypeOK /\ dropped = 0 /\ Dropping /\ HostUnused
      /\ pending \in 0 .. NumSlots - 1 /\ pending = Len(held)
      /\ SubmitAt \in Slot /\ Free(slots[SubmitAt])
      /\ Refusal \in {"short", "none"} /\ api \in {"cuda", "vulkan"}
  BY NotRefused, SetupTypes DEF IInv
<1>2. UNCHANGED << api, zeroized, collect_at, lost, got, dropped >>
  BY DEF CallBegin
<1>3. CASE BeginRefused
  <2>1. error' = "short" /\ UNCHANGED << slots, pending, held, next >>
    BY <1>1, <1>3 DEF BeginRefused
  <2>2. TypeOK'
    BY <1>1, <1>2, <2>1 DEF TypeOK
  <2>. QED
    BY <1>1, <1>2, <2>1, <2>2 DEF IInv, OnlyDriverErrors, Dropping, HostUnused, Usable
<1>4. CASE BeginBatch(next)
  <2>. DEFINE new(stage) == SlotAfterBegin(slots[SubmitAt], next, stage)
  <2>1. next \in Nat /\ slots[SubmitAt] \in GpuSlot
    BY <1>1 DEF TypeOK
  <2>2. PICK stage \in Stages :
          /\ lost => stage = FirstStage
          /\ slots' = [slots EXCEPT ![SubmitAt] = new(stage)]
          /\ IF stage = 3
               THEN /\ pending' = pending + 1
                    /\ held' = Append(held, next)
                    /\ next' = next + 1
                    /\ UNCHANGED error
               ELSE /\ error' = "driver"
                    /\ UNCHANGED << pending, held, next >>
    BY <1>4 DEF BeginBatch
  <2>3. /\ new(stage) \in GpuSlot
        /\ new(stage).host \in {NoBatch} \union (IF api = "cuda" THEN {next} ELSE {})
        /\ stage = 3 => /\ Holds(new(stage), next)
                        /\ new(stage).kernel = "queued"
    BY <1>1, <2>1, BeginSlot
  <2>. HIDE DEF new
  <2>4. /\ slots' \in [Slot -> GpuSlot] /\ slots'[SubmitAt] = new(stage)
        /\ \A i \in Slot \ {SubmitAt} : slots'[i] = slots[i]
    BY <1>1, <2>2, <2>3 DEF TypeOK
  <2>5. HostUnused'
    BY <1>1, <1>2, <2>3, <2>4 DEF HostUnused
  <2>6. Dropping'
    <3>1. \A i \in Slot : dropped' <= i /\ ~ (i < dropped')
      BY <1>1, <1>2, UploadAssumption DEF Slot
    <3>. QED  BY <1>1, <1>2, <3>1 DEF Dropping
  <2>7. CASE stage # 3
    <3>1. error' = "driver" /\ UNCHANGED << pending, held, next >>
      BY <2>2, <2>7
    <3>2. TypeOK'
      BY <1>1, <1>2, <2>4, <3>1 DEF TypeOK
    <3>. QED
      BY <2>5, <2>6, <3>1, <3>2 DEF IInv, OnlyDriverErrors, Usable
  <2>8. CASE stage = 3
    <3>1. /\ pending' = pending + 1 /\ held' = Append(held, next)
          /\ next' = next + 1 /\ error' = error
      BY <2>2, <2>8
    <3>2. /\ held \in Seq(Nat) /\ held' \in Seq(Nat) /\ Len(held') = pending + 1
          /\ held'[pending + 1] = next
          /\ \A k \in 0 .. pending - 1 : held'[k + 1] = held[k + 1]
      BY <1>1, <2>1, <3>1 DEF TypeOK
    <3>3. pending' \in 0 .. NumSlots /\ next' \in Nat
      BY <1>1, <2>1, <3>1, UploadAssumption
    <3>4. TypeOK'
      BY <1>1, <1>2, <2>4, <3>1, <3>2, <3>3 DEF TypeOK
    <3>5. ASSUME NEW k \in 0 .. NumSlots - 1
          PROVE  IF k < pending' THEN Holds(slots'[At(k)], held'[k + 1])
                                 ELSE Free(slots'[At(k)])
      <4>1. At(k) \in Slot /\ (k # pending => At(k) # SubmitAt)
        BY <1>1, RingIndices, UploadAssumption DEF SubmitAt, TypeOK
      <4>2. CASE k = pending
        BY <1>1, <2>3, <2>4, <2>8, <3>1, <3>2, <4>2 DEF SubmitAt
      <4>3. CASE k # pending
        <5>1. slots'[At(k)] = slots[At(k)]
          BY <2>4, <4>1, <4>3
        <5>2. k < pending' <=> k < pending
          BY <1>1, <3>1, <4>3
        <5>3. CASE k < pending
          <6>1. held'[k + 1] = held[k + 1] /\ Holds(slots[At(k)], held[k + 1])
            BY <1>1, <3>2, <5>3 DEF Window
          <6>. QED  BY <5>1, <5>2, <5>3, <6>1
        <5>4. CASE ~ (k < pending)
          BY <1>1, <5>1, <5>2, <5>4 DEF Window
        <5>. QED  BY <5>3, <5>4
      <4>. QED  BY <4>2, <4>3
    <3>6. Window'
      <4>1. /\ \A k \in 0 .. NumSlots - 1 : At(k)' = At(k)
            /\ lost' = lost
        BY <1>2 DEF At
      <4>. QED  BY <3>1, <3>2, <3>5, <4>1 DEF Window, Holds, Free
    <3>7. OnlyDriverErrors'
      BY <3>1 DEF IInv, OnlyDriverErrors
    <3>. QED  BY <2>5, <2>6, <3>4, <3>6, <3>7 DEF IInv
  <2>. QED  BY <2>7, <2>8
<1>. QED  BY <1>3, <1>4 DEF CallBegin

-----------------------------------------------------------------------------
(* end_batch.  The oldest batch is in the oldest slot.                     *)
LEMMA Oldest ==
  ASSUME IInv, Usable, held # << >>
  PROVE  /\ TypeOK /\ Window /\ pending # 0 /\ pending = Len(held)
         /\ collect_at \in Slot /\ At(0) = collect_at
         /\ Head(held) = held[1] /\ held[1] \in Nat
         /\ Tail(held) \in Seq(Nat) /\ Len(Tail(held)) = Len(held) - 1
         /\ \A k \in 1 .. Len(held) - 1 : Tail(held)[k] = held[k + 1]
         /\ Holds(slots[collect_at], held[1])
<1>1. TypeOK /\ Window /\ held \in Seq(Nat) /\ collect_at \in Slot
  BY DEF IInv, TypeOK
<1>2. /\ Head(held) = held[1] /\ held[1] \in Nat
      /\ Tail(held) \in Seq(Nat) /\ Len(Tail(held)) = Len(held) - 1
      /\ Len(held) \in Nat \ {0}
      /\ \A k \in 1 .. Len(held) - 1 : Tail(held)[k] = held[k + 1]
  BY <1>1
<1>3. At(0) = collect_at
  BY <1>1, RingIndices, UploadAssumption DEF Slot
<1>4. Holds(slots[collect_at], held[1])
  BY <1>1, <1>2, <1>3, UploadAssumption DEF Window
<1>. QED  BY <1>1, <1>2, <1>3, <1>4 DEF Window

(* The kernel is done when the batch is collected, so that only the driver *)
(* can make the call fail.                                                 *)
LEMMA EndOutcome ==
  ASSUME IInv, Usable, held # << >>, Waited(slots[collect_at]),
         NEW outcome \in EndOutcomes(slots[collect_at], Head(held))
  PROVE  /\ outcome \in {"none", "driver"}
         /\ slots[collect_at].kernel = "idle"
         /\ outcome = "none" => ~ lost /\ slots[collect_at].addresses = held[1]
<1>1. /\ Head(held) = held[1] /\ Holds(slots[collect_at], held[1])
      /\ slots[collect_at].kernel = "idle"
  BY Oldest DEF Waited, Holds
<1>2. ~ lost => slots[collect_at].addresses = held[1]
  BY <1>1 DEF Holds
<1>3. ~ lost => EndOutcomes(slots[collect_at], Head(held)) \subseteq {"none", "driver"}
  <2>1. held[1] # NoBatch
    BY Oldest, UploadAssumption
  <2>. QED  BY <1>1, <1>2, <2>1 DEF EndOutcomes
<1>4. lost => EndOutcomes(slots[collect_at], Head(held)) = {"driver"}
  BY DEF EndOutcomes
<1>. QED  BY <1>1, <1>2, <1>3, <1>4

LEMMA CollectedSlot ==
  ASSUME NEW slot \in GpuSlot, slot.kernel = "idle",
         api = "vulkan" => slot.host = NoBatch, api \in {"cuda", "vulkan"}
  PROVE  /\ Collected(slot) \in GpuSlot
         /\ Free(Collected(slot))
         /\ \A outcome : \A left \in SlotsAfterFailure(slot, outcome) :
              /\ left \in GpuSlot /\ left.kernel = "idle"
              /\ left.host = slot.host
<1>1. NoBatch \in Contents
  BY DEF Contents
<1>2. Collected(slot) \in GpuSlot /\ Free(Collected(slot))
  <2>1. CASE api = "cuda"
    <3>1. Collected(slot) = [slot EXCEPT !.host = NoBatch,
                                         !.room = @ /\ zeroized = "zeroed",
                                         !.keys = NoBatch, !.submitted = FALSE]
      BY <2>1 DEF Collected, ZeroizedHost, GpuSlot
    <3>. QED  BY <1>1, <3>1 DEF GpuSlot, Free
  <2>2. CASE api # "cuda"
    <3>1. Collected(slot) = [slot EXCEPT !.keys = NoBatch, !.submitted = FALSE]
      BY <2>2 DEF Collected
    <3>. QED  BY <1>1, <2>2, <3>1 DEF GpuSlot, Free
  <2>. QED  BY <2>1, <2>2
<1>3. ASSUME NEW outcome, NEW left \in SlotsAfterFailure(slot, outcome)
      PROVE  /\ left \in GpuSlot /\ left.kernel = "idle"
             /\ left.host = slot.host
  <2>. DEFINE flag == slot.submitted /\ ~ (api = "vulkan" /\ outcome = "mismatch")
  <2>1. flag \in BOOLEAN
    OBVIOUS
  <2>2. left = [slot EXCEPT !.submitted = flag] \/ left = [slot EXCEPT !.keys = NoBatch]
    BY <1>3 DEF SlotsAfterFailure
  <2>. HIDE DEF flag
  <2>. QED  BY <1>1, <2>1, <2>2 DEF GpuSlot
<1>. QED  BY <1>2, <1>3

LEMMA EndWaitedIInv ==
  ASSUME IInv, CallEnd, EndWaited(Head(held))
  PROVE  IInv'
<1>1. /\ Usable /\ held # << >> /\ Window /\ TypeOK /\ HostUnused
      /\ Dropping /\ dropped = 0 /\ pending # 0 /\ pending = Len(held)
      /\ collect_at \in Slot /\ slots[collect_at] \in GpuSlot
      /\ held' = Tail(held) /\ Tail(held) \in Seq(Nat)
      /\ UNCHANGED << api, zeroized, lost, next, dropped >>
      /\ api \in {"cuda", "vulkan"}
  BY Oldest, SetupTypes DEF CallEnd, IInv, Dropping, TypeOK
<1>2. PICK outcome \in EndOutcomes(slots[collect_at], Head(held)) :
        /\ Waited(slots[collect_at])
        /\ IF outcome = "none"
             THEN /\ slots' = [slots EXCEPT ![collect_at] = Collected(@)]
                  /\ got' = [keys |-> Head(held),
                             addresses |-> slots[collect_at].addresses]
                  /\ collect_at' = AfterCollect
                  /\ pending' = pending - 1
                  /\ UNCHANGED error
             ELSE /\ \E slot \in SlotsAfterFailure(slots[collect_at], outcome) :
                       slots' = [slots EXCEPT ![collect_at] = slot]
                  /\ error' = outcome
                  /\ UNCHANGED << got, collect_at, pending >>
  BY DEF EndWaited
<1>3. /\ outcome \in {"none", "driver"}
      /\ slots[collect_at].kernel = "idle"
      /\ outcome = "none" => ~ lost /\ slots[collect_at].addresses = held[1]
  BY <1>1, <1>2, EndOutcome
<1>4. /\ Collected(slots[collect_at]) \in GpuSlot
      /\ Free(Collected(slots[collect_at]))
      /\ \A left \in SlotsAfterFailure(slots[collect_at], outcome) :
           /\ left \in GpuSlot /\ left.kernel = "idle"
           /\ left.host = slots[collect_at].host
  BY <1>1, <1>3, CollectedSlot DEF HostUnused
<1>5. Dropping'
  <2>1. \A i \in Slot : dropped' <= i /\ ~ (i < dropped')
    BY <1>1, UploadAssumption DEF Slot
  <2>. QED  BY <1>1, <2>1 DEF Dropping
<1>6. CASE outcome = "driver"
  <2>1. PICK left \in SlotsAfterFailure(slots[collect_at], outcome) :
          /\ slots' = [slots EXCEPT ![collect_at] = left]
          /\ error' = "driver"
          /\ UNCHANGED << got, collect_at, pending >>
    BY <1>2, <1>6
  <2>2. slots' \in [Slot -> GpuSlot] /\ \A i \in Slot : slots'[i].host = slots[i].host
    BY <1>1, <1>4, <2>1 DEF TypeOK
  <2>3. TypeOK'
    BY <1>1, <2>1, <2>2 DEF TypeOK
  <2>. QED
    BY <1>1, <1>5, <2>1, <2>2, <2>3 DEF IInv, OnlyDriverErrors, HostUnused, Usable
<1>7. CASE outcome = "none"
  <2>1. /\ slots' = [slots EXCEPT ![collect_at] = Collected(slots[collect_at])]
        /\ got' = [keys |-> held[1], addresses |-> held[1]] /\ held[1] \in Nat
        /\ collect_at' = AfterCollect
        /\ pending' = pending - 1 /\ error' = error
    BY <1>1, <1>2, <1>3, <1>7, Oldest
  <2>2. /\ slots' \in [Slot -> GpuSlot] /\ Free(slots'[collect_at])
        /\ \A i \in Slot \ {collect_at} : slots'[i] = slots[i]
    BY <1>1, <1>4, <2>1 DEF TypeOK
  <2>3. /\ collect_at' \in Slot /\ pending' \in 0 .. NumSlots /\ Slot' = Slot
        /\ pending \in 1 .. NumSlots
    <3>1. At(1) \in Slot
      BY <1>1, RingIndices, UploadAssumption
    <3>2. pending \in 1 .. NumSlots
      BY <1>1, UploadAssumption DEF TypeOK
    <3>3. pending - 1 \in 0 .. NumSlots
      BY <3>2, UploadAssumption
    <3>. QED  BY <2>1, <3>1, <3>2, <3>3 DEF AfterCollect, Slot
  <2>4. TypeOK'
    <3>1. got' \in [keys : Nat, addresses : Contents]
      BY <2>1 DEF Contents
    <3>. QED  BY <1>1, <2>1, <2>2, <2>3, <3>1 DEF TypeOK
  <2>5. HostUnused'
    BY <1>1, <2>2 DEF HostUnused, Free
  <2>6. Window'
    <3>1. ASSUME NEW k \in 0 .. NumSlots - 1
          PROVE  IF k < pending' THEN Holds(slots'[At(k)'], held'[k + 1])
                                 ELSE Free(slots'[At(k)'])
      <4>1. CASE k = NumSlots - 1
        <5>1. At(k)' = collect_at
          BY <1>1, <2>1, <4>1, NextOldest
        <5>2. ~ (k < pending')
          BY <2>1, <2>3, <4>1, UploadAssumption
        <5>. QED  BY <2>2, <5>1, <5>2
      <4>2. CASE k # NumSlots - 1
        <5>1. k \in 0 .. NumSlots - 2 /\ k + 1 \in 0 .. NumSlots - 1
          BY <4>2, UploadAssumption
        <5>2. At(k)' = At(k + 1)
          BY <1>1, <2>1, <5>1, NextOldest
        <5>3. At(k + 1) # collect_at /\ At(k + 1) \in Slot
          <6>1. At(0) = collect_at /\ 0 \in 0 .. NumSlots - 1
            BY <1>1, Oldest, UploadAssumption
          <6>. QED  BY <1>1, <5>1, <6>1, RingIndices, UploadAssumption
        <5>4. slots'[At(k)'] = slots[At(k + 1)]
          BY <2>2, <5>2, <5>3
        <5>5. CASE k < pending'
          <6>1. k + 1 < pending /\ k + 1 \in 1 .. Len(held) - 1
            BY <1>1, <2>1, <2>3, <5>1, <5>5
          <6>2. /\ held'[k + 1] = held[(k + 1) + 1]
                /\ Holds(slots[At(k + 1)], held[(k + 1) + 1])
            BY <1>1, <5>1, <6>1, Oldest DEF Window
          <6>. QED  BY <5>4, <5>5, <6>2
        <5>6. CASE ~ (k < pending')
          <6>1. ~ (k + 1 < pending)
            BY <2>1, <2>3, <5>1, <5>6
          <6>. QED  BY <1>1, <5>1, <5>4, <5>6, <6>1 DEF Window
        <5>. QED  BY <5>5, <5>6
      <4>. QED  BY <4>1, <4>2
    <3>2. pending' = Len(held')
      BY <1>1, <2>1, Oldest
    <3>3. lost' = lost
      BY <1>1
    <3>. QED  BY <3>1, <3>2, <3>3 DEF Window, Holds, Free
  <2>7. OnlyDriverErrors'
    BY <2>1 DEF IInv, OnlyDriverErrors
  <2>. QED  BY <1>5, <2>4, <2>5, <2>6, <2>7 DEF IInv
<1>. QED  BY <1>3, <1>6, <1>7

LEMMA EndIInv ==
  ASSUME IInv, CallEnd
  PROVE  IInv'
<1>1. /\ TypeOK /\ Dropping /\ HostUnused /\ Usable /\ pending # 0
      /\ held' = Tail(held) /\ Tail(held) \in Seq(Nat)
      /\ UNCHANGED << api, zeroized, lost, next, dropped >>
  BY Oldest DEF IInv, CallEnd
<1>2. CASE WaitFails
  <2>1. error' = "driver" /\ UNCHANGED << slots, got, collect_at, pending >>
    BY <1>2 DEF WaitFails
  <2>2. TypeOK'
    BY <1>1, <2>1 DEF TypeOK
  <2>. QED
    BY <1>1, <2>1, <2>2 DEF IInv, OnlyDriverErrors, Dropping, HostUnused, Usable
<1>3. CASE EndWaited(Head(held))
  BY <1>3, EndWaitedIInv
<1>. QED  BY <1>1, <1>2, <1>3 DEF CallEnd, EndBatch

-----------------------------------------------------------------------------
(* The device changes neither what a slot is submitted for nor its keys.   *)
LEMMA DeviceIInv ==
  ASSUME IInv, Device
  PROVE  IInv'
<1>1. /\ TypeOK /\ Dropping /\ HostUnused /\ OnlyDriverErrors
      /\ UNCHANGED << api, zeroized, collect_at, pending, next, held, got, error,
                      dropped >>
  BY DEF IInv, Device
<1>2. /\ slots' \in [Slot -> GpuSlot] /\ lost' \in BOOLEAN
      /\ lost => lost'
      /\ \A i \in Slot :
           /\ slots'[i].host = slots[i].host /\ slots'[i].keys = slots[i].keys
           /\ slots'[i].submitted = slots[i].submitted
           /\ slots[i].kernel = "idle" =>
                /\ slots'[i].kernel = "idle"
                /\ slots'[i].addresses = slots[i].addresses
           /\ slots'[i].kernel = "idle" /\ slots[i].kernel # "idle" /\ ~ lost' =>
                slots'[i].addresses = slots[i].keys
  <2>1. slots \in [Slot -> GpuSlot] /\ lost \in BOOLEAN /\ NoBatch \in Contents
    BY <1>1 DEF TypeOK, Contents
  <2>2. CASE Lose
    BY <2>1, <2>2 DEF Lose, GpuSlot
  <2>3. ASSUME NEW j \in Slot, Start(j)
        PROVE  <1>2!:
    <3>1. /\ slots[j] \in GpuSlot /\ slots[j].kernel = "queued" /\ lost' = lost
          /\ slots' = [slots EXCEPT ![j] = [slots[j] EXCEPT !.kernel = "running",
                                                            !.addresses = NoBatch]]
      BY <2>1, <2>3 DEF Start
    <3>2. [slots[j] EXCEPT !.kernel = "running", !.addresses = NoBatch] \in GpuSlot
      BY <2>1, <3>1 DEF GpuSlot
    <3>. QED  BY <2>1, <3>1, <3>2 DEF GpuSlot
  <2>4. ASSUME NEW j \in Slot, Finish(j)
        PROVE  <1>2!:
    <3>1. /\ slots[j] \in GpuSlot /\ slots[j].kernel = "running" /\ lost' = lost
          /\ slots' = [slots EXCEPT ![j] = [slots[j] EXCEPT !.kernel = "idle",
                                                            !.addresses = slots[j].keys]]
      BY <2>1, <2>4 DEF Finish
    <3>2. [slots[j] EXCEPT !.kernel = "idle", !.addresses = slots[j].keys] \in GpuSlot
      BY <2>1, <3>1 DEF GpuSlot
    <3>. QED  BY <2>1, <3>1, <3>2 DEF GpuSlot
  <2>. QED  BY <2>2, <2>3, <2>4 DEF Device
<1>3. TypeOK'
  BY <1>1, <1>2 DEF TypeOK
<1>4. Dropping' /\ HostUnused' /\ OnlyDriverErrors'
  BY <1>1, <1>2 DEF Dropping, HostUnused, OnlyDriverErrors, Usable
<1>5. ASSUME Usable PROVE Window'
  <2>1. Window /\ \A k \in 0 .. NumSlots - 1 : At(k) \in Slot /\ At(k)' = At(k)
    BY <1>1, <1>5, RingIndices, UploadAssumption DEF IInv, TypeOK, At
  <2>2. ASSUME NEW i \in Slot PROVE Free(slots[i]) => Free(slots'[i])
    BY <1>2 DEF Free
  <2>3. ASSUME NEW i \in Slot, NEW batch, Holds(slots[i], batch)
        PROVE  /\ slots'[i].submitted /\ slots'[i].keys = batch
               /\ slots'[i].host \in {NoBatch, batch}
               /\ slots'[i].kernel = "idle" /\ ~ lost' =>
                    slots'[i].addresses = batch
    BY <1>2, <2>3 DEF Holds
  <2>. QED  BY <1>1, <2>1, <2>2, <2>3 DEF Window, Holds, Free
<1>6. Usable' = Usable
  BY <1>1 DEF Usable
<1>. QED  BY <1>3, <1>4, <1>5, <1>6 DEF IInv

LEMMA AbandonIInv ==
  ASSUME IInv, Abandon
  PROVE  IInv'
<1>1. /\ TypeOK /\ Dropping /\ HostUnused /\ OnlyDriverErrors
      /\ held' = << >> /\ error' = IF Usable THEN "finished" ELSE error
      /\ UNCHANGED << api, zeroized, slots, collect_at, pending, lost, next, got,
                      dropped >>
  BY DEF IInv, Abandon
<1>2. ~ Usable' /\ (Usable' => Usable)
  BY <1>1 DEF Usable
<1>3. TypeOK'
  <2>1. held' \in Seq(Nat)
    <3>1. << >> \in Seq(Nat)
      OBVIOUS
    <3>. QED  BY <1>1, <3>1
  <2>2. error' \in {"none", "exhausted", "busy", "short", "driver", "idle",
                    "mismatch", "finished"}
    BY <1>1 DEF TypeOK
  <2>. QED  BY <1>1, <2>1, <2>2 DEF TypeOK
<1>4. Dropping' /\ HostUnused' /\ OnlyDriverErrors'
  BY <1>1, <1>2 DEF Dropping, HostUnused, OnlyDriverErrors
<1>. QED  BY <1>2, <1>3, <1>4 DEF IInv

(* Drop waits for the kernel of the slot it gives up.                      *)
LEMMA DropIInv ==
  ASSUME IInv, NEW i \in Slot, DropSlot(i)
  PROVE  IInv'
<1>. DEFINE new == Dropped(slots[i])
<1>1. /\ TypeOK /\ Dropping /\ HostUnused /\ OnlyDriverErrors
      /\ ~ Usable /\ dropped = i /\ slots[i].kernel = "idle"
      /\ slots' = [slots EXCEPT ![i] = new] /\ dropped' = i + 1
      /\ UNCHANGED << api, zeroized, collect_at, pending, lost, next, held, got,
                      error >>
      /\ slots[i] \in GpuSlot /\ api \in {"cuda", "vulkan"}
  <2>1. IInv /\ TypeOK /\ Dropping /\ HostUnused /\ OnlyDriverErrors
    BY DEF IInv
  <2>2. /\ slots[i] \in GpuSlot /\ api \in {"cuda", "vulkan"}
    BY <2>1, SetupTypes DEF TypeOK
  <2>3. /\ ~ Usable /\ dropped = i /\ dropped' = dropped + 1
        /\ UNCHANGED << api, zeroized, collect_at, pending, lost, next, held, got,
                        error >>
    BY DEF DropSlot
  <2>4. slots' = [slots EXCEPT ![i] = new]
    BY DEF DropSlot
  <2>5. slots[i].kernel = "idle"
    BY DEF DropSlot, DropAwaits
  <2>. HIDE DEF new
  <2>. QED  BY <2>1, <2>2, <2>3, <2>4, <2>5
<1>2. /\ new \in GpuSlot /\ new.host = NoBatch /\ new.kernel = "idle"
      /\ new.keys # NoBatch => lost /\ api = "cuda"
  <2>1. NoBatch \in Contents
    BY DEF Contents
  <2>2. CASE api = "cuda"
    <3>1. new = [slots[i] EXCEPT !.host = NoBatch,
                                 !.room = @ /\ zeroized = "zeroed",
                                 !.keys = IF lost THEN @ ELSE NoBatch,
                                 !.submitted = FALSE]
      BY <1>1, <2>2 DEF Dropped, ZeroizedHost, GpuSlot
    <3>. QED  BY <1>1, <2>1, <2>2, <3>1 DEF GpuSlot
  <2>3. CASE api # "cuda"
    <3>1. /\ new = [slots[i] EXCEPT !.keys = NoBatch, !.submitted = FALSE]
          /\ slots[i].host = NoBatch
      BY <1>1, <2>3 DEF Dropped, HostUnused
    <3>. QED  BY <1>1, <2>1, <3>1 DEF GpuSlot
  <2>. QED  BY <2>2, <2>3
<1>. HIDE DEF new
<1>3. /\ slots' \in [Slot -> GpuSlot] /\ slots'[i] = new
      /\ \A j \in Slot \ {i} : slots'[j] = slots[j]
  BY <1>1, <1>2 DEF TypeOK
<1>4. TypeOK'
  <2>1. dropped' \in 0 .. NumSlots
    BY <1>1, UploadAssumption DEF Slot
  <2>. QED  BY <1>1, <1>3, <2>1 DEF TypeOK
<1>5. Dropping'
  <2>1. ASSUME NEW j \in Slot
        PROVE  /\ slots'[j].kernel # "idle" => dropped' <= j
               /\ j < dropped' => /\ slots'[j].host = NoBatch
                                  /\ slots'[j].keys # NoBatch =>
                                       lost /\ api = "cuda"
    <3>1. CASE j = i
      BY <1>2, <1>3, <3>1
    <3>2. CASE j # i
      <4>1. /\ dropped <= j => dropped' <= j
            /\ j < dropped' => j < dropped
        BY <1>1, <3>2 DEF Slot
      <4>. QED  BY <1>1, <1>3, <3>2, <4>1 DEF Dropping
    <3>. QED  BY <3>1, <3>2
  <2>. QED  BY <1>1, <2>1 DEF Dropping, Usable
<1>6. HostUnused' /\ OnlyDriverErrors' /\ ~ Usable'
  BY <1>1, <1>2, <1>3 DEF HostUnused, OnlyDriverErrors, Usable
<1>. QED  BY <1>4, <1>5, <1>6 DEF IInv

LEMMA NextIInv == IInv /\ [Next]_vars => IInv'
<1>. SUFFICES ASSUME IInv, [Next]_vars PROVE IInv'
  OBVIOUS
<1>1. CASE UNCHANGED vars
  BY <1>1 DEF vars, IInv, TypeOK, OnlyDriverErrors, Dropping, HostUnused, Window,
              Holds, Free, At, Usable
<1>. QED
  BY <1>1, BeginIInv, EndIInv, DeviceIInv, AbandonIInv, DropIInv DEF Next

(* IInv is inductive: it holds of the rings of both backends.              *)
THEOREM Invariance == Spec => []IInv
  BY InitIInv, NextIInv, PTL DEF Spec

-----------------------------------------------------------------------------
(* Every variable has its type (GpuSlot of cuda.rs and of vulkan.rs).      *)
THEOREM TypeCorrect == Spec => []TypeOK
<1>1. IInv => TypeOK
  BY DEF IInv
<1>. QED  BY <1>1, Invariance, PTL

(* No ensure! of begin_batch or end_batch but the one on the length of the *)
(* host buffer fires, and the CPU check never tells a mismatch.            *)
THEOREM NoForeignErrors == Spec => []OnlyDriverErrors
<1>1. IInv => OnlyDriverErrors
  BY DEF IInv
<1>. QED  BY <1>1, Invariance, PTL

(* The wipes of end_batch and Drop: a slot has keys of no batch but the    *)
(* one in flight there, and after Drop none, on both sides of the bus.     *)
THEOREM KeysWiped == Spec => []KeysOnlyInFlight
<1>1. IInv => KeysOnlyInFlight
  <2>. SUFFICES ASSUME IInv, NEW i \in Slot, Usable
                PROVE  {slots[i].host, slots[i].keys} \subseteq
                         {NoBatch} \union {held[k] : k \in {n \in 1 .. pending :
                                                            At(n - 1) = i}}
    BY DEF KeysOnlyInFlight, IInv, Dropping
  <2>1. Window /\ TypeOK /\ pending \in Nat
    BY UploadAssumption DEF IInv, TypeOK
  <2>2. PICK k \in 0 .. NumSlots - 1 : At(k) = i
    BY <2>1, RingIndices DEF TypeOK
  <2>3. CASE k < pending
    <3>1. k + 1 \in 1 .. pending /\ At((k + 1) - 1) = i
      BY <2>1, <2>2, <2>3
    <3>2. /\ slots[i].keys = held[k + 1]
          /\ slots[i].host \in {NoBatch, held[k + 1]}
      BY <2>1, <2>2, <2>3 DEF Window, Holds
    <3>3. k + 1 \in {n \in 1 .. pending : At(n - 1) = i}
      BY <3>1
    <3>. QED  BY <3>2, <3>3
  <2>4. CASE ~ (k < pending)
    BY <2>1, <2>2, <2>4 DEF Window, Free
  <2>. QED  BY <2>3, <2>4
<1>. QED  BY <1>1, Invariance, PTL

(* Neither a call, nor one that failed half-way, nor Drop touches the      *)
(* buffers of a kernel that is still to run.                               *)
THEOREM BuffersKept == Spec => KernelKeepsItsBuffers
<1>. DEFINE Keep(i) == slots[i].kernel # "idle" =>
                         slots'[i].keys = slots[i].keys /\ dropped' <= i
<1>1. IInv /\ [Next]_vars => [\A i \in Slot : Keep(i)]_vars
  <2>. SUFFICES ASSUME IInv, Next, NEW i \in Slot, slots[i].kernel # "idle"
                PROVE  slots'[i].keys = slots[i].keys /\ dropped' <= i
    OBVIOUS
  <2>1. TypeOK /\ dropped <= i /\ slots \in [Slot -> GpuSlot]
    BY DEF IInv, Dropping, TypeOK
  <2>2. CASE CallBegin
    <3>1. i # SubmitAt /\ dropped' = dropped
      BY <2>2, NotRefused DEF Free, CallBegin
    <3>2. slots'[i] = slots[i]
      BY <2>1, <2>2, <3>1 DEF CallBegin, BeginRefused, BeginBatch
    <3>. QED  BY <2>1, <3>1, <3>2
  <2>3. CASE CallEnd
    <3>1. /\ Usable /\ held # << >> /\ pending # 0 /\ dropped' = dropped
      BY <2>3, Oldest DEF CallEnd
    <3>2. CASE WaitFails
      BY <2>1, <3>1, <3>2 DEF WaitFails
    <3>3. CASE EndWaited(Head(held))
      <4>1. /\ Waited(slots[collect_at])
            /\ \E new : slots' = [slots EXCEPT ![collect_at] = new]
        BY <3>3 DEF EndWaited
      <4>2. i # collect_at
        BY <3>1, <4>1, Oldest DEF Waited, Holds
      <4>. QED  BY <2>1, <3>1, <4>1, <4>2
    <3>. QED  BY <2>3, <3>1, <3>2, <3>3 DEF CallEnd, EndBatch
  <2>4. CASE Device
    <3>1. ASSUME NEW j \in Slot, Start(j) \/ Finish(j)
          PROVE  slots'[i].keys = slots[i].keys
      BY <2>1, <3>1 DEF Start, Finish, GpuSlot
    <3>2. ASSUME Lose PROVE slots'[i].keys = slots[i].keys
      BY <2>1, <3>2 DEF Lose, GpuSlot
    <3>. QED  BY <2>1, <2>4, <3>1, <3>2 DEF Device
  <2>5. CASE Abandon
    BY <2>1, <2>5 DEF Abandon
  <2>6. ASSUME NEW j \in Slot, DropSlot(j)
        PROVE  slots'[i].keys = slots[i].keys /\ dropped' <= i
    <3>1. slots[j].kernel = "idle" /\ j # i /\ dropped = j /\ dropped' = j + 1
      BY <2>6 DEF DropSlot, DropAwaits
    <3>2. slots'[i] = slots[i]
      BY <2>1, <2>6, <3>1 DEF DropSlot
    <3>. QED  BY <2>1, <3>1, <3>2 DEF Slot
  <2>. QED  BY <2>2, <2>3, <2>4, <2>5, <2>6 DEF Next
<1>. QED  BY <1>1, Invariance, PTL DEF Spec, KernelKeepsItsBuffers
-----------------------------------------------------------------------------
(* Both backends are the bounded queue that the search loop relies on.     *)
THEOREM Refinement == Spec => ImplementsFifo
<1>1. Init => Fifo!Init
  BY DEF Init, Fifo!Init, Usable
<1>2. IInv /\ [Next]_vars => [Fifo!Next]_Fifo!vars
  <2>. SUFFICES ASSUME IInv, [Next]_vars PROVE [Fifo!Next]_Fifo!vars
    OBVIOUS
  <2>1. ASSUME ~ Usable', Usable, got' = got
        PROVE  Fifo!Close
    BY <2>1 DEF Fifo!Close
  <2>2. ASSUME UNCHANGED << held, got, error >>
        PROVE  UNCHANGED Fifo!vars
    BY <2>2 DEF Fifo!vars, Usable
  <2>3. ASSUME ~ Usable, ~ Usable', got' = got
        PROVE  UNCHANGED Fifo!vars
    BY <2>3 DEF Fifo!vars, Usable
  <2>4. CASE CallBegin
    <3>1. /\ Usable /\ got' = got /\ pending = Len(held)
          /\ pending \in 0 .. NumSlots - 1
      BY <2>4, NotRefused DEF CallBegin
    <3>2. CASE BeginRefused
      BY <2>1, <3>1, <3>2 DEF BeginRefused, Usable, Fifo!Next
    <3>3. CASE BeginBatch(next)
      <4>1. CASE held' = Append(held, next) /\ error' = error
        <5>1. next \in 0 .. MaxBatch
          BY <2>4, UploadAssumption DEF IInv, TypeOK, CallBegin
        <5>2. Usable' /\ Len(held) < NumSlots
          BY <3>1, <4>1, UploadAssumption DEF Usable
        <5>. QED  BY <3>1, <4>1, <5>1, <5>2 DEF Fifo!Next, Fifo!Submit
      <4>2. CASE error' = "driver"
        BY <2>1, <3>1, <4>2 DEF Usable, Fifo!Next
      <4>. QED  BY <3>3, <4>1, <4>2 DEF BeginBatch
    <3>. QED  BY <2>4, <3>2, <3>3 DEF CallBegin
  <2>5. CASE CallEnd
    <3>1. /\ Usable /\ held # << >> /\ held' = Tail(held)
          /\ pending # 0 /\ EndBatch(Head(held)) /\ Head(held) = held[1]
      BY <2>5, Oldest DEF CallEnd
    <3>2. CASE WaitFails
      <4>1. got' = got /\ Usable /\ ~ Usable'
        BY <3>1, <3>2 DEF WaitFails, Usable
      <4>. QED  BY <2>1, <4>1 DEF Fifo!Next
    <3>3. CASE EndWaited(Head(held))
      <4>1. PICK outcome \in EndOutcomes(slots[collect_at], Head(held)) :
              /\ Waited(slots[collect_at])
              /\ IF outcome = "none"
                   THEN /\ error' = error
                        /\ got' = [keys |-> Head(held),
                                   addresses |-> slots[collect_at].addresses]
                   ELSE error' = outcome /\ got' = got
        BY <3>3 DEF EndWaited
      <4>2. /\ outcome \in {"none", "driver"}
            /\ outcome = "none" => slots[collect_at].addresses = held[1]
        BY <3>1, <4>1, EndOutcome
      <4>3. CASE outcome = "none"
        BY <3>1, <4>1, <4>2, <4>3 DEF Usable, Fifo!Next, Fifo!Collect
      <4>4. CASE outcome = "driver"
        BY <2>1, <3>1, <4>1, <4>4 DEF Usable, Fifo!Next
      <4>. QED  BY <4>2, <4>3, <4>4
    <3>. QED  BY <3>1, <3>2, <3>3 DEF EndBatch
  <2>6. CASE Device
    BY <2>2, <2>6 DEF Device
  <2>7. CASE Abandon
    <3>1. ~ Usable' /\ got' = got
      BY <2>7 DEF Abandon, Usable
    <3>. QED  BY <2>1, <2>3, <3>1 DEF Fifo!Next
  <2>8. ASSUME NEW i \in Slot, DropSlot(i)
        PROVE  UNCHANGED Fifo!vars
    BY <2>2, <2>8 DEF DropSlot
  <2>9. CASE UNCHANGED vars
    BY <2>2, <2>9 DEF vars
  <2>. QED  BY <2>4, <2>5, <2>6, <2>7, <2>8, <2>9 DEF Next
<1>. QED  BY <1>1, <1>2, Invariance, PTL DEF Spec, ImplementsFifo, Fifo!Spec
=============================================================================
