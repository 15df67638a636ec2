--------------------------- MODULE GpuRingProofs ----------------------------
(***************************************************************************)
(* Proofs about GpuRing, for every number of slots, stride, batch size and *)
(* set of fills.                                                           *)
(*                                                                         *)
(* The inductive invariant IInv says, while the backend is usable, what    *)
(* each slot has to do with the caller's clones: the k-th slot after the   *)
(* oldest has the k-th batch in flight (Window), and the points a slot     *)
(* keeps are those of its last batch, moved on by the stride (Kept), so    *)
(* that a step derives the same addresses as an upload would.              *)
(***************************************************************************)
EXTENDS GpuRing, TLAPS

Kept(slot) ==
  /\ slot.command # "none" =>
       /\ slot.persist_count = slot.count
       /\ slot.warm = (Persist /\ WholeChains(slot.count))
  /\ slot.command = "queued" => Source(slot) # NoBatch
  /\ slot.command \in {"none", "done"} /\ slot.warm =>
       /\ slot.output # NoBatch
       /\ slot.state = [keys  |-> Advance(slot.output),
                        count |-> slot.persist_count]

Window ==
  /\ pending = Len(held)
  /\ \A k \in 0 .. NumSlots - 1 :
       IF k < pending
         THEN /\ slots[At(k)].command # "none"
              /\ slots[At(k)].count = held[k + 1].count
              /\ Promised(slots[At(k)]) = held[k + 1].keys
         ELSE slots[At(k)].command = "none"

IInv ==
  /\ TypeOK
  /\ OnlyDeviceErrors
  /\ SecretsOnlyInFlight
  /\ error = "none" => Window /\ \A i \in Slot : Kept(slots[i])

-----------------------------------------------------------------------------
(* The indices of the ring: the NumSlots slots from the oldest on are all  *)
(* the slots, each once, and moving the oldest on by one renumbers them.   *)
LEMMA RingIndices ==
  ASSUME collect_at \in Slot
  PROVE  /\ \A k \in 0 .. NumSlots : At(k) = IF collect_at + k < NumSlots
                                                 THEN collect_at + k
                                                 ELSE collect_at + k - NumSlots
         /\ \A k \in 0 .. NumSlots : At(k) \in Slot
         /\ \A j, k \in 0 .. NumSlots - 1 : At(j) = At(k) => j = k
         /\ \A i \in Slot : \E k \in 0 .. NumSlots - 1 : At(k) = i
<1>1. \A k \in 0 .. NumSlots : At(k) = IF collect_at + k < NumSlots
                                         THEN collect_at + k
                                         ELSE collect_at + k - NumSlots
  BY RingAssumption DEF Slot, At
<1>2. \A i \in Slot : \E k \in 0 .. NumSlots - 1 : At(k) = i
  <2>. SUFFICES ASSUME NEW i \in Slot
                PROVE  \E k \in 0 .. NumSlots - 1 : At(k) = i
    OBVIOUS
  <2>1. CASE i >= collect_at
    <3>1. i - collect_at \in 0 .. NumSlots - 1 /\ At(i - collect_at) = i
      BY <1>1, <2>1, RingAssumption DEF Slot
    <3>. QED  BY <3>1
  <2>2. CASE i < collect_at
    <3>1. /\ i - collect_at + NumSlots \in 0 .. NumSlots - 1
          /\ At(i - collect_at + NumSlots) = i
      BY <1>1, <2>2, RingAssumption DEF Slot
    <3>. QED  BY <3>1
  <2>. QED  BY <2>1, <2>2, RingAssumption DEF Slot
<1>. QED  BY <1>1, <1>2, RingAssumption DEF Slot

LEMMA NextOldest ==
  ASSUME collect_at \in Slot, collect_at' = AfterCollect
  PROVE  /\ \A k \in 0 .. NumSlots - 2 : At(k)' = At(k + 1)
         /\ At(NumSlots - 1)' = collect_at
<1>1. collect_at' = IF collect_at + 1 < NumSlots THEN collect_at + 1 ELSE 0
  BY RingAssumption DEF AfterCollect, At, Slot
<1>2. ASSUME NEW k \in 0 .. NumSlots - 2
      PROVE  (collect_at' + k) % NumSlots = (collect_at + (k + 1)) % NumSlots
  BY <1>1, RingAssumption DEF Slot
<1>3. (collect_at' + (NumSlots - 1)) % NumSlots = collect_at
  BY <1>1, RingAssumption DEF Slot
<1>. QED  BY <1>2, <1>3 DEF At

-----------------------------------------------------------------------------
(* After the self-test the ring is idle, and every slot it went through    *)
(* with whole chains keeps the points of that batch.                       *)
LEMMA SelfTested ==
  ASSUME NEW n \in SelfTests
  PROVE  /\ SelfTestedSlot(n) \in GpuSlot
         /\ SelfTestedSlot(n).command = "none"
         /\ SelfTestedSlot(n).input = NoBatch
         /\ Kept(SelfTestedSlot(n))
<1>. DEFINE whole == Persist /\ WholeChains(SelfTestCount(n))
            points == [keys |-> Advance(Fresh(n)), count |-> SelfTestCount(n)]
<1>1. /\ Fresh(n) \in KeyBatch /\ Advance(Fresh(n)) \in KeyBatch
      /\ SelfTestCount(n) \in Nat
  BY RingAssumption DEF SelfTests, SelfTestCount, KeyBatch, Fresh, Advance
<1>2. points \in KeptPoints /\ whole \in BOOLEAN
  BY <1>1 DEF KeptPoints
<1>3. Fresh(n) # NoBatch
  BY <1>1, RingAssumption
<1>. QED
  BY <1>1, <1>2, <1>3 DEF SelfTestedSlot, GpuSlot, Contents, Kept

LEMMA InitIInv == Init => IInv
<1>. SUFFICES ASSUME Init PROVE IInv
  OBVIOUS
<1>1. ASSUME NEW i \in Slot
      PROVE  /\ slots[i] \in GpuSlot
             /\ slots[i].command = "none"
             /\ slots[i].input = NoBatch
             /\ Kept(slots[i])
  <2>. DEFINE ran == {n \in SelfTests : n % NumSlots = i}
  <2>1. CASE ran = {}
    <3>1. slots[i] = EmptySlot
      BY <2>1 DEF Init
    <3>. QED
      BY <3>1, RingAssumption DEF EmptySlot, GpuSlot, Contents, Kept
  <2>2. CASE ran # {}
    <3>1. \E n \in ran : \A m \in ran : m <= n
      <4>1. \A n \in SelfTests : n = 0 \/ n = 1 \/ n = 2
        BY DEF SelfTests
      <4>. QED  BY <4>1, <2>2
    <3>2. PICK n \in SelfTests : slots[i] = SelfTestedSlot(n)
      BY <2>2, <3>1 DEF Init
    <3>. QED  BY <3>2, SelfTested
  <2>. QED  BY <2>1, <2>2
<1>2. collect_at \in Slot
  BY RingAssumption DEF Init, Slot
<1>3. TypeOK
  BY <1>1, <1>2, RingAssumption DEF Init, TypeOK, Slot
<1>4. Window
  <2>1. pending = 0 /\ held = << >>
    BY DEF Init
  <2>2. \A k \in 0 .. NumSlots - 1 : At(k) \in Slot
    BY <1>2, RingIndices, RingAssumption
  <2>. QED  BY <1>1, <2>1, <2>2 DEF Window
<1>. QED
  BY <1>1, <1>3, <1>4 DEF IInv, OnlyDeviceErrors, SecretsOnlyInFlight, Init

-----------------------------------------------------------------------------
(* A batch that is submitted is promised the addresses of its keys, also   *)
(* when its slot steps the points it kept.                                 *)
LEMMA BeginKeeps ==
  ASSUME NEW slot \in GpuSlot, slot.command = "none", Kept(slot),
         NEW keys \in KeyBatch, NEW count \in Nat, NEW resume \in BOOLEAN,
         resume => slot.output # NoBatch /\ keys = Advance(slot.output)
  PROVE  /\ SlotAfterBegin(slot, keys, count, resume) \in GpuSlot
         /\ SlotAfterBegin(slot, keys, count, resume).command = "queued"
         /\ SlotAfterBegin(slot, keys, count, resume).count = count
         /\ Kept(SlotAfterBegin(slot, keys, count, resume))
         /\ Promised(SlotAfterBegin(slot, keys, count, resume)) = keys
<1>. DEFINE new == SlotAfterBegin(slot, keys, count, resume)
            step == resume /\ CanStep(slot, count)
<1>1. keys # NoBatch /\ keys \in Contents
  BY RingAssumption DEF Contents
<1>2. /\ new = [slot EXCEPT !.input = IF step THEN @ ELSE keys,
                            !.command = "queued", !.step = step, !.count = count,
                            !.persist_count = count,
                            !.warm = Persist /\ WholeChains(count)]
      /\ step \in BOOLEAN
  BY DEF SlotAfterBegin
<1>3. step => slot.state = [keys |-> keys, count |-> count]
  BY DEF CanStep, Kept
<1>. HIDE DEF step
<1>4. /\ new \in GpuSlot
      /\ new.command = "queued" /\ new.step = step
      /\ new.count = count /\ new.persist_count = count
      /\ new.warm = (Persist /\ WholeChains(count))
      /\ new.state = slot.state /\ (~ step => new.input = keys)
  BY <1>1, <1>2, RingAssumption DEF GpuSlot
<1>5. Source(new) = keys
  <2>1. CASE step
    <3>1. slot.state # NoBatch
      BY <1>3, <2>1, RingAssumption DEF GpuSlot, KeptPoints
    <3>. QED  BY <1>3, <1>4, <2>1, <3>1 DEF Source
  <2>. QED  BY <1>4, <2>1 DEF Source
<1>. QED  BY <1>1, <1>4, <1>5 DEF Kept, Promised

LEMMA BeginIInv ==
  ASSUME IInv, Usable,
         NEW keys \in CallerBatch, NEW count \in Sizes, NEW resume \in BOOLEAN,
         resume => MayResume(keys), BeginBatch(keys, count, resume)
  PROVE  IInv'
<1>. DEFINE new == SlotAfterBegin(slots[SubmitAt], keys, count, resume)
<1>1. /\ TypeOK /\ Window /\ SecretsOnlyInFlight
      /\ error = "none" /\ dropped = FALSE
      /\ \A i \in Slot : Kept(slots[i])
  BY DEF IInv, Usable, TypeOK
<1>2. /\ pending \in 0 .. NumSlots - 1 /\ pending' = pending + 1
      /\ SubmitAt \in Slot /\ slots[SubmitAt].command = "none"
  BY <1>1, RingIndices, RingAssumption DEF BeginBatch, BeginAccepted, SubmitAt, TypeOK
<1>3. keys \in KeyBatch /\ count \in Nat
  BY RingAssumption DEF CallerBatch, KeyBatch
<1>4. /\ new \in GpuSlot /\ new.command = "queued" /\ new.count = count
      /\ Kept(new) /\ Promised(new) = keys
  BY <1>1, <1>2, <1>3, BeginKeeps DEF MayResume, TypeOK
<1>. HIDE DEF new
<1>5. /\ slots' = [slots EXCEPT ![SubmitAt] = new]
      /\ held' = Append(held, [keys |-> keys, count |-> count])
      /\ UNCHANGED << collect_at, got, error, dropped >>
  BY DEF BeginBatch, new
<1>6. /\ slots' \in [Slot -> GpuSlot] /\ slots'[SubmitAt] = new
      /\ \A i \in Slot \ {SubmitAt} : slots'[i] = slots[i]
  BY <1>1, <1>2, <1>4, <1>5 DEF TypeOK
<1>7. /\ held' \in Seq([keys : KeyBatch, count : Nat])
      /\ Len(held') = pending + 1
      /\ held'[pending + 1] = [keys |-> keys, count |-> count]
      /\ \A k \in 0 .. pending - 1 : held'[k + 1] = held[k + 1]
  BY <1>1, <1>2, <1>3, <1>5 DEF TypeOK, Window
<1>8. TypeOK'
  BY <1>1, <1>2, <1>5, <1>6, <1>7, RingAssumption DEF TypeOK
<1>9. Window'
  <2>. DEFINE Fits(k) ==
         IF k < pending + 1
           THEN /\ slots'[At(k)].command # "none"
                /\ slots'[At(k)].count = held'[k + 1].count
                /\ Promised(slots'[At(k)]) = held'[k + 1].keys
           ELSE slots'[At(k)].command = "none"
  <2>1. ASSUME NEW k \in 0 .. NumSlots - 1 PROVE Fits(k)
    <3>1. At(k) \in Slot /\ (k # pending => At(k) # SubmitAt)
      BY <1>1, <1>2, RingIndices, RingAssumption DEF SubmitAt, TypeOK
    <3>2. CASE k = pending
      BY <1>2, <1>4, <1>6, <1>7, <3>2 DEF SubmitAt
    <3>3. CASE k # pending
      <4>1. slots'[At(k)] = slots[At(k)]
        BY <1>6, <3>1, <3>3
      <4>. QED  BY <1>1, <1>2, <1>7, <3>3, <4>1 DEF Window
    <3>. QED  BY <3>2, <3>3
  <2>2. \A k \in 0 .. NumSlots - 1 : At(k)' = At(k)
    BY <1>5 DEF At
  <2>. QED  BY <1>2, <1>7, <2>1, <2>2 DEF Window, Promised, Source
<1>10. (\A i \in Slot : Kept(slots[i]))'
  BY <1>1, <1>4, <1>6 DEF Kept, Source, WholeChains
<1>11. SecretsOnlyInFlight'
  BY <1>1, <1>4, <1>5, <1>6 DEF SecretsOnlyInFlight
<1>. QED
  BY <1>1, <1>5, <1>8, <1>9, <1>10, <1>11 DEF IInv, OnlyDeviceErrors

(* The caller never meets a full ring or a busy slot.                      *)
LEMMA NeverRefused ==
  ASSUME IInv, Usable, Len(held) < NumSlots
  PROVE  BeginAccepted
<1>1. /\ TypeOK /\ pending = Len(held) /\ pending < NumSlots
      /\ \A k \in 0 .. NumSlots - 1 :
           k >= pending => slots[At(k)].command = "none"
  BY DEF IInv, Usable, Window, TypeOK
<1>2. pending \in 0 .. NumSlots - 1
  BY <1>1, RingAssumption DEF TypeOK
<1>3. slots[At(pending)].command = "none"
  BY <1>1, <1>2
<1>. QED  BY <1>1, <1>3 DEF BeginAccepted, SubmitAt

LEMMA BeginFailsIInv ==
  ASSUME IInv, Usable, NEW keys \in CallerBatch, NEW count \in Sizes,
         NEW resume \in BOOLEAN, BeginFails(keys, count, resume)
  PROVE  IInv'
<1>. DEFINE kept == IF resume /\ CanStep(slots[SubmitAt], count)
                      THEN slots[SubmitAt].input ELSE keys
<1>1. TypeOK /\ SecretsOnlyInFlight /\ dropped = FALSE
  BY DEF IInv, Usable, TypeOK
<1>2. SubmitAt \in Slot
  BY <1>1, RingIndices, RingAssumption DEF BeginFails, BeginAccepted, SubmitAt, TypeOK
<1>3. slots[SubmitAt] \in GpuSlot /\ kept \in Contents
  BY <1>1, <1>2 DEF TypeOK, GpuSlot, Contents, CallerBatch, KeyBatch
<1>. HIDE DEF kept
<1>4. slots' = [slots EXCEPT ![SubmitAt] = [@ EXCEPT !.input = kept]]
  BY <1>1, <1>2 DEF BeginFails, kept, TypeOK
<1>5. [slots[SubmitAt] EXCEPT !.input = kept] \in GpuSlot
  BY <1>3 DEF GpuSlot
<1>6. slots' \in [Slot -> GpuSlot]
  BY <1>1, <1>2, <1>4, <1>5 DEF TypeOK
<1>7. /\ error' = "device" /\ dropped' = FALSE
      /\ UNCHANGED << collect_at, pending, held, got >>
  BY <1>1 DEF BeginFails
<1>. QED
  BY <1>1, <1>6, <1>7 DEF IInv, TypeOK, OnlyDeviceErrors, SecretsOnlyInFlight

-----------------------------------------------------------------------------
(* The device.                                                             *)
Executed(slot) == [slot EXCEPT !.output = Source(slot),
                               !.state = StoredPoints(slot),
                               !.command = "done"]

LEMMA ExecuteKeeps ==
  ASSUME NEW slot \in GpuSlot, slot.command = "queued"
  PROVE  /\ Executed(slot) \in GpuSlot /\ Executed(slot).command = "done"
         /\ Executed(slot).input = slot.input
         /\ Executed(slot).count = slot.count
         /\ Kept(slot) => /\ Kept(Executed(slot))
                          /\ Promised(Executed(slot)) = Promised(slot)
<1>. DEFINE new == Executed(slot)
<1>1. Source(slot) \in Contents
  BY DEF Source, GpuSlot, Contents, KeptPoints
<1>2. StoredPoints(slot) \in KeptPoints \union {NoBatch}
  BY <1>1 DEF StoredPoints, KeptPoints, GpuSlot, Contents, Advance, KeyBatch
<1>3. /\ new \in GpuSlot /\ new.command = "done"
      /\ new.output = Source(slot) /\ new.state = StoredPoints(slot)
      /\ new.persist_count = slot.persist_count /\ new.count = slot.count
      /\ new.warm = slot.warm /\ new.input = slot.input
  BY <1>1, <1>2 DEF Executed, GpuSlot, Contents
<1>. HIDE DEF new
<1>4. ASSUME Kept(slot)
      PROVE  Kept(new) /\ Promised(new) = Promised(slot)
  <2>1. Source(slot) # NoBatch
    BY <1>4 DEF Kept
  <2>. QED  BY <1>3, <1>4, <2>1 DEF Kept, Promised, StoredPoints
<1>. QED  BY <1>3, <1>4 DEF new

(* A step of the device on one slot leaves the promises of all as they are.*)
LEMMA DeviceIInv ==
  ASSUME IInv, NEW i \in Slot, slots[i].command = "queued",
         NEW new \in GpuSlot, new.command \in {"done", "failed"},
         new.input = slots[i].input, new.count = slots[i].count,
         Kept(slots[i]) => Kept(new) /\ Promised(new) = Promised(slots[i]),
         slots' = [slots EXCEPT ![i] = new],
         UNCHANGED << collect_at, pending, held, got, error, dropped >>
  PROVE  IInv'
<1>1. TypeOK /\ SecretsOnlyInFlight /\ OnlyDeviceErrors
  BY DEF IInv
<1>2. /\ slots' \in [Slot -> GpuSlot] /\ slots'[i] = new
      /\ \A j \in Slot \ {i} : slots'[j] = slots[j]
  BY <1>1 DEF TypeOK
<1>3. TypeOK' /\ SecretsOnlyInFlight' /\ OnlyDeviceErrors'
  BY <1>1, <1>2 DEF TypeOK, SecretsOnlyInFlight, OnlyDeviceErrors
<1>4. ASSUME error = "none"
      PROVE  Window' /\ (\A j \in Slot : Kept(slots[j]))'
  <2>1. Window /\ \A j \in Slot : Kept(slots[j])
    BY <1>4 DEF IInv
  <2>2. \A j \in Slot : /\ Kept(slots'[j])
                        /\ slots'[j].count = slots[j].count
                        /\ Promised(slots'[j]) = Promised(slots[j])
                        /\ slots'[j].command = "none" <=> slots[j].command = "none"
    BY <1>2, <2>1
  <2>3. \A k \in 0 .. NumSlots - 1 : At(k) \in Slot /\ At(k)' = At(k)
    BY <1>1, RingIndices, RingAssumption DEF TypeOK, At
  <2>4. Window'
    BY <2>1, <2>2, <2>3 DEF Window, Promised, Source
  <2>. QED  BY <2>2, <2>4 DEF Kept, Source, WholeChains
<1>. QED  BY <1>3, <1>4 DEF IInv

LEMMA ExecuteIInv ==
  ASSUME IInv, NEW i \in Slot, Execute(i) \/ DeviceFails(i)
  PROVE  IInv'
<1>1. slots \in [Slot -> GpuSlot] /\ slots[i] \in GpuSlot
  BY DEF IInv, TypeOK
<1>2. CASE Execute(i)
  <2>. DEFINE new == Executed(slots[i])
  <2>1. /\ slots[i].command = "queued" /\ slots' = [slots EXCEPT ![i] = new]
        /\ UNCHANGED << collect_at, pending, held, got, error, dropped >>
    BY <1>1, <1>2 DEF Execute, Executed
  <2>2. /\ new \in GpuSlot /\ new.command = "done"
        /\ new.input = slots[i].input /\ new.count = slots[i].count
        /\ Kept(slots[i]) => Kept(new) /\ Promised(new) = Promised(slots[i])
    BY <1>1, <2>1, ExecuteKeeps
  <2>. HIDE DEF new
  <2>. QED  BY <2>1, <2>2, DeviceIInv
<1>3. CASE DeviceFails(i)
  <2>. DEFINE new == [slots[i] EXCEPT !.command = "failed"]
  <2>1. /\ slots[i].command = "queued" /\ slots' = [slots EXCEPT ![i] = new]
        /\ UNCHANGED << collect_at, pending, held, got, error, dropped >>
    BY <1>1, <1>3 DEF DeviceFails
  <2>2. /\ new \in GpuSlot /\ new.command = "failed"
        /\ new.input = slots[i].input /\ new.count = slots[i].count
        /\ Kept(slots[i]) => Kept(new) /\ Promised(new) = Promised(slots[i])
    BY <1>1, <2>1 DEF GpuSlot, Kept, Promised, Source
  <2>. HIDE DEF new
  <2>. QED  BY <2>1, <2>2, DeviceIInv
<1>. QED  BY <1>2, <1>3

-----------------------------------------------------------------------------
(* What popping the oldest batch does to the rest of a queue.              *)
LEMMA Oldest ==
  ASSUME NEW S, NEW q \in Seq(S), q # << >>
  PROVE  /\ Len(q) \in Nat \ {0}
         /\ Tail(q) \in Seq(S) /\ Len(Tail(q)) = Len(q) - 1
         /\ Head(q) = q[1] /\ q[1] \in S
         /\ \A k \in 1 .. Len(q) - 1 : Tail(q)[k] = q[k + 1]
<1>1. Len(q) \in Nat \ {0}
  OBVIOUS
<1>. QED  BY <1>1

(* Collecting: the oldest batch in flight is in its slot, so only a command*)
(* that failed on the device makes end_observed return an error.           *)
LEMMA EndOutcome ==
  ASSUME IInv, Usable, held # << >>, slots[collect_at].command # "queued",
         NEW outcome \in EndOutcomes(slots[collect_at], Head(held))
  PROVE  /\ outcome \in {"none", "device"}
         /\ outcome = "none" => slots[collect_at].output = Head(held).keys
<1>1. /\ TypeOK /\ Window /\ \A i \in Slot : Kept(slots[i])
      /\ collect_at \in Slot /\ pending = Len(held)
  BY DEF IInv, Usable, Window, TypeOK
<1>2. Len(held) \in Nat \ {0} /\ Head(held) = held[1]
  BY <1>1 DEF TypeOK
<1>3. At(0) = collect_at /\ 0 \in 0 .. NumSlots - 1
  BY <1>1, RingIndices, RingAssumption DEF Slot
<1>4. /\ slots[collect_at].command # "none"
      /\ slots[collect_at].count = held[1].count
      /\ Promised(slots[collect_at]) = held[1].keys
  BY <1>1, <1>2, <1>3 DEF Window
<1>5. slots[collect_at].command \in {"done", "failed"}
  BY <1>1, <1>4 DEF TypeOK, GpuSlot
<1>. QED  BY <1>1, <1>2, <1>4, <1>5 DEF EndOutcomes, Promised

LEMMA EndIInv ==
  ASSUME IInv, Usable, EndBatch
  PROVE  IInv'
<1>1. /\ TypeOK /\ Window /\ SecretsOnlyInFlight
      /\ error = "none" /\ dropped = FALSE
      /\ \A i \in Slot : Kept(slots[i])
      /\ collect_at \in Slot /\ slots[collect_at] \in GpuSlot
      /\ slots \in [Slot -> GpuSlot]
  BY DEF IInv, Usable, TypeOK
<1>2. PICK outcome \in EndOutcomes(slots[collect_at], Head(held)) :
        /\ error' = outcome
        /\ IF outcome = "none"
             THEN /\ slots' = [slots EXCEPT ![collect_at] = Collected(@)]
                  /\ got' = [keys |-> Head(held).keys,
                             addresses |-> slots[collect_at].output]
                  /\ collect_at' = AfterCollect
                  /\ pending' = pending - 1
             ELSE /\ slots' = [slots EXCEPT ![collect_at].command = "none"]
                  /\ UNCHANGED << got, collect_at, pending >>
  BY DEF EndBatch
<1>3. /\ held # << >> /\ held' = Tail(held) /\ dropped' = FALSE
      /\ slots[collect_at].command # "queued"
  BY <1>1 DEF EndBatch
<1>4. /\ outcome \in {"none", "device"}
      /\ outcome = "none" => slots[collect_at].output = Head(held).keys
  BY <1>2, <1>3, EndOutcome
<1>5. /\ pending \in 1 .. NumSlots /\ pending = Len(held)
      /\ pending - 1 \in 0 .. NumSlots /\ held' \in Seq([keys : KeyBatch, count : Nat])
      /\ Len(held') = pending - 1
      /\ Head(held) = held[1] /\ held[1] \in [keys : KeyBatch, count : Nat]
      /\ \A k \in 1 .. pending - 1 : held'[k] = held[k + 1]
  <2>1. /\ held \in Seq([keys : KeyBatch, count : Nat])
        /\ pending = Len(held) /\ pending \in 0 .. NumSlots
    BY <1>1 DEF TypeOK, Window
  <2>2. Len(held) # 0
    BY <1>3, <2>1
  <2>3. pending \in 1 .. NumSlots /\ pending - 1 \in 0 .. NumSlots
    BY <2>1, <2>2, RingAssumption
  <2>4. /\ held' \in Seq([keys : KeyBatch, count : Nat])
        /\ Len(held') = Len(held) - 1
        /\ Head(held) = held[1] /\ held[1] \in [keys : KeyBatch, count : Nat]
        /\ \A k \in 1 .. Len(held) - 1 : held'[k] = held[k + 1]
    BY <1>3, <2>1, Oldest
  <2>. QED  BY <2>1, <2>3, <2>4
<1>6. CASE outcome = "none"
  <2>. DEFINE new == Collected(slots[collect_at])
  <2>1. /\ new \in GpuSlot /\ new.command = "none" /\ new.input = NoBatch
        /\ new.warm = slots[collect_at].warm
        /\ new.persist_count = slots[collect_at].persist_count
        /\ new.output = slots[collect_at].output
        /\ new.state = slots[collect_at].state
    BY <1>1 DEF Collected, GpuSlot, Contents
  <2>. HIDE DEF new
  <2>2. /\ slots' = [slots EXCEPT ![collect_at] = new]
        /\ collect_at' = AfterCollect /\ pending' = pending - 1
        /\ error' = "none"
        /\ got' = [keys |-> held[1].keys, addresses |-> held[1].keys]
    BY <1>2, <1>4, <1>5, <1>6 DEF new
  <2>3. /\ slots' \in [Slot -> GpuSlot] /\ slots'[collect_at] = new
        /\ \A i \in Slot \ {collect_at} : slots'[i] = slots[i]
    BY <1>1, <2>1, <2>2
  <2>4. AfterCollect \in Slot
    BY <1>1, RingIndices, RingAssumption DEF AfterCollect
  <2>5. got' \in [keys : Contents, addresses : Contents]
    BY <1>5, <2>2 DEF Contents
  <2>6. TypeOK'
    BY <1>1, <1>3, <1>5, <2>2, <2>3, <2>4, <2>5 DEF TypeOK
  <2>7. SecretsOnlyInFlight'
    BY <1>1, <1>3, <2>1, <2>2, <2>3 DEF SecretsOnlyInFlight
  <2>8. Kept(new)
    <3>1. At(0) = collect_at /\ 0 \in 0 .. NumSlots - 1
      BY <1>1, RingIndices, RingAssumption DEF Slot
    <3>2. slots[collect_at].command = "done"
      BY <1>1, <1>2, <1>3, <1>5, <1>6 DEF EndOutcomes, GpuSlot
    <3>. QED  BY <1>1, <2>1, <3>2 DEF Kept
  <2>9. (\A i \in Slot : Kept(slots[i]))'
    BY <1>1, <2>3, <2>8 DEF Kept, Source, WholeChains
  <2>10. Window'
    <3>1. ASSUME NEW k \in 0 .. NumSlots - 1
          PROVE  IF k < pending - 1
                   THEN /\ slots'[At(k)'].command # "none"
                        /\ slots'[At(k)'].count = held'[k + 1].count
                        /\ Promised(slots'[At(k)']) = held'[k + 1].keys
                   ELSE slots'[At(k)'].command = "none"
      <4>1. CASE k = NumSlots - 1
        <5>1. At(k)' = collect_at
          BY <1>1, <2>2, <4>1, NextOldest
        <5>. QED  BY <1>5, <2>1, <2>3, <4>1, <5>1, RingAssumption
      <4>2. CASE k # NumSlots - 1
        <5>1. k \in 0 .. NumSlots - 2 /\ k + 1 \in 0 .. NumSlots - 1
          BY <4>2, RingAssumption
        <5>2. At(k)' = At(k + 1)
          BY <1>1, <2>2, <5>1, NextOldest
        <5>3. At(k + 1) \in Slot /\ At(k + 1) # collect_at
          <6>1. At(0) = collect_at /\ 0 \in 0 .. NumSlots - 1
            BY <1>1, RingIndices, RingAssumption DEF Slot
          <6>. QED  BY <1>1, <5>1, <6>1, RingIndices, RingAssumption
        <5>4. slots'[At(k)'] = slots[At(k + 1)]
          BY <2>3, <5>2, <5>3
        <5>5. k < pending - 1 => k + 1 \in 1 .. pending - 1
          BY <1>5
        <5>. QED  BY <1>1, <1>5, <5>1, <5>4, <5>5 DEF Window
      <4>. QED  BY <4>1, <4>2
    <3>. QED  BY <1>5, <2>2, <3>1 DEF Window, Promised, Source
  <2>. QED
    BY <2>2, <2>6, <2>7, <2>9, <2>10 DEF IInv, OnlyDeviceErrors
<1>7. CASE outcome = "device"
  <2>1. /\ slots' = [slots EXCEPT ![collect_at].command = "none"]
        /\ error' = "device" /\ UNCHANGED << got, collect_at, pending >>
    BY <1>2, <1>7
  <2>2. [slots[collect_at] EXCEPT !.command = "none"] \in GpuSlot
    BY <1>1 DEF GpuSlot
  <2>3. slots' \in [Slot -> GpuSlot]
    BY <1>1, <2>1, <2>2
  <2>. QED
    BY <1>1, <1>3, <1>5, <2>1, <2>3
       DEF IInv, TypeOK, SecretsOnlyInFlight, OnlyDeviceErrors
<1>. QED  BY <1>4, <1>6, <1>7

LEMMA AbandonIInv == IInv /\ Abandon => IInv'
<1>. SUFFICES ASSUME IInv, Abandon PROVE IInv'
  OBVIOUS
<1>1. TypeOK /\ SecretsOnlyInFlight /\ OnlyDeviceErrors
  BY DEF IInv
<1>2. error' \in {"device", "finished"} /\ held' = << >>
  BY <1>1 DEF Abandon, OnlyDeviceErrors
<1>. QED
  BY <1>1, <1>2
     DEF Abandon, IInv, TypeOK, SecretsOnlyInFlight, OnlyDeviceErrors

(* Nothing is in flight when an unfailed backend is dropped.               *)
LEMMA DropIInv == IInv /\ DropBackend => IInv'
<1>. SUFFICES ASSUME IInv, DropBackend PROVE IInv'
  OBVIOUS
<1>1. TypeOK /\ SecretsOnlyInFlight /\ OnlyDeviceErrors
  BY DEF IInv
<1>2. /\ slots' = [i \in Slot |-> [slots[i] EXCEPT !.command = "none",
                                                   !.input = NoBatch]]
      /\ held = << >> /\ dropped' = TRUE
      /\ UNCHANGED << collect_at, pending, held, got, error >>
  BY DEF DropBackend
<1>3. ASSUME NEW i \in Slot
      PROVE  /\ slots'[i] \in GpuSlot
             /\ slots'[i].command = "none" /\ slots'[i].input = NoBatch
             /\ slots'[i].warm = slots[i].warm
             /\ slots'[i].persist_count = slots[i].persist_count
             /\ slots'[i].output = slots[i].output
             /\ slots'[i].state = slots[i].state
  BY <1>1, <1>2 DEF TypeOK, GpuSlot, Contents
<1>4. slots' \in [Slot -> GpuSlot]
  BY <1>2, <1>3
<1>5. TypeOK' /\ SecretsOnlyInFlight' /\ OnlyDeviceErrors'
  BY <1>1, <1>2, <1>3, <1>4 DEF TypeOK, SecretsOnlyInFlight, OnlyDeviceErrors
<1>6. ASSUME error' = "none"
      PROVE  Window' /\ (\A i \in Slot : Kept(slots[i]))'
  <2>1. Window /\ pending = 0 /\ \A i \in Slot : Kept(slots[i])
    BY <1>2, <1>6 DEF IInv, Window
  <2>2. \A k \in 0 .. NumSlots - 1 : At(k) \in Slot /\ At(k)' = At(k)
    <3>1. collect_at \in Slot /\ collect_at' = collect_at
      BY <1>1, <1>2 DEF TypeOK
    <3>. QED  BY <3>1, RingIndices, RingAssumption DEF At
  <2>3. \A i \in Slot : slots[i].command = "none"
    <3>1. \A k \in 0 .. NumSlots - 1 : slots[At(k)].command = "none"
      BY <2>1 DEF Window
    <3>. QED  BY <1>1, <3>1, RingIndices DEF TypeOK
  <2>4. Window'
    <3>1. pending' = 0 /\ held' = << >>
      BY <1>2, <2>1
    <3>2. \A k \in 0 .. NumSlots - 1 : slots'[At(k)'].command = "none"
      BY <1>3, <2>2
    <3>. QED  BY <3>1, <3>2 DEF Window
  <2>5. \A i \in Slot : Kept(slots'[i])
    BY <1>3, <2>1, <2>3 DEF Kept
  <2>. QED  BY <2>4, <2>5 DEF Kept, Source, WholeChains
<1>. QED  BY <1>5, <1>6 DEF IInv

LEMMA NextIInv == IInv /\ [Next]_vars => IInv'
<1>. SUFFICES ASSUME IInv, [Next]_vars PROVE IInv'
  OBVIOUS
<1>1. CASE CallBegin
  <2>1. Usable /\ BeginAccepted
    BY <1>1, NeverRefused DEF CallBegin
  <2>2. PICK keys \in CallerBatch, count \in Sizes, resume \in BOOLEAN :
          /\ resume => MayResume(keys)
          /\ BeginBatch(keys, count, resume) \/ BeginFails(keys, count, resume)
    BY <1>1, <2>1 DEF CallBegin, BeginRefused
  <2>. QED  BY <2>1, <2>2, BeginIInv, BeginFailsIInv
<1>2. CASE CallEnd
  BY <1>2, EndIInv DEF CallEnd
<1>3. CASE Abandon
  BY <1>3, AbandonIInv
<1>4. CASE \E i \in Slot : Execute(i) \/ DeviceFails(i)
  BY <1>4, ExecuteIInv
<1>5. CASE DropBackend
  BY <1>5, DropIInv
<1>6. CASE UNCHANGED vars
  BY <1>6 DEF vars, IInv, TypeOK, OnlyDeviceErrors, SecretsOnlyInFlight, Window,
              Kept, Promised, Source, At, WholeChains
<1>. QED  BY <1>1, <1>2, <1>3, <1>4, <1>5, <1>6 DEF Next

-----------------------------------------------------------------------------
(* IInv is inductive: it holds of the ring for any number of slots.        *)
THEOREM Invariance == Spec => []IInv
<1>. QED  BY InitIInv, NextIInv, PTL DEF Spec

(* Every variable has its type in every reachable state (GpuSlot and the   *)
(* MetalBackend of metal.rs).                                              *)
THEOREM TypeCorrect == Spec => []TypeOK
<1>1. IInv => TypeOK
  BY DEF IInv
<1>. QED  BY <1>1, Invariance, PTL

(* No ensure! of begin_observed or end_observed fires for the search loop, *)
(* however many slots there are and whatever it submits.                   *)
THEOREM NoForeignErrors == Spec => []OnlyDeviceErrors
<1>1. IInv => OnlyDeviceErrors
  BY DEF IInv
<1>. QED  BY <1>1, Invariance, PTL

(* The wipes of end_observed and Drop leave no key in a device buffer that *)
(* no command in flight reads.                                             *)
THEOREM SecretsWiped == Spec => []SecretsOnlyInFlight
<1>1. IInv => SecretsOnlyInFlight
  BY DEF IInv
<1>. QED  BY <1>1, Invariance, PTL

(* Each batch in flight is in its slot of the ring, which derives the      *)
(* addresses of the keys the search loop keeps for it, resumed or not.     *)
THEOREM RingOrder == Spec => []SlotsFollowHeld
<1>1. IInv => SlotsFollowHeld
  <2>. SUFFICES ASSUME IInv, Usable PROVE
         /\ pending = Len(held)
         /\ \A k \in 1 .. pending : Promised(slots[At(k - 1)]) = held[k].keys
    BY DEF SlotsFollowHeld
  <2>1. Window /\ pending \in 0 .. NumSlots
    BY DEF IInv, Usable, TypeOK
  <2>2. ASSUME NEW k \in 1 .. pending
        PROVE  Promised(slots[At(k - 1)]) = held[k].keys
    <3>1. k - 1 \in 0 .. NumSlots - 1 /\ k - 1 < pending /\ (k - 1) + 1 = k
      BY <2>1, RingAssumption
    <3>. QED  BY <2>1, <3>1 DEF Window
  <2>. QED  BY <2>1, <2>2 DEF Window
<1>. QED  BY <1>1, Invariance, PTL

(* No step overwrites a command in the queue or the keys it reads.         *)
THEOREM QueueKept == Spec => QueuedCommandIsKept
<1>. DEFINE Keep(i) == slots[i].command = "queued" =>
                         /\ slots'[i].command \in {"queued", "done", "failed"}
                         /\ slots'[i].input = slots[i].input
<1>1. TypeOK /\ [Next]_vars => [\A i \in Slot : Keep(i)]_vars
  <2>. SUFFICES ASSUME TypeOK, Next, NEW i \in Slot, slots[i].command = "queued"
                PROVE  /\ slots'[i].command \in {"queued", "done", "failed"}
                       /\ slots'[i].input = slots[i].input
    OBVIOUS
  <2>1. slots \in [Slot -> GpuSlot] /\ slots[i] \in GpuSlot
    BY DEF TypeOK
  <2>2. SubmitAt \in Slot /\ collect_at \in Slot
    BY RingIndices, RingAssumption DEF SubmitAt, TypeOK
  <2>3. CASE CallBegin
    <3>1. CASE BeginRefused
      BY <2>1, <3>1 DEF BeginRefused
    <3>2. CASE BeginAccepted
      <4>1. i # SubmitAt
        BY <3>2 DEF BeginAccepted
      <4>2. slots'[i] = slots[i]
        BY <2>1, <2>2, <2>3, <4>1 DEF CallBegin, BeginRefused, BeginBatch, BeginFails
      <4>. QED  BY <4>2
    <3>. QED  BY <2>3, <3>1, <3>2 DEF CallBegin, BeginBatch, BeginFails
  <2>4. CASE CallEnd
    <3>1. i # collect_at /\ slots'[i] = slots[i]
      BY <2>1, <2>2, <2>4 DEF CallEnd, EndBatch
    <3>. QED  BY <3>1
  <2>5. CASE Abandon
    BY <2>5 DEF Abandon
  <2>6. ASSUME NEW j \in Slot, Execute(j) \/ DeviceFails(j)
        PROVE  /\ slots'[i].command \in {"queued", "done", "failed"}
               /\ slots'[i].input = slots[i].input
    <3>1. CASE j = i
      BY <2>1, <2>6, <3>1 DEF Execute, DeviceFails, GpuSlot
    <3>2. CASE j # i
      BY <2>1, <2>6, <3>2 DEF Execute, DeviceFails
    <3>. QED  BY <3>1, <3>2
  <2>7. CASE DropBackend
    BY <2>7 DEF DropBackend
  <2>. QED  BY <2>3, <2>4, <2>5, <2>6, <2>7 DEF Next
<1>. QED  BY <1>1, TypeCorrect, PTL DEF Spec, QueuedCommandIsKept

-----------------------------------------------------------------------------
(* The search loop may treat the ring as a bounded queue that hands back   *)
(* each batch with its own addresses, in the order of submission.          *)
THEOREM Refinement == Spec => ImplementsFifo
<1>1. Init => Fifo!Init
  BY DEF Init, Fifo!Init, InFlight, Usable
<1>2. IInv /\ [Next]_vars => [Fifo!Next]_Fifo!vars
  <2>. SUFFICES ASSUME IInv, [Next]_vars PROVE [Fifo!Next]_Fifo!vars
    OBVIOUS
  <2>1. /\ TypeOK /\ held \in Seq([keys : KeyBatch, count : Nat])
        /\ (Usable => pending = Len(held))
    BY DEF IInv, TypeOK, Usable, Window
  <2>2. ASSUME ~ Usable', Usable, got' = got
        PROVE  Fifo!Close
    BY <2>2 DEF Fifo!Close, InFlight
  <2>3. ASSUME UNCHANGED << held, got, error, dropped >>
        PROVE  UNCHANGED Fifo!vars
    BY <2>3 DEF Fifo!vars, InFlight, Usable
  <2>4. ASSUME ~ Usable, ~ Usable', got' = got
        PROVE  UNCHANGED Fifo!vars
    BY <2>4 DEF Fifo!vars, InFlight, Usable
  <2>5. CASE CallBegin
    <3>1. Usable /\ Len(held) < NumSlots /\ BeginAccepted
      BY <2>5, NeverRefused DEF CallBegin
    <3>2. PICK keys \in CallerBatch, count \in Sizes, resume \in BOOLEAN :
            BeginBatch(keys, count, resume) \/ BeginFails(keys, count, resume)
      BY <2>5, <3>1 DEF CallBegin, BeginRefused
    <3>3. CASE BeginBatch(keys, count, resume)
      <4>1. /\ held' = Append(held, [keys |-> keys, count |-> count])
            /\ got' = got /\ Usable' = Usable
        BY <3>3 DEF BeginBatch, Usable
      <4>2. InFlight' = Append(InFlight, keys)
        BY <2>1, <3>1, <4>1 DEF InFlight
      <4>3. Len(InFlight) < NumSlots
        BY <2>1, <3>1 DEF InFlight
      <4>. QED  BY <3>1, <4>1, <4>2, <4>3 DEF Fifo!Next, Fifo!Submit
    <3>4. CASE BeginFails(keys, count, resume)
      BY <2>2, <3>1, <3>4 DEF BeginFails, Usable, Fifo!Next
    <3>. QED  BY <3>2, <3>3, <3>4
  <2>6. CASE CallEnd
    <3>1. /\ Usable /\ held # << >> /\ held' = Tail(held)
          /\ dropped' = dropped /\ slots[collect_at].command # "queued"
      BY <2>6 DEF CallEnd, EndBatch
    <3>2. PICK outcome \in EndOutcomes(slots[collect_at], Head(held)) :
            /\ error' = outcome
            /\ IF outcome = "none"
                 THEN got' = [keys |-> Head(held).keys,
                              addresses |-> slots[collect_at].output]
                 ELSE got' = got
      BY <2>6 DEF CallEnd, EndBatch
    <3>3. /\ outcome \in {"none", "device"}
          /\ outcome = "none" => slots[collect_at].output = Head(held).keys
      BY <3>1, <3>2, EndOutcome
    <3>4. CASE outcome = "none"
      <4>1. /\ Usable' /\ got' = [keys |-> held[1].keys, addresses |-> held[1].keys]
        BY <2>1, <3>1, <3>2, <3>3, <3>4, Oldest DEF Usable
      <4>2. /\ InFlight = [k \in 1 .. Len(held) |-> held[k].keys]
            /\ InFlight' = [k \in 1 .. Len(held') |-> held'[k].keys]
        BY <3>1, <4>1 DEF InFlight
      <4>3. /\ Len(held) \in Nat \ {0} /\ Len(held') = Len(held) - 1
            /\ \A k \in 1 .. Len(held) - 1 : held'[k] = held[k + 1]
            /\ \A k \in 1 .. Len(held) : held[k].keys \in KeyBatch
        <5>1. /\ Len(held) \in Nat \ {0} /\ Len(Tail(held)) = Len(held) - 1
              /\ \A k \in 1 .. Len(held) - 1 : Tail(held)[k] = held[k + 1]
          BY <2>1, <3>1, Oldest
        <5>2. \A k \in 1 .. Len(held) : held[k].keys \in KeyBatch
          <6>1. ASSUME NEW S, held \in Seq(S), NEW k \in 1 .. Len(held)
                PROVE  held[k] \in S
            BY <6>1
          <6>2. \A k \in 1 .. Len(held) : held[k] \in [keys : KeyBatch, count : Nat]
            BY <2>1, <6>1
          <6>. QED  BY <6>2
        <5>. QED  BY <3>1, <5>1, <5>2
      <4>4. /\ InFlight \in Seq(KeyBatch) /\ Len(InFlight) = Len(held)
            /\ InFlight # << >>
        BY <4>2, <4>3
      <4>5. InFlight' = Tail(InFlight) /\ Head(InFlight) = held[1].keys
        BY <4>2, <4>3, <4>4, Oldest
      <4>. QED  BY <3>1, <4>1, <4>4, <4>5 DEF Fifo!Next, Fifo!Collect
    <3>5. CASE outcome = "device"
      BY <2>2, <3>1, <3>2, <3>5 DEF Usable, Fifo!Next
    <3>. QED  BY <3>3, <3>4, <3>5
  <2>7. CASE Abandon
    <3>1. ~ Usable' /\ got' = got
      BY <2>1, <2>7 DEF Abandon, Usable
    <3>. QED  BY <2>2, <2>4, <3>1 DEF Fifo!Next
  <2>8. ASSUME NEW i \in Slot, Execute(i) \/ DeviceFails(i)
        PROVE  UNCHANGED Fifo!vars
    BY <2>3, <2>8 DEF Execute, DeviceFails
  <2>9. CASE DropBackend
    <3>1. ~ Usable' /\ got' = got
      BY <2>9 DEF DropBackend, Usable
    <3>. QED  BY <2>2, <2>4, <3>1 DEF Fifo!Next
  <2>10. CASE UNCHANGED vars
    BY <2>3, <2>10 DEF vars
  <2>. QED  BY <2>5, <2>6, <2>7, <2>8, <2>9, <2>10 DEF Next
<1>. QED  BY <1>1, <1>2, Invariance, PTL DEF Spec, ImplementsFifo, Fifo!Spec
=============================================================================
