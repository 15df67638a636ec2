------------------------- MODULE HostPipelineProofs -------------------------
(***************************************************************************)
(* Proofs about HostPipeline, for every stride, batch size and headroom,   *)
(* with or without persistent points, and for any number of batches.       *)
(*                                                                         *)
(* The pipeline is a caller of the ring, so that the ring's own inductive  *)
(* invariant (GpuRingProofs) is a part of the one here, IInv, and each     *)
(* step preserves it as a step of the ring.  What the ring asks of a batch *)
(* that resumes rests on the circulation of the two host batches: they     *)
(* come back in turns (Circulation), so that the keys the producer moves   *)
(* on are those of the batch before the last (Spent), which is the last    *)
(* one that the slot next in turn has run (Outputs).  No scalar comes up   *)
(* twice because batches of one fill are of one parity, each a step        *)
(* further than the one before (Lineage).                                  *)
(***************************************************************************)
EXTENDS HostPipeline, TLAPS

RP == INSTANCE GpuRingProofs WITH Sizes <- {BatchSize}

-----------------------------------------------------------------------------
Ended == producer \in {"exit", "drop", "done"}

Looping == {"fill", "receive", "recv_timeout", "begin", "send", "send_timeout",
            "collect", "match"}

Taking == {"receive", "recv_timeout", "begin"}

(* Where the two threads are, and what they hold there.                    *)
Control ==
  /\ producer \in {"drop", "done"} => stop
  /\ worker \in {"drop", "join", "done", "released"} => stop
  /\ making # NoBatch <=> producer \in {"prepare", "send", "send_timeout"}
  /\ producer = "done" => recycle = << >>
  /\ WorkerGone => ready = << >> /\ current = NoBatch
  /\ worker \in {"begin", "send", "send_timeout"} => current # NoBatch
  /\ worker \in Looping \ {"begin", "send", "send_timeout"} => current = NoBatch
  /\ ~ Ended => produced = "none"
  /\ produced = "error" \/ producer = "seed" => sequence = 0
  /\ worker \in {"done", "released"} => producer = "done" /\ result = Return
  /\ 3 <= fills /\ fills <= sequence + 3

(* How the worker uses the ring.                                           *)
Backend ==
  /\ RP!IInv
  /\ worker \in Looping \union {"drain"} => error = "none" /\ failure = "none"
  /\ dropped <=> worker = "released"
  /\ failure \in {"none", "backend", "verify", "panic"}
  /\ failure = "backend" => error = "device"
  /\ worker \in Taking => Len(held) < NumSlots
  /\ worker \in {"drop", "join", "done", "released"} => held = << >>
  /\ failure = "none" /\ worker \in {"exit", "drop", "join", "done"} =>
       /\ pending = 0
       /\ \A i \in RP!Slot : slots[i].command = "none" /\ slots[i].input = NoBatch

(* The history of batches begun.                                           *)
Late ==
  /\ OneBeginAfterStop
  /\ \A i \in 1 .. Len(log) : log[i].late => stop /\ worker \notin Taking

(* The batches in flight are the last ones begun, all the others completed.*)
Account ==
  /\ Len(log) = completed + Len(held)
  /\ \A k \in 1 .. Len(held) : held[k].keys = log[completed + k].keys
  /\ worker # "match" => completed < MaxBatches
  /\ ResultsInOrder

(* Batch j is begun in slot j % 2.                                         *)
Outputs ==
  /\ collect_at = (completed + 1) % 2
  /\ \A j \in 1 .. completed :
       j >= Len(log) - 1 => slots[j % 2].output = log[j].keys

(* The sequence numbers, and where the two host batches are.               *)
Preparing == IF producer = "prepare" THEN 1 ELSE 0

Made == IF producer \in {"send", "send_timeout"} THEN 1 ELSE 0

Batches == Len(recycle) + Preparing + Made + Len(ready)

Numbers ==
  /\ ready # << >> => ready[1].sequence = expected
  /\ worker \in {"begin", "send", "send_timeout"} => current.sequence + 1 = expected
  /\ Len(log) = IF worker = "begin" THEN expected - 1 ELSE expected
  /\ ~ Ended => /\ sequence = expected + Len(ready) + Made
                /\ Made = 1 => making.sequence + 1 = sequence

Circulation ==
  ~ Ended =>
    /\ worker \in {"receive", "recv_timeout"} => Batches = 2
    /\ worker \in {"fill", "collect", "match"} => Batches = 2 \/ stop
    /\ worker \in {"begin", "send", "send_timeout"} => Batches = 1

(* The host batch that is prepared as batch n still has the keys of batch  *)
(* n - 2, the log's (n - 1)th, or none yet.                                *)
Spent(b, n) ==
  b.keys # NoBatch => n \in 2 .. Len(log) + 1 /\ b.keys = log[n - 1].keys

Recycled ==
  /\ ~ Ended =>
       /\ \A k \in 1 .. Len(recycle) :
            Spent(recycle[k], sequence + Preparing + k - 1)
       /\ producer = "prepare" => Spent(making, sequence)
  /\ worker \in {"send", "send_timeout"} => current.keys = log[expected].keys

(* Batches that are prepared and not begun.                                *)
InHand(b) ==
  \/ producer \in {"send", "send_timeout"} /\ b = making
  \/ ready # << >> /\ b = ready[1]
  \/ worker = "begin" /\ b = current

Prepared(b) ==
  /\ b.keys \in KeyBatch
  /\ b.resume => /\ b.sequence \in 2 .. Len(log) + 1
                 /\ b.keys = Advance(log[b.sequence - 1].keys)

Stamped(j, keys) ==
  \/ j \in 1 .. Len(log) /\ keys = log[j].keys
  \/ \E b \in PreparedBatch : InHand(b) /\ j = b.sequence + 1 /\ keys = b.keys

Descends(i, k, j, l) ==
  /\ i = j => k = l
  /\ i < j /\ k.fill = l.fill => k.step < l.step /\ (j - i) % 2 = 0

Lineage ==
  \A i, j \in Nat, k, l \in KeyBatch :
    Stamped(i, k) /\ Stamped(j, l) =>
      /\ i <= sequence /\ 3 <= k.fill /\ k.fill < fills
      /\ k.fill < i + 3 /\ k.step < i
      /\ Descends(i, k, j, l)

InTurn ==
  /\ Account
  /\ Outputs
  /\ Numbers
  /\ Circulation
  /\ Recycled
  /\ \A b \in PreparedBatch : InHand(b) => Prepared(b)
  /\ Lineage

IInv ==
  /\ TypeOK
  /\ Control
  /\ Backend
  /\ Late
  /\ NoKeyTwice
  /\ worker \in Looping => InTurn
-----------------------------------------------------------------------------
(* HostPipeline's Ring and RP, its proofs, are the same ring.              *)
LEMMA SameRing ==
  /\ Ring!Init <=> RP!Init
  /\ \A keys, count, resume :
       /\ Ring!BeginBatch(keys, count, resume) <=>
            RP!BeginBatch(keys, count, resume)
       /\ Ring!BeginFails(keys, count, resume) <=>
            RP!BeginFails(keys, count, resume)
  /\ Ring!BeginRefused <=> RP!BeginRefused
  /\ Ring!EndBatch <=> RP!EndBatch
  /\ Ring!Abandon <=> RP!Abandon
  /\ Ring!DropBackend <=> RP!DropBackend
  /\ \A i : /\ Ring!Execute(i) <=> RP!Execute(i)
            /\ Ring!DeviceFails(i) <=> RP!DeviceFails(i)
  /\ Ring!TypeOK <=> RP!TypeOK
  /\ Ring!Slot = RP!Slot
<1>1. Ring!Init <=> RP!Init
  BY DEF Ring!Advance, RP!Advance, Ring!EmptySlot, RP!EmptySlot, Ring!Fresh,
         RP!Fresh, Ring!Init, RP!Init, Ring!SelfTestCount, RP!SelfTestCount,
         Ring!SelfTestedSlot, RP!SelfTestedSlot, Ring!SelfTests, RP!SelfTests,
         Ring!Slot, RP!Slot, Ring!WholeChains, RP!WholeChains
<1>2. ASSUME NEW keys, NEW count, NEW resume
      PROVE  /\ Ring!BeginBatch(keys, count, resume) <=>
                  RP!BeginBatch(keys, count, resume)
             /\ Ring!BeginFails(keys, count, resume) <=>
                  RP!BeginFails(keys, count, resume)
  BY DEF Ring!At, RP!At, Ring!BeginAccepted, RP!BeginAccepted, Ring!BeginBatch,
         RP!BeginBatch, Ring!BeginFails, RP!BeginFails, Ring!CanStep,
         RP!CanStep, Ring!SlotAfterBegin, RP!SlotAfterBegin, Ring!SubmitAt,
         RP!SubmitAt, Ring!WholeChains, RP!WholeChains
<1>3. Ring!BeginRefused <=> RP!BeginRefused
  BY DEF Ring!At, RP!At, Ring!BeginAccepted, RP!BeginAccepted,
         Ring!BeginRefused, RP!BeginRefused, Ring!SubmitAt, RP!SubmitAt
<1>4. Ring!EndBatch <=> RP!EndBatch
  BY DEF Ring!AfterCollect, RP!AfterCollect, Ring!At, RP!At, Ring!Collected,
         RP!Collected, Ring!EndBatch, RP!EndBatch, Ring!EndOutcomes,
         RP!EndOutcomes
<1>5. Ring!Abandon <=> RP!Abandon
  BY DEF Ring!Abandon, RP!Abandon
<1>6. Ring!DropBackend <=> RP!DropBackend
  BY DEF Ring!DropBackend, RP!DropBackend, Ring!Slot, RP!Slot
<1>7. ASSUME NEW i
      PROVE  /\ Ring!Execute(i) <=> RP!Execute(i)
             /\ Ring!DeviceFails(i) <=> RP!DeviceFails(i)
  BY DEF Ring!Advance, RP!Advance, Ring!DeviceFails, RP!DeviceFails,
         Ring!Execute, RP!Execute, Ring!Source, RP!Source, Ring!StoredPoints,
         RP!StoredPoints, Ring!WholeChains, RP!WholeChains
<1>8. Ring!TypeOK <=> RP!TypeOK
  BY DEF Ring!Contents, RP!Contents, Ring!GpuSlot, RP!GpuSlot, Ring!KeptPoints,
         RP!KeptPoints, Ring!KeyBatch, RP!KeyBatch, Ring!Slot, RP!Slot,
         Ring!TypeOK, RP!TypeOK
<1>9. Ring!Slot = RP!Slot
  BY DEF Ring!Slot, RP!Slot
<1>. QED
  BY <1>1, <1>2, <1>3, <1>4, <1>5, <1>6, <1>7, <1>8, <1>9

LEMMA SameKeys ==
  /\ RP!KeyBatch = KeyBatch
  /\ Ring!Contents = KeyBatch \union {NoBatch}
  /\ \A keys : RP!Advance(keys) = Advance(keys)
  /\ RP!Contents = KeyBatch \union {NoBatch}
BY DEF RP!KeyBatch, KeyBatch, Ring!Contents, RP!Contents, Ring!KeyBatch,
       RP!Advance, Advance

LEMMA Constants ==
  /\ NumSlots = 2 /\ RP!Slot = {0, 1}
  /\ BatchSize \in Nat \ {0} /\ MaxBatches \in Nat \ {0}
  /\ NoBatch \notin PreparedBatch /\ NoBatch \notin KeyBatch
  /\ MaxFill \in Nat /\ MaxStep \in Nat
  /\ MaxFill >= MaxBatches + 3 /\ MaxStep >= MaxBatches
<1>1. NumSlots = 2 /\ NoBatch \notin KeyBatch /\ MaxFill \in Nat /\ MaxStep \in Nat
  BY PipelineAssumption DEF Ring!RingAssumption, Ring!KeyBatch, KeyBatch
<1>2. RP!Slot = {0, 1}
  BY <1>1 DEF RP!Slot
<1>. QED  BY <1>1, <1>2, PipelineAssumption

(* The ring's assumption holds of the pipeline's constants.                *)
LEMMA RingConstants == RP!RingAssumption
BY PipelineAssumption
   DEF Ring!RingAssumption, Ring!KeptPoints, Ring!KeyBatch, RP!RingAssumption,
       RP!KeptPoints, RP!KeyBatch

-----------------------------------------------------------------------------
(* Types.                                                                  *)
LEMMA BatchTypes ==
  ASSUME NEW S, NEW q \in Seq(S)
  PROVE  /\ Len(q) \in Nat
         /\ q # << >> => /\ Head(q) \in S /\ Head(q) = q[1] /\ Len(q) >= 1
                         /\ Tail(q) \in Seq(S) /\ Len(Tail(q)) = Len(q) - 1
                         /\ \A k \in 1 .. Len(q) - 1 : Tail(q)[k] = q[k + 1]
         /\ q = << >> <=> Len(q) = 0
         /\ \A e \in S : /\ Append(q, e) \in Seq(S)
                         /\ Len(Append(q, e)) = Len(q) + 1
                         /\ Append(q, e)[Len(q) + 1] = e
                         /\ \A k \in 1 .. Len(q) : Append(q, e)[k] = q[k]
<1>1. /\ Len(q) \in Nat
      /\ q # << >> => /\ Head(q) \in S /\ Head(q) = q[1] /\ Len(q) >= 1
                      /\ Tail(q) \in Seq(S) /\ Len(Tail(q)) = Len(q) - 1
      /\ q = << >> <=> Len(q) = 0
  OBVIOUS
<1>2. \A k \in 1 .. Len(q) - 1 : Tail(q)[k] = q[k + 1]
  OBVIOUS
<1>3. \A e \in S : /\ Append(q, e) \in Seq(S)
                   /\ Len(Append(q, e)) = Len(q) + 1
                   /\ Append(q, e)[Len(q) + 1] = e
                   /\ \A k \in 1 .. Len(q) : Append(q, e)[k] = q[k]
  OBVIOUS
<1>. QED  BY <1>1, <1>2, <1>3

LEMMA Elements ==
  ASSUME NEW S, NEW q \in Seq(S), NEW k \in 1 .. Len(q)
  PROVE  q[k] \in S
OBVIOUS

LEMMA ProducerLeaves ==
  ASSUME ProducerStep
  PROVE  UNCHANGED << worker, current, expected, completed, hit, failure, result,
                      log, slots, collect_at, pending, held, got, error, dropped >>
<1>1. UNCHANGED << workerVars, ringVars >>
  BY DEF ProducerStep, Seed, ProducerReceive, ProducerRecvTimeout, Prepare,
         ProducerSend, ProducerSendTimeout, ProducerExit, ProducerDrop
<1>. QED  BY <1>1 DEF workerVars, ringVars

LEMMA PreparedTypes ==
  ASSUME TypeOK, making \in PreparedBatch
  PROVE  /\ Refilled \in PreparedBatch /\ Refilled.keys = Fresh(fills)
         /\ Refilled.keys \in KeyBatch /\ ~ Refilled.resume
         /\ Refilled.sequence = sequence
         /\ ~ MustRefill => /\ Advanced \in PreparedBatch
                            /\ Advanced.keys = Advance(making.keys)
                            /\ making.keys \in KeyBatch
                            /\ Advanced.keys \in KeyBatch
                            /\ Advanced.sequence = sequence
<1>1. fills \in Nat /\ sequence \in Nat
  BY DEF TypeOK
<1>2. Fresh(fills) \in KeyBatch
  BY <1>1 DEF Fresh, KeyBatch
<1>3. making.keys \in KeyBatch \union {NoBatch}
  BY SameKeys DEF PreparedBatch
<1>4. ~ MustRefill => making.keys \in KeyBatch
  BY <1>3 DEF MustRefill
<1>5. making.keys \in KeyBatch => Advance(making.keys) \in KeyBatch
  BY DEF Advance, KeyBatch
<1>. QED  BY <1>1, <1>2, <1>4, <1>5, SameKeys DEF Refilled, Advanced, PreparedBatch

LEMMA ProducerTypes ==
  ASSUME TypeOK, Control, ProducerStep
  PROVE  TypeOK'
<1>1. /\ {stop, hit} \subseteq BOOLEAN
      /\ ready \in Seq(PreparedBatch) /\ Len(ready) <= 1
      /\ recycle \in Seq(PreparedBatch) /\ Len(recycle) <= 2
      /\ making \in PreparedBatch \union {NoBatch}
      /\ fills \in Nat /\ sequence \in Nat
  BY DEF TypeOK
<1>2. /\ stop' \in BOOLEAN
      /\ producer' \in {"seed", "receive", "recv_timeout", "prepare", "send",
                        "send_timeout", "exit", "drop", "done"}
      /\ produced' \in {"none", "ok", "error", "panic"}
  BY <1>1 DEF TypeOK, ProducerStep, Seed, ProducerReceive, ProducerRecvTimeout, Prepare,
         ProducerSend, ProducerSendTimeout, ProducerExit, ProducerDrop, ProducerEnds
<1>3. making \in PreparedBatch => /\ Refilled \in PreparedBatch
                                  /\ ~ MustRefill => Advanced \in PreparedBatch
  BY PreparedTypes
<1>4. producer = "prepare" => making \in PreparedBatch
  BY <1>1 DEF Control
<1>5. /\ making' \in PreparedBatch \union {NoBatch}
      /\ fills' \in Nat /\ sequence' \in Nat
  <2>1. \/ UNCHANGED << making, fills, sequence >>
        \/ making' = NoBatch /\ UNCHANGED << fills, sequence >>
        \/ /\ recycle # << >> /\ making' = Head(recycle)
           /\ UNCHANGED << fills, sequence >>
        \/ /\ producer = "prepare" /\ ~ MustRefill /\ making' = Advanced
           /\ fills' = fills /\ sequence' = sequence + 1
        \/ /\ producer = "prepare" /\ making' = Refilled
           /\ fills' = fills + 1 /\ sequence' = sequence + 1
    BY DEF ProducerStep, Seed, ProducerReceive, ProducerRecvTimeout, Prepare,
           ProducerSend, ProducerSendTimeout, ProducerExit, ProducerDrop, ProducerEnds
  <2>. QED  BY <1>1, <1>3, <1>4, <2>1, BatchTypes
<1>6. /\ ready' \in Seq(PreparedBatch) /\ Len(ready') <= 1
      /\ recycle' \in Seq(PreparedBatch) /\ Len(recycle') <= 2
  <2>1. \/ UNCHANGED << ready, recycle >>
        \/ recycle # << >> /\ recycle' = Tail(recycle) /\ ready' = ready
        \/ /\ producer = "send_timeout" /\ ready' = << making >>
           /\ recycle' = recycle
        \/ ready' = ready /\ recycle' = << >>
    BY DEF ProducerStep, Seed, ProducerReceive, ProducerRecvTimeout, Prepare,
           ProducerSend, ProducerSendTimeout, ProducerExit, ProducerDrop
  <2>2. producer = "send_timeout" => << making >> \in Seq(PreparedBatch)
    BY <1>1 DEF Control
  <2>3. recycle # << >> => Tail(recycle) \in Seq(PreparedBatch) /\ Len(Tail(recycle)) <= 2
    BY <1>1, BatchTypes
  <2>4. << >> \in Seq(PreparedBatch) /\ Len(<< >>) = 0 /\ Len(<< making >>) = 1
    OBVIOUS
  <2>5. ready' \in Seq(PreparedBatch) /\ Len(ready') <= 1
    <3>1. CASE ready' = ready
      BY <1>1, <3>1
    <3>2. CASE producer = "send_timeout" /\ ready' = << making >>
      BY <2>2, <2>4, <3>2
    <3>. QED  BY <2>1, <3>1, <3>2
  <2>6. recycle' \in Seq(PreparedBatch) /\ Len(recycle') <= 2
    <3>1. CASE recycle' = recycle
      BY <1>1, <3>1
    <3>2. CASE recycle # << >> /\ recycle' = Tail(recycle)
      BY <2>3, <3>2
    <3>3. CASE recycle' = << >>
      BY <2>4, <3>3
    <3>. QED  BY <2>1, <3>1, <3>2, <3>3
  <2>. QED  BY <2>5, <2>6
<1>7. Ring!TypeOK'
  <2>1. Ring!TypeOK
    BY DEF TypeOK
  <2>. QED  BY <2>1, ProducerLeaves DEF Ring!TypeOK
<1>. QED  BY <1>2, <1>5, <1>6, <1>7, ProducerLeaves DEF TypeOK

-----------------------------------------------------------------------------
(* The worker is a caller of the ring.                                     *)
LEMMA RingFacts ==
  ASSUME Backend, TypeOK
  PROVE  /\ slots \in [{0, 1} -> RP!GpuSlot] /\ collect_at \in {0, 1}
         /\ pending \in Nat /\ held \in Seq([keys : KeyBatch, count : Nat])
         /\ Len(held) \in Nat
         /\ error \in {"none", "device", "finished"} /\ dropped \in BOOLEAN
         /\ error = "none" =>
              /\ pending = Len(held) /\ pending \in 0 .. 2
              /\ \A k \in {0, 1} : k >= pending =>
                   slots[(collect_at + k) % 2].command = "none"
         /\ worker \in Looping \union {"drain"} => RP!Usable
<1>1. /\ RP!TypeOK /\ RP!OnlyDeviceErrors /\ RP!IInv /\ RP!SecretsOnlyInFlight
      /\ error = "none" => RP!Window
  BY DEF Backend, RP!IInv
<1>2. /\ slots \in [{0, 1} -> RP!GpuSlot] /\ collect_at \in {0, 1}
      /\ pending \in 0 .. 2 /\ held \in Seq([keys : KeyBatch, count : Nat])
      /\ dropped \in BOOLEAN
  <2>1. /\ slots \in [RP!Slot -> RP!GpuSlot] /\ collect_at \in RP!Slot
        /\ pending \in 0 .. NumSlots /\ held \in Seq([keys : RP!KeyBatch, count : Nat])
        /\ dropped \in BOOLEAN
    BY <1>1 DEF RP!TypeOK
  <2>. QED  BY <2>1, Constants, SameKeys
<1>3. Len(held) \in Nat
  BY <1>2
<1>4. error \in {"none", "device", "finished"}
  BY <1>1 DEF RP!OnlyDeviceErrors
<1>5. ASSUME error = "none"
      PROVE  /\ pending = Len(held)
             /\ \A k \in {0, 1} : k >= pending =>
                  slots[(collect_at + k) % 2].command = "none"
  <2>1. RP!Window
    BY <1>1, <1>5
  <2>2. /\ pending = Len(held)
        /\ \A k \in 0 .. NumSlots - 1 :
             ~ (k < pending) => slots[(collect_at + k) % NumSlots].command = "none"
    BY <2>1 DEF RP!Window, RP!At
  <2>3. \A k \in {0, 1} : k \in 0 .. NumSlots - 1
    BY Constants
  <2>. QED  BY <1>2, <2>2, <2>3, Constants
<1>6. worker \in Looping \union {"drain"} => RP!Usable
  <2>1. "released" \notin Looping \union {"drain"}
    BY DEF Looping
  <2>. QED  BY <2>1 DEF Backend, RP!Usable
<1>. QED  BY <1>2, <1>3, <1>4, <1>5, <1>6

(* What the ring asks of a batch to begin: it is one of the bounded        *)
(* caller's, and resumes only the keys that its slot has run last.         *)
LEMMA BatchToBegin ==
  ASSUME IInv, worker = "begin"
  PROVE  /\ current \in PreparedBatch /\ current.keys \in KeyBatch
         /\ current.keys \in RP!CallerBatch /\ current.resume \in BOOLEAN
         /\ current.sequence + 1 = expected /\ Len(log) = expected - 1
         /\ current.resume => RP!MayResume(current.keys)
         /\ RP!Usable /\ Len(held) < NumSlots
<1>1. /\ TypeOK /\ Control /\ Backend /\ Account /\ Outputs /\ Numbers /\ Lineage
      /\ \A b \in PreparedBatch : InHand(b) => Prepared(b)
  BY DEF IInv, InTurn, Looping
<1>2. /\ current \in PreparedBatch
      /\ current.sequence + 1 = expected /\ Len(log) = expected - 1
  <2>1. current \in PreparedBatch \union {NoBatch}
    BY <1>1 DEF TypeOK
  <2>. QED  BY <1>1, <2>1 DEF Control, Numbers
<1>3. /\ current.sequence \in Nat /\ current.resume \in BOOLEAN
      /\ expected \in Nat /\ completed \in Nat /\ Len(log) \in Nat
      /\ \A j \in 1 .. Len(log) : log[j].keys \in KeyBatch
  <2>1. /\ expected \in Nat /\ completed \in Nat
        /\ log \in Seq([keys : KeyBatch, late : BOOLEAN])
    BY <1>1 DEF TypeOK
  <2>2. Len(log) \in Nat
    BY <2>1
  <2>3. ASSUME NEW j \in 1 .. Len(log)
        PROVE  log[j].keys \in KeyBatch
    <3>1. log[j] \in [keys : KeyBatch, late : BOOLEAN]
      BY <2>1, Elements
    <3>. QED  BY <3>1
  <2>. QED  BY <1>2, <2>1, <2>2, <2>3 DEF PreparedBatch
<1>4. InHand(current) /\ Prepared(current)
  BY <1>1, <1>2 DEF InHand
<1>5. current.keys \in KeyBatch
  BY <1>4 DEF Prepared
<1>6. /\ RP!Usable /\ Len(held) < 2 /\ Len(held) \in Nat /\ pending = Len(held)
      /\ Len(log) = completed + Len(held) /\ completed < MaxBatches
      /\ collect_at = (completed + 1) % 2
  BY <1>1, RingFacts, Constants DEF Backend, Looping, Taking, Account, Outputs
<1>7. current.keys \in RP!CallerBatch
  <2>1. Stamped(current.sequence + 1, current.keys)
    BY <1>2, <1>4 DEF Stamped
  <2>2. /\ 3 <= current.keys.fill /\ current.keys.fill < current.sequence + 4
        /\ current.keys.step < current.sequence + 1
    BY <1>1, <1>3, <1>5, <2>1 DEF Lineage
  <2>3. current.sequence <= MaxBatches
    <3>1. MaxBatches \in Nat
      BY Constants
    <3>2. current.sequence = completed + Len(held)
      BY <1>2, <1>3, <1>6
    <3>. QED  BY <1>3, <1>6, <3>1, <3>2
  <2>4. current.keys.fill \in 3 .. MaxFill /\ current.keys.step \in 0 .. MaxStep
    BY <1>3, <1>5, <2>2, <2>3, Constants DEF KeyBatch
  <2>. QED  BY <1>5, <2>4 DEF KeyBatch, RP!CallerBatch
<1>8. ASSUME current.resume PROVE RP!MayResume(current.keys)
  <2>. DEFINE j == Len(log) - 1
  <2>1. /\ j \in 1 .. Len(log) /\ current.keys = Advance(log[j].keys)
    BY <1>2, <1>3, <1>4, <1>8 DEF Prepared
  <2>2. j \in 1 .. completed /\ j % 2 = (collect_at + pending) % 2
    <3>1. CASE Len(held) = 0
      BY <1>3, <1>6, <2>1, <3>1
    <3>2. CASE Len(held) = 1
      BY <1>3, <1>6, <2>1, <3>2
    <3>. QED  BY <1>6, <3>1, <3>2
  <2>3. RP!SubmitAt = j % 2
    BY <2>2, Constants DEF RP!SubmitAt, RP!At
  <2>4. slots[j % 2].output = log[j].keys
    BY <1>1, <1>3, <2>2 DEF Outputs
  <2>5. log[j].keys # NoBatch
    BY <1>3, <2>1, Constants
  <2>. QED  BY <2>1, <2>3, <2>4, <2>5, SameKeys DEF RP!MayResume
<1>. QED  BY <1>2, <1>3, <1>5, <1>6, <1>7, <1>8, Constants

LEMMA RingSteps == RP!IInv /\ [RP!Next]_RP!vars => RP!IInv'
BY RingConstants, RP!NextIInv

(* A Begin is accepted by the ring or fails on the device.                 *)
LEMMA BeginDoes ==
  ASSUME IInv, Begin
  PROVE  /\ RP!CallBegin
         /\ UNCHANGED << stop, ready, recycle, producerVars, current, expected,
                         completed, hit, result, collect_at, got, dropped >>
         /\ \/ /\ worker' = "send" /\ UNCHANGED << failure, error >>
               /\ log' = Append(log, [keys |-> current.keys, late |-> stop])
               /\ held' = Append(held, [keys |-> current.keys,
                                        count |-> BatchSize])
               /\ \A i \in {0, 1} : slots'[i].output = slots[i].output
            \/ /\ worker' = "exit" /\ failure' = "backend" /\ error' = "device"
               /\ UNCHANGED << log, held >>
<1>1. worker = "begin"
  BY DEF Begin
<1>2. /\ current.keys \in RP!CallerBatch /\ current.resume \in BOOLEAN
      /\ current.resume => RP!MayResume(current.keys)
      /\ RP!Usable /\ Len(held) < NumSlots
  BY <1>1, BatchToBegin
<1>3. RP!IInv /\ TypeOK /\ slots \in [{0, 1} -> RP!GpuSlot]
  BY RingFacts DEF IInv, Backend
<1>4. ~ RP!BeginRefused
  <2>1. RP!BeginAccepted
    BY <1>2, <1>3, RingConstants, RP!NeverRefused
  <2>. QED  BY <2>1 DEF RP!BeginRefused
<1>5. /\ UNCHANGED << stop, ready, recycle, producerVars, current, expected,
                      completed, hit, result >>
      /\ \/ /\ RP!BeginBatch(current.keys, BatchSize, current.resume)
            /\ log' = Append(log, [keys |-> current.keys, late |-> stop])
            /\ worker' = "send" /\ UNCHANGED failure
         \/ /\ RP!BeginFails(current.keys, BatchSize, current.resume)
            /\ worker' = "exit" /\ failure' = "backend" /\ UNCHANGED log
  BY <1>4, SameRing DEF Begin, WorkerFails
<1>6. RP!CallBegin
  BY <1>2, <1>5 DEF RP!CallBegin
<1>7. CASE /\ RP!BeginBatch(current.keys, BatchSize, current.resume)
           /\ log' = Append(log, [keys |-> current.keys, late |-> stop])
           /\ worker' = "send" /\ UNCHANGED failure
  <2>1. /\ held' = Append(held, [keys |-> current.keys, count |-> BatchSize])
        /\ UNCHANGED << collect_at, got, error, dropped >>
        /\ slots' = [slots EXCEPT ![RP!SubmitAt] =
                       RP!SlotAfterBegin(slots[RP!SubmitAt], current.keys,
                                         BatchSize, current.resume)]
    BY <1>7 DEF RP!BeginBatch
  <2>2. \A slot \in RP!GpuSlot :
          RP!SlotAfterBegin(slot, current.keys, BatchSize, current.resume).output
            = slot.output
    BY DEF RP!SlotAfterBegin, RP!GpuSlot
  <2>3. \A i \in {0, 1} : slots'[i].output = slots[i].output
    BY <1>3, <2>1, <2>2
  <2>. QED  BY <1>5, <1>6, <1>7, <2>1, <2>3
<1>8. CASE /\ RP!BeginFails(current.keys, BatchSize, current.resume)
           /\ worker' = "exit" /\ failure' = "backend" /\ UNCHANGED log
  <2>1. error' = "device" /\ UNCHANGED << collect_at, held, got, dropped >>
    BY <1>8 DEF RP!BeginFails
  <2>. QED  BY <1>5, <1>6, <1>8, <2>1
<1>. QED  BY <1>5, <1>7, <1>8

(* A call of end_batch, in the loop or while it drains.                    *)
LEMMA EndDoes ==
  ASSUME IInv, worker \in Looping \union {"drain"}, Ring!EndBatch
  PROVE  /\ RP!CallEnd
         /\ held # << >> /\ held' = Tail(held) /\ dropped' = dropped
         /\ \/ /\ error' = "none"
               /\ got' = [keys |-> held[1].keys, addresses |-> held[1].keys]
               /\ collect_at' = (collect_at + 1) % 2
               /\ \A i \in {0, 1} : slots'[i].output = slots[i].output
               /\ slots[collect_at].output = held[1].keys
            \/ error' = "device"
<1>1. /\ RP!Usable /\ RP!IInv /\ slots \in [{0, 1} -> RP!GpuSlot]
      /\ collect_at \in {0, 1} /\ held \in Seq([keys : KeyBatch, count : Nat])
  BY RingFacts DEF IInv, Backend
<1>2. RP!EndBatch
  BY SameRing
<1>3. /\ RP!CallEnd
      /\ held # << >> /\ held' = Tail(held) /\ dropped' = dropped
      /\ slots[collect_at].command # "queued"
  BY <1>1, <1>2 DEF RP!CallEnd, RP!EndBatch
<1>4. PICK outcome \in RP!EndOutcomes(slots[collect_at], Head(held)) :
        /\ error' = outcome
        /\ outcome = "none" =>
             /\ slots' = [slots EXCEPT ![collect_at] = RP!Collected(slots[collect_at])]
             /\ got' = [keys |-> Head(held).keys,
                        addresses |-> slots[collect_at].output]
             /\ collect_at' = RP!AfterCollect
  BY <1>2 DEF RP!EndBatch
<1>5. /\ outcome \in {"none", "device"}
      /\ outcome = "none" => slots[collect_at].output = Head(held).keys
  BY <1>1, <1>3, RingConstants, RP!EndOutcome
<1>6. Head(held) = held[1]
  BY <1>1, <1>3
<1>7. CASE outcome = "none"
  <2>1. \A slot \in RP!GpuSlot : RP!Collected(slot).output = slot.output
    BY DEF RP!Collected, RP!GpuSlot
  <2>2. \A i \in {0, 1} : slots'[i].output = slots[i].output
    BY <1>1, <1>4, <1>7, <2>1
  <2>3. collect_at' = (collect_at + 1) % 2
    BY <1>4, <1>7, Constants DEF RP!AfterCollect, RP!At
  <2>. QED  BY <1>3, <1>4, <1>5, <1>6, <1>7, <2>2, <2>3
<1>. QED  BY <1>3, <1>4, <1>5, <1>7

(* Every step of the pipeline is one of the ring, or leaves it alone.      *)
LEMMA StepsOfRing ==
  ASSUME IInv, [Next]_vars
  PROVE  [RP!Next]_RP!vars /\ RP!IInv'
<1>1. RP!IInv
  BY DEF IInv, Backend
<1>2. ASSUME UNCHANGED ringVars PROVE UNCHANGED RP!vars
  BY <1>2 DEF ringVars, RP!vars
<1>3. CASE ProducerStep
  <2>1. UNCHANGED ringVars
    BY <1>3, ProducerLeaves DEF ringVars
  <2>. QED  BY <1>1, <1>2, <2>1, RingSteps
<1>4. CASE Begin
  <2>1. RP!Next
    BY <1>4, BeginDoes DEF RP!Next
  <2>. QED  BY <1>1, <2>1, RingSteps
<1>5. CASE Collect \/ Drain
  <2>1. worker \in Looping \union {"drain"}
    BY <1>5 DEF Collect, Drain, Looping
  <2>2. CASE Ring!EndBatch
    <3>1. RP!Next
      BY <2>1, <2>2, EndDoes DEF RP!Next
    <3>. QED  BY <1>1, <3>1, RingSteps
  <2>3. CASE UNCHANGED ringVars
    BY <1>1, <1>2, <2>3, RingSteps
  <2>. QED  BY <1>5, <2>2, <2>3 DEF Collect, Drain
<1>6. CASE Exit
  <2>1. RP!Next
    BY <1>6, SameRing DEF Exit, RP!Next
  <2>. QED  BY <1>1, <2>1, RingSteps
<1>7. CASE Release
  <2>1. RP!Next
    BY <1>7, SameRing DEF Release, RP!Next
  <2>. QED  BY <1>1, <2>1, RingSteps
<1>8. CASE Device
  <2>1. RP!Next
    BY <1>8, SameRing DEF Device, RP!Next
  <2>. QED  BY <1>1, <2>1, RingSteps
<1>9. CASE \/ Fill \/ Receive \/ RecvTimeout \/ Send \/ SendTimeout \/ Match
           \/ Drop \/ Join \/ Cancel \/ UNCHANGED vars
  <2>1. UNCHANGED ringVars
    BY <1>9 DEF Fill, Receive, RecvTimeout, Send, SendTimeout, Match, Drop, Join,
                Cancel, vars
  <2>. QED  BY <1>1, <1>2, <2>1, RingSteps
<1>. QED  BY <1>3, <1>4, <1>5, <1>6, <1>7, <1>8, <1>9
          DEF Next, WorkerStep, Terminated

LEMMA WorkerLeaves ==
  ASSUME WorkerStep
  PROVE  UNCHANGED << producer, making, fills, sequence, produced >>
<1>1. UNCHANGED producerVars
  BY DEF WorkerStep, Fill, Receive, RecvTimeout, Begin, Send, SendTimeout, Collect,
         Match, Drain, Exit, Drop, Join, Release
<1>. QED  BY <1>1 DEF producerVars

LEMMA RingTypesNext == RP!IInv' => Ring!TypeOK'
BY DEF RP!IInv, Ring!Contents, RP!Contents, Ring!GpuSlot, RP!GpuSlot, Ring!KeptPoints,
       RP!KeptPoints, Ring!KeyBatch, RP!KeyBatch, Ring!Slot, RP!Slot,
       Ring!TypeOK, RP!TypeOK

LEMMA WorkerTypes ==
  ASSUME IInv, WorkerStep
  PROVE  TypeOK'
<1>1. /\ {stop, hit} \subseteq BOOLEAN
      /\ ready \in Seq(PreparedBatch) /\ Len(ready) <= 1
      /\ recycle \in Seq(PreparedBatch) /\ Len(recycle) <= 2
      /\ current \in PreparedBatch \union {NoBatch}
      /\ expected \in Nat /\ completed \in Nat
      /\ log \in Seq([keys : KeyBatch, late : BOOLEAN])
  BY DEF IInv, TypeOK
<1>2. /\ stop' \in BOOLEAN /\ hit' \in BOOLEAN
      /\ worker' \in {"fill", "receive", "recv_timeout", "begin", "send",
                      "send_timeout", "collect", "match", "drain", "exit", "drop",
                      "join", "done", "released"}
      /\ failure' \in {"none", "batch not recycled", "order mismatch",
                       "source disconnected", "consumer disconnected", "backend",
                       "verify", "panic"}
      /\ result' \in {"none", "hit", "error", "panic"}
      /\ expected' \in Nat /\ completed' \in Nat
  <2>1. TypeOK
    BY DEF IInv
  <2>2. CASE Begin
    BY <1>1, <2>1, <2>2 DEF TypeOK, Begin, WorkerFails
  <2>3. CASE Fill \/ Receive
    BY <1>1, <2>1, <2>3 DEF TypeOK, Fill, Receive, WorkerFails
  <2>4. CASE Send \/ SendTimeout
    BY <1>1, <2>1, <2>4 DEF TypeOK, Send, SendTimeout, WorkerFails
  <2>7. CASE RecvTimeout
    <3>1. /\ expected' \in {expected, expected + 1}
          /\ worker' \in {"begin", "exit", "receive", "collect"}
          /\ failure' \in {failure, "order mismatch", "source disconnected"}
          /\ UNCHANGED << stop, hit, completed, result >>
      BY <2>7 DEF RecvTimeout, WorkerFails
    <3>2. expected' \in Nat
      <4>1. expected + 1 \in Nat
        BY <1>1
      <4>. QED  BY <1>1, <3>1, <4>1
    <3>3. /\ stop \in BOOLEAN /\ hit \in BOOLEAN /\ completed \in Nat
          /\ result \in {"none", "hit", "error", "panic"}
          /\ failure \in {"none", "batch not recycled", "order mismatch",
                          "source disconnected", "consumer disconnected", "backend",
                          "verify", "panic"}
      BY <2>1 DEF TypeOK
    <3>. QED  BY <3>1, <3>2, <3>3
  <2>8. CASE Collect
    <3>1. completed + 1 \in Nat
      BY <1>1
    <3>. QED  BY <1>1, <2>1, <2>8, <3>1 DEF TypeOK, Collect, WorkerFails
  <2>5. CASE Match \/ Drain \/ Exit
    BY <1>1, <2>1, <2>5 DEF TypeOK, Match, Drain, Exit, WorkerFails
  <2>6. CASE Drop \/ Join \/ Release
    BY <1>1, <2>1, <2>6 DEF TypeOK, Drop, Join, Release, Return
  <2>. QED  BY <2>2, <2>3, <2>4, <2>5, <2>6, <2>7, <2>8 DEF WorkerStep
<1>3. /\ ready' \in Seq(PreparedBatch) /\ Len(ready') <= 1
      /\ current' \in PreparedBatch \union {NoBatch}
      /\ recycle' \in Seq(PreparedBatch) /\ Len(recycle') <= 2
  <2>1. /\ \/ UNCHANGED << ready, current, recycle >>
           \/ /\ ready # << >> /\ current' = Head(ready) /\ ready' = Tail(ready)
              /\ recycle' = recycle
           \/ /\ worker = "send_timeout" /\ Len(recycle) < 2
              /\ recycle' = Append(recycle, current) /\ current' = NoBatch
              /\ ready' = ready
           \/ current' = NoBatch /\ UNCHANGED << ready, recycle >>
           \/ current' = NoBatch /\ ready' = << >> /\ recycle' = recycle
    BY DEF WorkerStep, Fill, Receive, RecvTimeout, Begin, Send, SendTimeout, Collect,
           Match, Drain, Exit, Drop, Join, Release
  <2>2. worker = "send_timeout" => current \in PreparedBatch
    BY <1>1 DEF IInv, Control
  <2>3. << >> \in Seq(PreparedBatch) /\ Len(<< >>) = 0
    OBVIOUS
  <2>4. CASE UNCHANGED << ready, current, recycle >>
    BY <1>1, <2>4
  <2>5. CASE /\ ready # << >> /\ current' = Head(ready) /\ ready' = Tail(ready)
             /\ recycle' = recycle
    <3>1. /\ Head(ready) \in PreparedBatch /\ Tail(ready) \in Seq(PreparedBatch)
          /\ Len(Tail(ready)) <= 1
      BY <1>1, <2>5, BatchTypes
    <3>. QED  BY <1>1, <2>5, <3>1
  <2>6. CASE /\ worker = "send_timeout" /\ Len(recycle) < 2
             /\ recycle' = Append(recycle, current) /\ current' = NoBatch
             /\ ready' = ready
    <3>1. /\ Append(recycle, current) \in Seq(PreparedBatch)
          /\ Len(Append(recycle, current)) <= 2
      BY <1>1, <2>2, <2>6, BatchTypes
    <3>. QED  BY <1>1, <2>6, <3>1
  <2>7. CASE current' = NoBatch /\ UNCHANGED << ready, recycle >>
    BY <1>1, <2>7
  <2>8. CASE current' = NoBatch /\ ready' = << >> /\ recycle' = recycle
    BY <1>1, <2>3, <2>8
  <2>. QED  BY <2>1, <2>4, <2>5, <2>6, <2>7, <2>8
<1>4. log' \in Seq([keys : KeyBatch, late : BOOLEAN])
  <2>1. CASE Begin
    <3>1. current.keys \in KeyBatch
      BY <2>1, BatchToBegin DEF Begin
    <3>2. [keys |-> current.keys, late |-> stop] \in [keys : KeyBatch, late : BOOLEAN]
      BY <1>1, <3>1
    <3>3. log' = log \/ log' = Append(log, [keys |-> current.keys, late |-> stop])
      BY <2>1 DEF Begin
    <3>4. Append(log, [keys |-> current.keys, late |-> stop])
            \in Seq([keys : KeyBatch, late : BOOLEAN])
      BY <1>1, <3>2, BatchTypes
    <3>. QED  BY <1>1, <3>3, <3>4
  <2>2. CASE ~ Begin
    <3>1. log' = log
      BY <2>2 DEF WorkerStep, Fill, Receive, RecvTimeout, Send, SendTimeout, Collect,
                  Match, Drain, Exit, Drop, Join, Release
    <3>. QED  BY <1>1, <3>1
  <2>. QED  BY <2>1, <2>2
<1>5. Ring!TypeOK'
  <2>1. RP!IInv'
    BY StepsOfRing DEF Next
  <2>. QED  BY <2>1, RingTypesNext
<1>6. /\ making' \in PreparedBatch \union {NoBatch} /\ fills' \in Nat /\ sequence' \in Nat
      /\ producer' \in {"seed", "receive", "recv_timeout", "prepare", "send",
                        "send_timeout", "exit", "drop", "done"}
      /\ produced' \in {"none", "ok", "error", "panic"}
  BY WorkerLeaves DEF IInv, TypeOK
<1>. QED  BY <1>2, <1>3, <1>4, <1>5, <1>6 DEF TypeOK

-----------------------------------------------------------------------------
(* What the two threads know of each other.                                *)
LEMMA ProducerControl ==
  ASSUME IInv, ProducerStep
  PROVE  Control'
<1>1. /\ TypeOK /\ Control
      /\ UNCHANGED << worker, current, expected, completed, hit, failure, result, log >>
      /\ fills \in Nat /\ sequence \in Nat
      /\ making \in PreparedBatch \union {NoBatch}
      /\ recycle \in Seq(PreparedBatch)
  BY ProducerLeaves DEF IInv, TypeOK
<1>2. /\ worker' \in {"drop", "join", "done", "released"} => stop'
      /\ producer' \in {"drop", "done"} => stop'
      /\ producer' = "done" => recycle' = << >>
      /\ WorkerGone' => ready' = << >> /\ current' = NoBatch
      /\ worker' \in {"begin", "send", "send_timeout"} => current' # NoBatch
      /\ worker' \in Looping \ {"begin", "send", "send_timeout"} =>
           current' = NoBatch
  BY <1>1 DEF Control, WorkerGone, ProducerStep, Seed, ProducerReceive,
     ProducerRecvTimeout, Prepare, ProducerSend, ProducerSendTimeout, ProducerExit,
     ProducerDrop, ProducerEnds
<1>3. making' # NoBatch <=> producer' \in {"prepare", "send", "send_timeout"}
  <2>1. CASE Prepare
    <3>1. making \in PreparedBatch
      BY <1>1, <2>1 DEF Prepare, Control
    <3>2. Refilled \in PreparedBatch /\ (~ MustRefill => Advanced \in PreparedBatch)
      BY <1>1, <3>1, PreparedTypes
    <3>. QED  BY <2>1, <3>2, Constants DEF Prepare, ProducerEnds
  <2>2. CASE ProducerRecvTimeout
    <3>1. recycle # << >> => Head(recycle) # NoBatch
      BY <1>1, Constants, BatchTypes
    <3>. QED  BY <1>1, <2>2, <3>1 DEF Control, ProducerRecvTimeout, ProducerEnds
  <2>3. CASE ~ Prepare /\ ~ ProducerRecvTimeout
    BY <1>1, <2>3 DEF Control, ProducerStep, Seed, ProducerReceive, ProducerSend,
       ProducerSendTimeout, ProducerExit, ProducerDrop, ProducerEnds
  <2>. QED  BY <2>1, <2>2, <2>3
<1>4. ~ Ended' => produced' = "none"
  BY <1>1 DEF Control, Ended, ProducerStep, Seed, ProducerReceive, ProducerRecvTimeout,
     Prepare, ProducerSend, ProducerSendTimeout, ProducerExit, ProducerDrop,
     ProducerEnds
<1>5. /\ produced' = "error" \/ producer' = "seed" => sequence' = 0
      /\ 3 <= fills' /\ fills' <= sequence' + 3
  <2>1. CASE Prepare
    <3>1. produced = "none"
      BY <1>1, <2>1 DEF Prepare, Control, Ended
    <3>2. /\ produced' \in {"none", "ok", "panic"} /\ producer' # "seed"
          /\ \/ fills' = fills /\ sequence' = sequence
             \/ fills' = fills /\ sequence' = sequence + 1
             \/ fills' = fills + 1 /\ sequence' = sequence + 1
      BY <2>1, <3>1 DEF Prepare, ProducerEnds
    <3>3. 3 <= fills /\ fills <= sequence + 3
      BY <1>1 DEF Control
    <3>. QED  BY <1>1, <3>2, <3>3
  <2>2. CASE ~ Prepare
    <3>1. fills' = fills /\ sequence' = sequence /\ producer' # "seed"
      BY <2>2 DEF ProducerStep, Seed, ProducerReceive, ProducerRecvTimeout, ProducerSend,
         ProducerSendTimeout, ProducerExit, ProducerDrop, ProducerEnds
    <3>2. produced' = "error" => produced = "error" \/ producer = "seed"
      BY <1>1, <2>2 DEF Control, WorkerGone, ProducerStep, Seed, ProducerReceive,
         ProducerRecvTimeout, ProducerSend, ProducerSendTimeout, ProducerExit,
         ProducerDrop, ProducerEnds
    <3>. QED  BY <1>1, <3>1, <3>2 DEF Control
  <2>. QED  BY <2>1, <2>2
<1>6. worker' \in {"done", "released"} => producer' = "done" /\ result' = Return'
  <2>. SUFFICES ASSUME worker' \in {"done", "released"}
                PROVE  producer' = "done" /\ result' = Return'
    OBVIOUS
  <2>1. producer = "done"
    BY <1>1 DEF Control
  <2>. QED
    BY <2>1 DEF ProducerStep, Seed, ProducerReceive, ProducerRecvTimeout, Prepare,
       ProducerSend, ProducerSendTimeout, ProducerExit, ProducerDrop
<1>. QED  BY <1>2, <1>3, <1>4, <1>5, <1>6 DEF Control

(* The worker: what it finds wrong in the pipeline cannot happen.          *)
LEMMA WorkerSound ==
  ASSUME IInv
  PROVE  /\ worker = "receive" => current = NoBatch
         /\ worker = "recv_timeout" /\ ready # << >> =>
              /\ Head(ready).sequence = expected /\ Head(ready) \in PreparedBatch
              /\ Head(ready) = ready[1]
         /\ ProducerGone => stop
         /\ WorkerGone => stop
<1>1. TypeOK /\ Control
  BY DEF IInv
<1>2. ready \in Seq(PreparedBatch)
  BY <1>1 DEF TypeOK
<1>3. worker = "recv_timeout" /\ ready # << >> =>
              /\ Head(ready).sequence = expected /\ Head(ready) \in PreparedBatch
              /\ Head(ready) = ready[1]
  <2>1. worker = "recv_timeout" => Numbers
    BY DEF IInv, InTurn, Looping
  <2>2. ready # << >> => Head(ready) \in PreparedBatch /\ Head(ready) = ready[1]
    BY <1>2, BatchTypes
  <2>. QED  BY <2>1, <2>2 DEF Numbers
<1>. QED  BY <1>1, <1>3 DEF Control, Looping, ProducerGone, WorkerGone

LEMMA WorkerControl ==
  ASSUME IInv, WorkerStep
  PROVE  Control'
<1>1. /\ TypeOK /\ Control
      /\ UNCHANGED << producer, making, fills, sequence, produced >>
      /\ NoBatch \notin PreparedBatch
  BY WorkerLeaves, Constants DEF IInv
<1>2. /\ worker = "recv_timeout" /\ ready # << >> => Head(ready) # NoBatch
      /\ worker = "begin" => current # NoBatch
      /\ stop \in BOOLEAN /\ (stop => stop')
  <2>1. stop => stop'
    BY DEF WorkerStep, Fill, Receive, RecvTimeout, Begin, Send, SendTimeout, Collect,
           Match, Drain, Exit, Drop, Join, Release
  <2>2. stop \in BOOLEAN
    BY <1>1 DEF TypeOK
  <2>. QED  BY <1>1, <2>1, <2>2, WorkerSound DEF Control
<1>3. /\ worker' \in {"drop", "join", "done", "released"} => stop'
      /\ WorkerGone' => ready' = << >> /\ current' = NoBatch
      /\ worker' \in {"begin", "send", "send_timeout"} => current' # NoBatch
      /\ worker' \in Looping \ {"begin", "send", "send_timeout"} =>
           current' = NoBatch
      /\ producer' = "done" => recycle' = << >>
  <2>1. CASE Fill \/ Receive \/ Begin \/ Send
    BY <1>1, <1>2, <2>1
       DEF Control, WorkerGone, Looping, Fill, Receive, Begin, Send, WorkerFails
  <2>2. CASE RecvTimeout
    BY <1>1, <1>2, <2>2
       DEF Control, WorkerGone, Looping, RecvTimeout, WorkerFails
  <2>3. CASE SendTimeout
    BY <1>1, <1>2, <2>3
       DEF Control, WorkerGone, ProducerGone, Looping, SendTimeout, WorkerFails
  <2>4. CASE Collect \/ Match \/ Drain
    BY <1>1, <1>2, <2>4
       DEF Control, WorkerGone, Looping, Collect, Match, Drain, WorkerFails
  <2>5. CASE Exit \/ Drop \/ Join \/ Release
    BY <1>1, <1>2, <2>5
       DEF Control, WorkerGone, Looping, Exit, Drop, Join, Release, WorkerFails
  <2>. QED  BY <2>1, <2>2, <2>3, <2>4, <2>5 DEF WorkerStep
<1>4. worker' \in {"done", "released"} => producer' = "done" /\ result' = Return'
  <2>1. CASE Join
    BY <1>1, <2>1 DEF Join, Return
  <2>2. CASE Release
    <3>1. UNCHANGED << hit, failure, result >> /\ worker = "done"
      BY <2>2 DEF Release
    <3>. QED  BY <1>1, <3>1 DEF Control, Return
  <2>3. CASE ~ Join /\ ~ Release
    BY <2>3 DEF WorkerStep, Fill, Receive, RecvTimeout, Begin, Send, SendTimeout,
       Collect, Match, Drain, Exit, Drop, WorkerFails
  <2>. QED  BY <2>1, <2>2, <2>3
<1>5. Ended' = Ended
  BY <1>1 DEF Ended
<1>6. producer \in {"drop", "done"} => stop'
  BY <1>1, <1>2 DEF Control
<1>. QED  BY <1>1, <1>3, <1>4, <1>5, <1>6 DEF Control

(* What the worker's steps do to its side of the ring.                     *)
LEMMA WorkerBackend ==
  ASSUME IInv, WorkerStep
  PROVE  Backend'
<1>1. /\ TypeOK /\ Control /\ Backend /\ RP!IInv' /\ NumSlots = 2
      /\ held \in Seq([keys : KeyBatch, count : Nat]) /\ Len(held) \in Nat
      /\ worker \in Looping \union {"drain"} =>
           error = "none" /\ failure = "none" /\ dropped = FALSE
      /\ dropped \in BOOLEAN
  BY StepsOfRing, RingFacts, Constants DEF IInv, Next, Backend, RP!Usable
<1>2. CASE Fill \/ Receive \/ RecvTimeout \/ Send \/ SendTimeout \/ Match
  <2>1. worker \in Looping /\ worker \notin {"drain"}
    BY <1>2 DEF Fill, Receive, RecvTimeout, Send, SendTimeout, Match, Looping
  <2>2. UNCHANGED << slots, pending, held, error, dropped >>
    <3>1. UNCHANGED ringVars
      BY <1>2 DEF Fill, Receive, RecvTimeout, Send, SendTimeout, Match
    <3>. QED  BY <3>1 DEF ringVars
  <2>3. \/ failure' = "none" /\ worker' \in Looping \union {"drain"}
        \/ failure' \in {"verify", "panic"} /\ worker' = "exit"
    <3>1. CASE Fill \/ Send \/ Receive
      BY <1>1, <2>1, <3>1, WorkerSound
         DEF Fill, Send, Receive, Looping, WorkerFails
    <3>2. CASE RecvTimeout
      BY <1>1, <2>1, <3>2, WorkerSound DEF RecvTimeout, Looping, WorkerFails
    <3>3. CASE SendTimeout
      BY <1>1, <2>1, <3>3, WorkerSound DEF SendTimeout, Looping, WorkerFails
    <3>4. CASE Match
      BY <1>1, <2>1, <3>4 DEF Match, Looping, WorkerFails
    <3>. QED  BY <1>2, <3>1, <3>2, <3>3, <3>4
  <2>4. worker' \in Taking => Len(held) < NumSlots
    BY <1>1, <1>2 DEF Fill, Receive, RecvTimeout, Send, SendTimeout, Match, Taking,
                      WorkerFails, Backend
  <2>5. /\ worker' \notin {"drop", "join", "done", "released"}
        /\ worker # "released"
        /\ worker' = "exit" => failure' # "none" /\ worker' \notin Looping
    BY <2>1, <2>3 DEF Looping
  <2>6. failure' \in {"none", "verify", "panic"}
    BY <2>3
  <2>. QED  BY <1>1, <2>1, <2>2, <2>3, <2>4, <2>5, <2>6 DEF Backend
<1>3. CASE Begin
  <2>1. worker \in Looping
    BY <1>3 DEF Begin, Looping
  <2>2. \/ worker' = "send" /\ UNCHANGED << failure, error, dropped >>
        \/ worker' = "exit" /\ failure' = "backend" /\ error' = "device"
           /\ UNCHANGED dropped
    BY <1>3, BeginDoes
  <2>. QED  BY <1>1, <2>1, <2>2 DEF Backend, Looping, Taking
<1>4. CASE Collect
  <2>1. worker = "collect" /\ worker \in Looping
    BY <1>4 DEF Collect, Looping
  <2>2. \/ worker' = "drain" /\ UNCHANGED << failure, error, dropped >>
        \/ worker' = "match" /\ error' = "none" /\ UNCHANGED << failure, dropped >>
        \/ worker' = "exit" /\ failure' = "backend" /\ error' = "device"
           /\ UNCHANGED dropped
    <3>1. CASE held = << >>
      <4>1. worker' = "drain" /\ failure' = failure /\ UNCHANGED ringVars
        BY <1>4, <3>1 DEF Collect
      <4>. QED  BY <4>1 DEF ringVars
    <3>2. CASE held # << >>
      <4>1. /\ Ring!EndBatch
            /\ IF error' = "none" THEN worker' = "match" /\ UNCHANGED failure
                                  ELSE worker' = "exit" /\ failure' = "backend"
        BY <1>4, <3>2 DEF Collect, WorkerFails
      <4>2. dropped' = dropped /\ error' \in {"none", "device"}
        BY <2>1, <4>1, EndDoes
      <4>. QED  BY <4>1, <4>2
    <3>. QED  BY <3>1, <3>2
  <2>. QED  BY <1>1, <2>1, <2>2 DEF Backend, Looping, Taking
<1>5. CASE Drain
  <2>1. worker = "drain"
    BY <1>5 DEF Drain
  <2>2. CASE held = << >>
    <3>1. /\ worker' = "exit" /\ failure' = failure
          /\ UNCHANGED << slots, collect_at, pending, held, got, error, dropped >>
      BY <1>5, <2>2 DEF Drain, ringVars
    <3>2. /\ pending = 0 /\ slots \in [{0, 1} -> RP!GpuSlot]
          /\ collect_at \in {0, 1}
          /\ \A k \in {0, 1} : slots[(collect_at + k) % 2].command = "none"
      BY <1>1, <2>1, <2>2, RingFacts
    <3>3. \A i \in RP!Slot : slots[i].command = "none"
      BY <3>2, Constants
    <3>4. \A i \in RP!Slot : slots[i].input = NoBatch
      BY <1>1, <2>1, <3>3 DEF Backend, RP!IInv, RP!SecretsOnlyInFlight
    <3>. QED  BY <1>1, <2>1, <3>1, <3>2, <3>3, <3>4 DEF Backend, Looping, Taking
  <2>3. CASE held # << >>
    <3>1. /\ Ring!EndBatch
          /\ IF error' = "none" THEN UNCHANGED << worker, failure >>
                                ELSE worker' = "exit" /\ failure' = "backend"
      BY <1>5, <2>3 DEF Drain, WorkerFails
    <3>2. dropped' = dropped /\ error' \in {"none", "device"}
      BY <2>1, <3>1, EndDoes
    <3>. QED  BY <1>1, <2>1, <3>1, <3>2 DEF Backend, Looping, Taking
  <2>. QED  BY <2>2, <2>3
<1>6. CASE Exit
  <2>1. /\ worker = "exit" /\ worker' = "drop" /\ failure' = failure
        /\ UNCHANGED << slots, pending, dropped >> /\ held' = << >>
        /\ error' = IF error = "none" THEN "finished" ELSE error
    BY <1>6, SameRing DEF Exit, RP!Abandon
  <2>. QED  BY <1>1, <2>1 DEF Backend, Looping, Taking
<1>7. CASE Drop \/ Join
  <2>1. /\ worker \in {"drop", "join"} /\ worker' \in {"join", "done"}
        /\ failure' = failure
        /\ UNCHANGED << slots, pending, held, error, dropped >>
    BY <1>7 DEF Drop, Join, ringVars
  <2>. QED  BY <1>1, <2>1 DEF Backend, Looping, Taking
<1>8. CASE Release
  <2>1. /\ worker = "done" /\ worker' = "released" /\ failure' = failure
        /\ UNCHANGED << pending, held, error >> /\ dropped' = TRUE
    BY <1>8, SameRing DEF Release, RP!DropBackend
  <2>. QED  BY <1>1, <2>1 DEF Backend, Looping, Taking
<1>. QED  BY <1>2, <1>3, <1>4, <1>5, <1>6, <1>7, <1>8 DEF WorkerStep

LEMMA DeviceDoes ==
  ASSUME IInv, Device
  PROVE  /\ UNCHANGED << stop, ready, recycle, producerVars, workerVars >>
         /\ UNCHANGED << collect_at, pending, held, got, error, dropped >>
         /\ \E i \in RP!Slot :
              /\ slots[i].command = "queued"
              /\ \A k \in RP!Slot \ {i} : slots'[k] = slots[k]
<1>1. PICK i \in RP!Slot : RP!Execute(i) \/ RP!DeviceFails(i)
  BY SameRing DEF Device
<1>2. /\ UNCHANGED << collect_at, pending, held, got, error, dropped >>
      /\ slots[i].command = "queued"
  BY <1>1 DEF RP!Execute, RP!DeviceFails
<1>3. slots \in [RP!Slot -> RP!GpuSlot]
  BY DEF IInv, Backend, RP!IInv, RP!TypeOK
<1>4. \A k \in RP!Slot \ {i} : slots'[k] = slots[k]
  BY <1>1, <1>3 DEF RP!Execute, RP!DeviceFails
<1>. QED  BY <1>2, <1>4 DEF Device

LEMMA OthersBackend ==
  ASSUME IInv, ProducerStep \/ Device \/ Cancel \/ UNCHANGED vars
  PROVE  Backend'
<1>1. Backend /\ RP!IInv'
  BY StepsOfRing DEF IInv, Next
<1>2. CASE ProducerStep \/ Cancel \/ UNCHANGED vars
  <2>1. /\ UNCHANGED << worker, failure >>
        /\ UNCHANGED << slots, pending, held, error, dropped >>
    BY <1>2, ProducerLeaves DEF Cancel, vars, workerVars, ringVars
  <2>. QED  BY <1>1, <2>1 DEF Backend
<1>3. CASE Device
  <2>1. /\ UNCHANGED << worker, failure >>
        /\ UNCHANGED << pending, held, error, dropped >>
    BY <1>3, DeviceDoes DEF workerVars
  <2>2. PICK i \in RP!Slot : /\ slots[i].command = "queued"
                             /\ \A k \in RP!Slot \ {i} : slots'[k] = slots[k]
    BY <1>3, DeviceDoes
  <2>3. failure = "none" /\ worker \in {"exit", "drop", "join", "done"} => FALSE
    BY <1>1, <2>2 DEF Backend
  <2>. QED  BY <1>1, <2>1, <2>3 DEF Backend
<1>. QED  BY <1>2, <1>3

(* A batch begun after stop was set is the last one begun.                 *)
LEMMA LateNext ==
  ASSUME IInv, [Next]_vars
  PROVE  Late'
<1>1. /\ Late /\ Len(log) \in Nat /\ stop \in BOOLEAN
      /\ log \in Seq([keys : KeyBatch, late : BOOLEAN])
  <2>1. log \in Seq([keys : KeyBatch, late : BOOLEAN]) /\ Late /\ stop \in BOOLEAN
    BY DEF IInv, TypeOK
  <2>. QED  BY <2>1
<1>2. stop => stop'
  BY DEF Next, ProducerStep, Seed, ProducerReceive, ProducerRecvTimeout, Prepare,
     ProducerSend, ProducerSendTimeout, ProducerExit, ProducerDrop, WorkerStep, Fill,
     Receive, RecvTimeout, Begin, Send, SendTimeout, Collect, Match, Drain, Exit,
     Drop, Join, Release, Device, Cancel, Terminated, vars
<1>3. CASE Begin /\ worker' = "send"
  <2>1. /\ log' = Append(log, [keys |-> current.keys, late |-> stop]) /\ stop' = stop
        /\ worker = "begin"
    BY <1>3, BeginDoes DEF Begin
  <2>2. \A i \in 1 .. Len(log) : ~ log[i].late
    BY <1>1, <2>1 DEF Late, Taking
  <2>3. [keys |-> current.keys, late |-> stop] \in [keys : KeyBatch, late : BOOLEAN]
    BY <1>1, <2>1, BatchToBegin
  <2>4. /\ Len(log') = Len(log) + 1
        /\ log'[Len(log) + 1] = [keys |-> current.keys, late |-> stop]
        /\ \A k \in 1 .. Len(log) : log'[k] = log[k]
    BY <1>1, <2>1, <2>3, BatchTypes
  <2>5. \A i \in 1 .. Len(log') : log'[i].late => i = Len(log) + 1 /\ stop
    BY <1>1, <2>2, <2>4
  <2>6. worker' \notin Taking
    BY <1>3 DEF Taking
  <2>. QED  BY <2>1, <2>5, <2>6 DEF Late, OneBeginAfterStop
<1>4. CASE ~ (Begin /\ worker' = "send")
  <2>1. log' = log
    <3>1. CASE Begin
      BY <1>4, <3>1, BeginDoes
    <3>2. CASE WorkerStep /\ ~ Begin
      BY <3>2 DEF WorkerStep, Fill, Receive, RecvTimeout, Send, SendTimeout, Collect,
         Match, Drain, Exit, Drop, Join, Release
    <3>3. CASE ProducerStep
      BY <3>3, ProducerLeaves
    <3>4. CASE Device \/ Cancel \/ UNCHANGED vars
      BY <3>4 DEF Device, Cancel, vars, workerVars
    <3>. QED  BY <3>1, <3>2, <3>3, <3>4 DEF Next, Terminated
  <2>2. worker' \in Taking => worker \in Taking \/ ~ stop
    <3>1. CASE Begin
      BY <3>1 DEF Begin, Taking
    <3>2. CASE WorkerStep /\ ~ Begin
      BY <3>2 DEF WorkerStep, Fill, Receive, RecvTimeout, Send, SendTimeout, Collect,
         Match, Drain, Exit, Drop, Join, Release, WorkerFails, Taking
    <3>3. CASE ProducerStep
      BY <3>3, ProducerLeaves
    <3>4. CASE Device \/ Cancel \/ UNCHANGED vars
      BY <3>4 DEF Device, Cancel, vars, workerVars
    <3>. QED  BY <3>1, <3>2, <3>3, <3>4 DEF Next, Terminated
  <2>. QED  BY <1>1, <1>2, <2>1, <2>2 DEF Late, OneBeginAfterStop
<1>. QED  BY <1>3, <1>4

-----------------------------------------------------------------------------
(* While the search loop runs: the batches in flight.                      *)
LEMMA LoopTypes ==
  ASSUME IInv
  PROVE  /\ ready \in Seq(PreparedBatch) /\ Len(ready) \in {0, 1}
         /\ ready = << >> <=> Len(ready) = 0
         /\ recycle \in Seq(PreparedBatch) /\ Len(recycle) \in {0, 1, 2}
         /\ recycle = << >> <=> Len(recycle) = 0
         /\ log \in Seq([keys : KeyBatch, late : BOOLEAN]) /\ Len(log) \in Nat
         /\ sequence \in Nat /\ expected \in Nat /\ completed \in Nat /\ fills \in Nat
         /\ stop \in BOOLEAN
         /\ making \in PreparedBatch \union {NoBatch}
         /\ current \in PreparedBatch \union {NoBatch}
<1>1. TypeOK
  BY DEF IInv
<1>2. /\ ready \in Seq(PreparedBatch) /\ Len(ready) <= 1
      /\ recycle \in Seq(PreparedBatch) /\ Len(recycle) <= 2
      /\ log \in Seq([keys : KeyBatch, late : BOOLEAN])
  BY <1>1 DEF TypeOK
<1>3. /\ Len(ready) \in Nat /\ Len(recycle) \in Nat /\ Len(log) \in Nat
      /\ ready = << >> <=> Len(ready) = 0
      /\ recycle = << >> <=> Len(recycle) = 0
  BY <1>2, BatchTypes
<1>4. Len(ready) \in {0, 1} /\ Len(recycle) \in {0, 1, 2}
  <2>1. \A n \in Nat : (n <= 1 => n \in {0, 1}) /\ (n <= 2 => n \in {0, 1, 2})
    OBVIOUS
  <2>. QED  BY <1>2, <1>3, <2>1
<1>5. /\ sequence \in Nat /\ expected \in Nat /\ completed \in Nat /\ fills \in Nat
      /\ stop \in BOOLEAN
      /\ making \in PreparedBatch \union {NoBatch}
      /\ current \in PreparedBatch \union {NoBatch}
  BY <1>1 DEF TypeOK
<1>. QED  BY <1>2, <1>3, <1>4, <1>5

LEMMA StepsOfLoop ==
  ASSUME IInv, [Next]_vars, worker' \in Looping
  PROVE  /\ worker \in Looping
         /\ \/ /\ ProducerStep \/ Fill \/ Receive \/ RecvTimeout \/ Send
                  \/ SendTimeout \/ Cancel \/ UNCHANGED vars
               /\ UNCHANGED << completed, log >>
               /\ UNCHANGED << slots, collect_at, pending, held, got, error, dropped >>
               /\ worker' = worker \/ "match" \notin {worker, worker'}
            \/ Begin /\ worker' = "send"
            \/ Collect /\ worker' = "match"
            \/ Match /\ worker' = "fill"
            \/ Device
<1>1. CASE ProducerStep
  BY <1>1, ProducerLeaves
<1>2. CASE Cancel \/ UNCHANGED vars
  BY <1>2 DEF Cancel, vars, workerVars, ringVars
<1>3. CASE Fill \/ Receive \/ RecvTimeout \/ Send \/ SendTimeout
  <2>1. UNCHANGED << completed, log, ringVars >>
    BY <1>3 DEF Fill, Receive, RecvTimeout, Send, SendTimeout
  <2>2. worker \in Looping /\ "match" \notin {worker, worker'}
    BY <1>3 DEF Fill, Receive, RecvTimeout, Send, SendTimeout, Looping, WorkerFails
  <2>. QED  BY <1>3, <2>1, <2>2 DEF ringVars
<1>4. CASE Begin
  BY <1>4, BeginDoes DEF Begin, Looping
<1>5. CASE Collect
  BY <1>5 DEF Collect, Looping, WorkerFails
<1>6. CASE Match
  BY <1>6 DEF Match, Looping, WorkerFails
<1>7. CASE Drain \/ Exit \/ Drop \/ Join \/ Release
  BY <1>7 DEF Drain, Exit, Drop, Join, Release, Looping, WorkerFails
<1>8. CASE Device
  <2>1. worker' = worker
    BY <1>8 DEF Device, workerVars
  <2>. QED  BY <1>8, <2>1
<1>. QED  BY <1>1, <1>2, <1>3, <1>4, <1>5, <1>6, <1>7, <1>8
          DEF Next, WorkerStep, Terminated

LEMMA AccountNext ==
  ASSUME IInv, [Next]_vars, worker' \in Looping
  PROVE  Account' /\ Outputs'
<1>1. /\ worker \in Looping /\ Account /\ Outputs /\ Backend /\ TypeOK
      /\ log \in Seq([keys : KeyBatch, late : BOOLEAN]) /\ Len(log) \in Nat
      /\ completed \in Nat
  BY StepsOfLoop, LoopTypes DEF IInv, InTurn
<1>2. /\ slots \in [{0, 1} -> RP!GpuSlot] /\ collect_at \in {0, 1}
      /\ held \in Seq([keys : KeyBatch, count : Nat]) /\ Len(held) \in Nat
      /\ pending = Len(held) /\ error = "none"
      /\ \A k \in {0, 1} : k >= pending => slots[(collect_at + k) % 2].command = "none"
  BY <1>1, RingFacts DEF Backend
<1>3. /\ Len(log) = completed + Len(held)
      /\ \A k \in 1 .. Len(held) : held[k].keys = log[completed + k].keys
      /\ collect_at = (completed + 1) % 2
      /\ \A j \in 1 .. completed : j >= Len(log) - 1 => slots[j % 2].output = log[j].keys
  BY <1>1 DEF Account, Outputs
<1>4. CASE /\ UNCHANGED << completed, log >>
           /\ UNCHANGED << slots, collect_at, pending, held, got, error, dropped >>
           /\ worker' = worker \/ "match" \notin {worker, worker'}
  <2>1. worker' = "match" <=> worker = "match"
    BY <1>4
  <2>. QED  BY <1>1, <1>4, <2>1 DEF Account, Outputs, ResultsInOrder
<1>5. CASE Begin /\ worker' = "send"
  <2>1. /\ log' = Append(log, [keys |-> current.keys, late |-> stop])
        /\ held' = Append(held, [keys |-> current.keys, count |-> BatchSize])
        /\ \A i \in {0, 1} : slots'[i].output = slots[i].output
        /\ UNCHANGED << completed, collect_at, got >> /\ worker = "begin"
    BY <1>5, BeginDoes DEF Begin
  <2>2. /\ [keys |-> current.keys, late |-> stop] \in [keys : KeyBatch, late : BOOLEAN]
        /\ [keys |-> current.keys, count |-> BatchSize] \in [keys : KeyBatch, count : Nat]
    BY <2>1, BatchToBegin, LoopTypes, Constants
  <2>3. /\ Len(log') = Len(log) + 1
        /\ log'[Len(log) + 1] = [keys |-> current.keys, late |-> stop]
        /\ \A k \in 1 .. Len(log) : log'[k] = log[k]
    BY <1>1, <2>1, <2>2, BatchTypes
  <2>4. /\ Len(held') = Len(held) + 1
        /\ held'[Len(held) + 1] = [keys |-> current.keys, count |-> BatchSize]
        /\ \A k \in 1 .. Len(held) : held'[k] = held[k]
    BY <1>2, <2>1, <2>2, BatchTypes
  <2>5. ASSUME NEW k \in 1 .. Len(held')
        PROVE  held'[k].keys = log'[completed + k].keys
    <3>1. CASE k = Len(held) + 1
      <4>1. completed + k = Len(log) + 1
        BY <1>1, <1>2, <1>3, <3>1
      <4>. QED  BY <2>3, <2>4, <3>1, <4>1
    <3>2. CASE k \in 1 .. Len(held)
      <4>1. completed + k \in 1 .. Len(log)
        BY <1>1, <1>2, <1>3, <3>2
      <4>. QED  BY <1>3, <2>3, <2>4, <3>2, <4>1
    <3>. QED  BY <1>2, <2>4, <3>1, <3>2
  <2>6. ASSUME NEW j \in 1 .. completed, j >= Len(log') - 1
        PROVE  slots'[j % 2].output = log'[j].keys
    <3>1. Len(log) = completed + Len(held) /\ Len(log') = Len(log) + 1
      BY <1>3, <2>3
    <3>2. j \in 1 .. Len(log) /\ j >= Len(log) - 1 /\ j \in 1 .. completed
      BY <1>1, <1>2, <2>6, <3>1
    <3>3. j % 2 \in {0, 1}
      BY <1>1, <3>2
    <3>. QED  BY <1>3, <2>1, <2>3, <3>2, <3>3
  <2>7. Len(log') = completed + Len(held') /\ completed < MaxBatches
    BY <1>1, <1>2, <1>3, <2>1, <2>3, <2>4 DEF Account
  <2>. QED  BY <1>3, <1>5, <2>1, <2>5, <2>6, <2>7 DEF Account, Outputs, ResultsInOrder
<1>6. CASE Collect /\ worker' = "match"
  <2>1. /\ Ring!EndBatch /\ error' = "none" /\ completed' = completed + 1 /\ log' = log
    BY <1>6 DEF Collect, WorkerFails
  <2>2. /\ held # << >> /\ held' = Tail(held)
        /\ got' = [keys |-> held[1].keys, addresses |-> held[1].keys]
        /\ collect_at' = (collect_at + 1) % 2
        /\ \A i \in {0, 1} : slots'[i].output = slots[i].output
        /\ slots[collect_at].output = held[1].keys
    BY <1>1, <2>1, EndDoes
  <2>3. /\ Len(held) >= 1 /\ Len(held') = Len(held) - 1
        /\ \A k \in 1 .. Len(held) - 1 : held'[k] = held[k + 1]
    BY <1>2, <2>2, BatchTypes
  <2>4. held[1].keys = log[completed + 1].keys
    BY <1>2, <1>3, <2>3
  <2>5. ASSUME NEW k \in 1 .. Len(held')
        PROVE  held'[k].keys = log'[completed' + k].keys
    <3>1. k + 1 \in 1 .. Len(held) /\ completed' + k = completed + (k + 1)
      BY <1>1, <1>2, <2>1, <2>3
    <3>2. held'[k] = held[k + 1]
      BY <1>2, <2>3
    <3>. QED  BY <1>3, <2>1, <3>1, <3>2
  <2>6. ASSUME NEW j \in 1 .. completed', j >= Len(log') - 1
        PROVE  slots'[j % 2].output = log'[j].keys
    <3>1. CASE j = completed + 1
      BY <1>1, <1>2, <1>3, <2>1, <2>2, <2>4, <3>1
    <3>2. CASE j \in 1 .. completed
      <4>1. j % 2 \in {0, 1}
        BY <1>1, <3>2
      <4>. QED  BY <1>3, <2>1, <2>2, <2>6, <3>2, <4>1
    <3>. QED  BY <1>1, <2>1, <3>1, <3>2
  <2>7. /\ Len(log') = completed' + Len(held')
        /\ collect_at' = (completed' + 1) % 2
    <3>1. /\ Len(log) = completed + Len(held) /\ completed' = completed + 1
          /\ collect_at = (completed + 1) % 2 /\ Len(held') = Len(held) - 1
          /\ collect_at' = (collect_at + 1) % 2 /\ log' = log
      BY <1>3, <2>1, <2>2, <2>3
    <3>2. Len(log') = completed' + Len(held')
      BY <1>1, <1>2, <3>1
    <3>3. collect_at' = (completed' + 1) % 2
      BY <1>1, <3>1
    <3>. QED  BY <3>2, <3>3
  <2>8. got' = [keys |-> log'[completed'].keys, addresses |-> log'[completed'].keys]
    BY <2>1, <2>2, <2>4
  <2>. QED  BY <1>6, <2>5, <2>6, <2>7, <2>8 DEF Account, Outputs, ResultsInOrder
<1>7. CASE Match /\ worker' = "fill"
  <2>1. completed < MaxBatches /\ UNCHANGED << completed, log >> /\ UNCHANGED ringVars
    BY <1>7 DEF Match, WorkerFails
  <2>. QED  BY <1>3, <1>7, <2>1 DEF Account, Outputs, ResultsInOrder, ringVars
<1>8. CASE Device
  <2>1. /\ UNCHANGED << completed, log, worker >> /\ UNCHANGED << collect_at, held, got >>
    BY <1>8, DeviceDoes DEF workerVars
  <2>2. PICK i \in {0, 1} : /\ slots[i].command = "queued"
                            /\ \A k \in {0, 1} \ {i} : slots'[k] = slots[k]
    BY <1>8, DeviceDoes, Constants
  <2>3. ASSUME NEW j \in 1 .. completed, j >= Len(log) - 1
        PROVE  slots'[j % 2].output = log[j].keys
    <3>1. \/ j = completed /\ Len(held) \in {0, 1}
          \/ j = completed - 1 /\ Len(held) = 0
      <4>1. Len(log) = completed + Len(held)
        BY <1>3
      <4>. QED  BY <1>1, <1>2, <2>3, <4>1
    <3>4. j % 2 \in {0, 1}
      BY <1>1
    <3>2. slots[j % 2].command = "none"
      <4>1. CASE j = completed /\ Len(held) \in {0, 1}
        <5>1. (collect_at + 1) % 2 = j % 2
          BY <1>1, <1>3, <4>1
        <5>2. 1 \in {0, 1} /\ 1 >= pending
          BY <1>2, <4>1
        <5>. QED  BY <1>2, <5>1, <5>2
      <4>2. CASE j = completed - 1 /\ Len(held) = 0
        <5>1. (collect_at + 0) % 2 = j % 2
          BY <1>1, <1>3, <4>2
        <5>2. 0 \in {0, 1} /\ 0 >= pending
          BY <1>2, <4>2
        <5>. QED  BY <1>2, <5>1, <5>2
      <4>. QED  BY <3>1, <4>1, <4>2
    <3>3. slots'[j % 2] = slots[j % 2]
      BY <2>2, <3>2, <3>4
    <3>. QED  BY <1>3, <2>3, <3>3
  <2>. QED  BY <1>1, <2>1, <2>3 DEF Account, Outputs, ResultsInOrder
<1>. QED  BY <1>4, <1>5, <1>6, <1>7, <1>8, StepsOfLoop

-----------------------------------------------------------------------------
(* While the search loop runs: the two host batches.                       *)
LEMMA ProducerDoes ==
  ASSUME IInv, worker \in Looping, ProducerStep
  PROVE  \/ Ended' /\ UNCHANGED << ready, sequence, fills >>
         \/ /\ ~ Ended' /\ ~ Ended /\ stop' = stop
            /\ \/ /\ UNCHANGED << ready, recycle, making, sequence, fills >>
                  /\ Preparing' = Preparing /\ Made' = Made
                  /\ "prepare" \notin {producer, producer'}
               \/ /\ UNCHANGED << ready, sequence, fills >>
                  /\ recycle # << >>
                  /\ making' = Head(recycle) /\ recycle' = Tail(recycle)
                  /\ producer' = "prepare"
                  /\ Preparing = 0 /\ Preparing' = 1 /\ Made = 0 /\ Made' = 0
               \/ /\ UNCHANGED << ready, recycle >>
                  /\ producer = "prepare" /\ producer' = "send"
                  /\ sequence' = sequence + 1
                  /\ \/ ~ MustRefill /\ making' = Advanced /\ fills' = fills
                     \/ making' = Refilled /\ fills' = fills + 1
                  /\ Preparing = 1 /\ Preparing' = 0 /\ Made = 0 /\ Made' = 1
               \/ /\ UNCHANGED << recycle, sequence, fills >>
                  /\ producer = "send_timeout" /\ producer' = "receive"
                  /\ ready = << >> /\ ready' = << making >>
                  /\ Preparing = 0 /\ Preparing' = 0 /\ Made = 1 /\ Made' = 0
<1>1. ~ WorkerGone
  BY DEF WorkerGone, Looping
<1>2. CASE Seed \/ ProducerReceive
  BY <1>2 DEF Seed, ProducerReceive, ProducerEnds, Ended, Preparing, Made
<1>3. CASE ProducerRecvTimeout
  BY <1>1, <1>3 DEF ProducerRecvTimeout, ProducerEnds, Ended, Preparing, Made
<1>4. CASE Prepare
  BY <1>4 DEF Prepare, ProducerEnds, Ended, Preparing, Made
<1>5. CASE ProducerSend
  BY <1>5 DEF ProducerSend, ProducerEnds, Ended, Preparing, Made
<1>6. CASE ProducerSendTimeout
  BY <1>1, <1>6 DEF ProducerSendTimeout, ProducerEnds, Ended, Preparing, Made
<1>7. CASE ProducerExit \/ ProducerDrop
  BY <1>7 DEF ProducerExit, ProducerDrop, Ended
<1>. QED  BY <1>2, <1>3, <1>4, <1>5, <1>6, <1>7 DEF ProducerStep

LEMMA ProducerTurns ==
  ASSUME IInv, worker \in Looping, ProducerStep
  PROVE  Numbers' /\ Circulation' /\ Recycled'
<1>1. /\ Numbers /\ Circulation /\ Recycled /\ (stop => stop')
      /\ UNCHANGED << worker, current, expected, log >>
  <2>1. stop => stop'
    BY DEF ProducerStep, Seed, ProducerReceive, ProducerRecvTimeout, Prepare,
           ProducerSend, ProducerSendTimeout, ProducerExit, ProducerDrop
  <2>. QED  BY <2>1, ProducerLeaves DEF IInv, InTurn
<1>2. /\ ready \in Seq(PreparedBatch) /\ Len(ready) \in {0, 1}
      /\ ready = << >> <=> Len(ready) = 0
      /\ recycle \in Seq(PreparedBatch) /\ Len(recycle) \in {0, 1, 2}
      /\ sequence \in Nat /\ expected \in Nat /\ Len(log) \in Nat
  BY LoopTypes
<1>3. CASE Ended' /\ UNCHANGED << ready, sequence, fills >>
  BY <1>1, <1>3 DEF Numbers, Circulation, Recycled
<1>4. CASE /\ ~ Ended' /\ ~ Ended /\ stop' = stop
           /\ UNCHANGED << ready, recycle, making, sequence, fills >>
           /\ Preparing' = Preparing /\ Made' = Made
           /\ "prepare" \notin {producer, producer'}
  <2>1. Batches' = Batches
    BY <1>4 DEF Batches
  <2>. QED  BY <1>1, <1>4, <2>1 DEF Numbers, Circulation, Recycled, Spent
<1>5. CASE /\ ~ Ended' /\ ~ Ended /\ stop' = stop
           /\ UNCHANGED << ready, sequence, fills >>
           /\ recycle # << >>
           /\ making' = Head(recycle) /\ recycle' = Tail(recycle)
           /\ producer' = "prepare"
           /\ Preparing = 0 /\ Preparing' = 1 /\ Made = 0 /\ Made' = 0
  <2>1. /\ Head(recycle) = recycle[1] /\ Len(recycle) >= 1
        /\ Len(recycle') = Len(recycle) - 1
        /\ \A k \in 1 .. Len(recycle) - 1 : recycle'[k] = recycle[k + 1]
    BY <1>2, <1>5, BatchTypes
  <2>2. Batches' = Batches
    BY <1>2, <1>5, <2>1 DEF Batches
  <2>3. Numbers' /\ Circulation'
    BY <1>1, <1>5, <2>2 DEF Numbers, Circulation
  <2>4. \A k \in 1 .. Len(recycle) : Spent(recycle[k], sequence + k - 1)
    <3>1. \A k \in 1 .. Len(recycle) : Spent(recycle[k], sequence + Preparing + k - 1)
      BY <1>1, <1>5 DEF Recycled
    <3>2. \A k \in 1 .. Len(recycle) : sequence + Preparing + k - 1 = sequence + k - 1
      BY <1>2, <1>5
    <3>. QED  BY <3>1, <3>2
  <2>5. Spent(making', sequence')
    <3>1. Spent(recycle[1], sequence + 1 - 1) /\ sequence + 1 - 1 = sequence
      BY <1>2, <2>1, <2>4
    <3>. QED  BY <1>5, <2>1, <3>1
  <2>6. ASSUME NEW k \in 1 .. Len(recycle')
        PROVE  Spent(recycle'[k], sequence' + Preparing' + k - 1)
    <3>1. /\ k + 1 \in 1 .. Len(recycle) /\ recycle'[k] = recycle[k + 1]
          /\ sequence' + Preparing' + k - 1 = sequence + (k + 1) - 1
      BY <1>2, <1>5, <2>1
    <3>2. Spent(recycle[k + 1], sequence + (k + 1) - 1)
      BY <2>4, <3>1
    <3>. QED  BY <3>1, <3>2
  <2>. QED  BY <1>1, <1>5, <2>3, <2>5, <2>6 DEF Recycled, Spent
<1>6. CASE /\ ~ Ended' /\ ~ Ended /\ stop' = stop
           /\ UNCHANGED << ready, recycle >>
           /\ producer = "prepare" /\ producer' = "send"
           /\ sequence' = sequence + 1
           /\ making' = Refilled \/ (~ MustRefill /\ making' = Advanced)
           /\ Preparing = 1 /\ Preparing' = 0 /\ Made = 0 /\ Made' = 1
  <2>1. making'.sequence = sequence
    BY <1>6 DEF Refilled, Advanced
  <2>2. Batches' = Batches
    BY <1>2, <1>6 DEF Batches
  <2>3. Numbers'
    <3>1. sequence = expected + Len(ready)
      BY <1>1, <1>2, <1>6 DEF Numbers
    <3>. QED  BY <1>1, <1>2, <1>6, <2>1, <3>1 DEF Numbers
  <2>4. Circulation'
    BY <1>1, <1>6, <2>2 DEF Circulation
  <2>5. \A k \in 1 .. Len(recycle) :
          sequence' + Preparing' + k - 1 = sequence + Preparing + k - 1
    BY <1>2, <1>6
  <2>. QED  BY <1>1, <1>6, <2>3, <2>4, <2>5 DEF Recycled, Spent
<1>7. CASE /\ ~ Ended' /\ ~ Ended /\ stop' = stop
           /\ UNCHANGED << recycle, sequence, fills >>
           /\ producer = "send_timeout" /\ producer' = "receive"
           /\ ready = << >> /\ ready' = << making >>
           /\ Preparing = 0 /\ Preparing' = 0 /\ Made = 1 /\ Made' = 0
  <2>1. Len(ready) = 0 /\ Len(ready') = 1 /\ ready'[1] = making
    BY <1>7
  <2>2. Batches' = Batches
    BY <1>2, <1>7, <2>1 DEF Batches
  <2>3. /\ sequence = expected + 1 /\ making.sequence + 1 = sequence
    BY <1>1, <1>2, <1>7, <2>1 DEF Numbers
  <2>4. making.sequence = expected
    <3>1. making \in PreparedBatch
      BY <1>7, LoopTypes DEF IInv, Control
    <3>2. making.sequence \in Nat
      BY <3>1 DEF PreparedBatch
    <3>. QED  BY <1>2, <2>3, <3>2
  <2>5. Numbers'
    BY <1>1, <1>2, <1>7, <2>1, <2>3, <2>4 DEF Numbers
  <2>6. Circulation'
    BY <1>1, <1>7, <2>2 DEF Circulation
  <2>. QED  BY <1>1, <1>7, <2>5, <2>6 DEF Recycled, Spent
<1>. QED  BY <1>3, <1>4, <1>5, <1>6, <1>7, ProducerDoes

(* The worker's steps in the loop, as far as the host batches go.          *)
LEMMA WorkerDoes ==
  ASSUME IInv, [Next]_vars, ~ ProducerStep, worker' \in Looping
  PROVE  /\ UNCHANGED << producer, making, fills, sequence, produced >>
         /\ stop => stop'
         /\ \/ /\ UNCHANGED << ready, recycle, current, expected, log >>
               /\ \/ worker' = worker
                  \/ /\ worker \in {"receive", "recv_timeout"}
                     /\ worker' \in {"receive", "recv_timeout", "collect"}
                  \/ /\ worker \in {"fill", "collect", "match"}
                     /\ \/ worker' \in {"fill", "collect", "match"}
                        \/ worker' = "receive" /\ ~ stop
                  \/ {worker, worker'} \subseteq {"send", "send_timeout"}
            \/ /\ worker = "recv_timeout" /\ worker' = "begin"
               /\ ready # << >> /\ current' = ready[1] /\ ready' = Tail(ready)
               /\ expected' = expected + 1 /\ UNCHANGED << recycle, log >>
            \/ /\ worker = "begin" /\ worker' = "send"
               /\ log' = Append(log, [keys |-> current.keys, late |-> stop])
               /\ UNCHANGED << ready, recycle, current, expected >>
            \/ /\ worker \in {"send", "send_timeout"} /\ worker' = "fill"
               /\ current' = NoBatch /\ UNCHANGED << ready, expected, log >>
               /\ \/ recycle' = recycle /\ stop
                  \/ /\ ~ ProducerGone /\ Len(recycle) < 2
                     /\ recycle' = Append(recycle, current)
<1>1. UNCHANGED << producer, making, fills, sequence, produced >>
  <2>1. CASE WorkerStep
    BY <2>1, WorkerLeaves
  <2>2. CASE Device \/ Cancel \/ UNCHANGED vars
    BY <2>2 DEF Device, Cancel, vars, producerVars
  <2>. QED  BY <2>1, <2>2 DEF Next, Terminated
<1>2. stop => stop'
  BY DEF Next, WorkerStep, Fill, Receive, RecvTimeout, Begin, Send, SendTimeout,
     Collect, Match, Drain, Exit, Drop, Join, Release, Device, Cancel, Terminated, vars
<1>3. CASE Fill
  <2>1. UNCHANGED << ready, recycle, current, expected, log >>
    BY <1>3 DEF Fill
  <2>2. worker = "fill" /\ (worker' = "collect" \/ (worker' = "receive" /\ ~ stop))
    BY <1>3 DEF Fill
  <2>. QED  BY <1>1, <1>2, <2>1, <2>2
<1>4. CASE Receive
  <2>1. UNCHANGED << ready, recycle, current, expected, log >>
    BY <1>4 DEF Receive
  <2>2. worker = "receive" /\ worker' \in {"collect", "recv_timeout"}
    BY <1>4 DEF Receive, WorkerFails, Looping
  <2>. QED  BY <1>1, <1>2, <2>1, <2>2
<1>5. CASE RecvTimeout
  <2>1. CASE ready # << >>
    <3>1. /\ worker = "recv_timeout" /\ worker' = "begin"
          /\ current' = Head(ready) /\ ready' = Tail(ready)
          /\ expected' = expected + 1 /\ UNCHANGED << recycle, log >>
      BY <1>5, <2>1, WorkerSound DEF RecvTimeout
    <3>2. Head(ready) = ready[1]
      BY <1>5, <2>1, WorkerSound DEF RecvTimeout
    <3>. QED  BY <1>1, <1>2, <2>1, <3>1, <3>2
  <2>2. CASE ready = << >>
    <3>1. UNCHANGED << ready, recycle, current, expected, log >>
      BY <1>5, <2>2 DEF RecvTimeout
    <3>2. worker = "recv_timeout" /\ worker' \in {"collect", "receive"}
      BY <1>5, <2>2 DEF RecvTimeout, WorkerFails, Looping
    <3>. QED  BY <1>1, <1>2, <3>1, <3>2
  <2>. QED  BY <2>1, <2>2
<1>6. CASE Begin
  <2>1. worker' = "send" /\ worker = "begin"
    BY <1>6, BeginDoes DEF Begin, Looping
  <2>2. /\ log' = Append(log, [keys |-> current.keys, late |-> stop])
        /\ UNCHANGED << ready, recycle, current, expected >>
    BY <1>6, <2>1, BeginDoes
  <2>. QED  BY <1>1, <1>2, <2>1, <2>2
<1>7. CASE Send
  BY <1>1, <1>2, <1>7 DEF Send
<1>8. CASE SendTimeout
  <2>1. worker = "send_timeout" /\ UNCHANGED << ready, expected, log >>
    BY <1>8 DEF SendTimeout
  <2>2. \/ worker' = "send" /\ UNCHANGED << recycle, current >>
        \/ /\ worker' = "fill" /\ current' = NoBatch
           /\ \/ recycle' = recycle /\ stop
              \/ /\ ~ ProducerGone /\ Len(recycle) < 2
                 /\ recycle' = Append(recycle, current)
    BY <1>8, WorkerSound DEF SendTimeout
  <2>. QED  BY <1>1, <1>2, <2>1, <2>2
<1>9. CASE Collect
  <2>1. UNCHANGED << ready, recycle, current, expected, log >>
    BY <1>9 DEF Collect
  <2>2. worker = "collect" /\ worker' = "match"
    BY <1>9 DEF Collect, WorkerFails, Looping
  <2>. QED  BY <1>1, <1>2, <2>1, <2>2
<1>10. CASE Match
  <2>1. UNCHANGED << ready, recycle, current, expected, log >>
    BY <1>10 DEF Match
  <2>2. worker = "match" /\ worker' = "fill"
    BY <1>10 DEF Match, WorkerFails, Looping
  <2>. QED  BY <1>1, <1>2, <2>1, <2>2
<1>11. CASE Device \/ Cancel \/ UNCHANGED vars
  <2>1. UNCHANGED << ready, recycle, current, expected, log, worker >>
    BY <1>11 DEF Device, Cancel, vars, workerVars
  <2>. QED  BY <1>1, <1>2, <2>1
<1>. QED  BY <1>3, <1>4, <1>5, <1>6, <1>7, <1>8, <1>9, <1>10, <1>11, StepsOfLoop

LEMMA WorkerTurns ==
  ASSUME IInv, [Next]_vars, ~ ProducerStep, worker' \in Looping
  PROVE  Numbers' /\ Circulation' /\ Recycled'
<1>1. /\ Numbers /\ Circulation /\ Recycled /\ (stop => stop')
      /\ UNCHANGED << producer, making, fills, sequence >>
      /\ (producer = "done" => recycle = << >>) /\ NoBatch \notin PreparedBatch
      /\ worker \in Looping
  BY StepsOfLoop, WorkerDoes, Constants DEF IInv, InTurn, Control
<1>2. /\ ready \in Seq(PreparedBatch) /\ Len(ready) \in {0, 1}
      /\ ready = << >> <=> Len(ready) = 0
      /\ recycle \in Seq(PreparedBatch) /\ Len(recycle) \in {0, 1, 2}
      /\ log \in Seq([keys : KeyBatch, late : BOOLEAN])
      /\ sequence \in Nat /\ expected \in Nat /\ Len(log) \in Nat
      /\ stop \in BOOLEAN
  BY LoopTypes
<1>3. Preparing' = Preparing /\ Made' = Made /\ Ended' = Ended
      /\ Preparing \in {0, 1} /\ Made \in {0, 1}
  BY <1>1 DEF Preparing, Made, Ended
<1>4. CASE /\ UNCHANGED << ready, recycle, current, expected, log >>
           /\ \/ worker' = worker
              \/ /\ worker \in {"receive", "recv_timeout"}
                 /\ worker' \in {"receive", "recv_timeout", "collect"}
              \/ /\ worker \in {"fill", "collect", "match"}
                 /\ \/ worker' \in {"fill", "collect", "match"}
                    \/ worker' = "receive" /\ ~ stop
              \/ {worker, worker'} \subseteq {"send", "send_timeout"}
  <2>1. Batches' = Batches
    BY <1>3, <1>4 DEF Batches
  <2>2. Numbers'
    BY <1>1, <1>3, <1>4 DEF Numbers
  <2>3. Circulation'
    BY <1>1, <1>3, <1>4, <2>1 DEF Circulation
  <2>4. Recycled'
    BY <1>1, <1>3, <1>4 DEF Recycled, Spent
  <2>. QED  BY <2>2, <2>3, <2>4
<1>5. CASE /\ worker = "recv_timeout" /\ worker' = "begin"
           /\ ready # << >> /\ current' = ready[1] /\ ready' = Tail(ready)
           /\ expected' = expected + 1 /\ UNCHANGED << recycle, log >>
  <2>1. Len(ready) = 1 /\ Len(ready') = 0 /\ ready' = << >>
    <3>1. Len(ready) >= 1 /\ Tail(ready) \in Seq(PreparedBatch)
          /\ Len(Tail(ready)) = Len(ready) - 1
      BY <1>2, <1>5, BatchTypes
    <3>2. Tail(ready) = << >> <=> Len(Tail(ready)) = 0
      BY <3>1, BatchTypes
    <3>. QED  BY <1>2, <1>5, <3>1, <3>2
  <2>2. current'.sequence = expected /\ Len(log) = expected
    BY <1>1, <1>5 DEF Numbers
  <2>3. Numbers'
    <3>1. ~ Ended => /\ sequence = expected + 1 + Made
                     /\ Made = 1 => making.sequence + 1 = sequence
      BY <1>1, <2>1 DEF Numbers
    <3>2. ~ Ended => sequence = expected' + Len(ready') + Made
      <4>1. expected' = expected + 1
        BY <1>5
      <4>. QED  BY <1>2, <1>3, <2>1, <3>1, <4>1
    <3>3. Len(log') = expected' - 1
      BY <1>2, <1>5, <2>2
    <3>. QED  BY <1>1, <1>3, <1>5, <2>1, <2>2, <3>1, <3>2, <3>3 DEF Numbers
  <2>4. Circulation'
    <3>1. ~ Ended => Batches' = 1
      <4>1. ~ Ended => Len(recycle) + Preparing + Made + 1 = 2
        BY <1>1, <1>5, <2>1 DEF Circulation, Batches
      <4>2. Batches' = Len(recycle) + Preparing + Made + 0
        BY <1>3, <1>5, <2>1 DEF Batches
      <4>. QED  BY <1>2, <1>3, <4>1, <4>2
    <3>. QED  BY <1>3, <1>5, <3>1 DEF Circulation
  <2>5. Recycled'
    BY <1>1, <1>3, <1>5 DEF Recycled, Spent
  <2>. QED  BY <2>3, <2>4, <2>5
<1>6. CASE /\ worker = "begin" /\ worker' = "send"
           /\ log' = Append(log, [keys |-> current.keys, late |-> stop])
           /\ UNCHANGED << ready, recycle, current, expected >>
  <2>1. /\ Len(log') = Len(log) + 1 /\ log'[Len(log) + 1].keys = current.keys
        /\ \A k \in 1 .. Len(log) : log'[k] = log[k]
    <3>1. [keys |-> current.keys, late |-> stop] \in [keys : KeyBatch, late : BOOLEAN]
      BY <1>2, <1>6, BatchToBegin
    <3>2. /\ Len(log') = Len(log) + 1
          /\ log'[Len(log) + 1] = [keys |-> current.keys, late |-> stop]
          /\ \A k \in 1 .. Len(log) : log'[k] = log[k]
      BY <1>2, <1>6, <3>1, BatchTypes
    <3>. QED  BY <3>2
  <2>2. Len(log) = expected - 1 /\ current.sequence + 1 = expected
    BY <1>6, BatchToBegin
  <2>3. Numbers'
    <3>1. Len(log') = expected
      BY <1>2, <2>1, <2>2
    <3>. QED  BY <1>1, <1>3, <1>6, <2>2, <3>1 DEF Numbers
  <2>4. Circulation'
    <3>1. Batches' = Batches
      BY <1>3, <1>6 DEF Batches
    <3>. QED  BY <1>1, <1>3, <1>6, <3>1 DEF Circulation
  <2>5. \A b, n : Spent(b, n) =>
          (b.keys # NoBatch => n \in 2 .. Len(log') + 1 /\ b.keys = log'[n - 1].keys)
    BY <1>2, <2>1 DEF Spent
  <2>6. current'.keys = log'[expected'].keys
    BY <1>2, <1>6, <2>1, <2>2
  <2>7. Recycled'
    <3>1. ASSUME ~ Ended, NEW k \in 1 .. Len(recycle)
          PROVE  Spent(recycle[k], sequence + Preparing + k - 1)'
      <4>1. Spent(recycle[k], sequence + Preparing + k - 1)
        BY <1>1, <3>1 DEF Recycled
      <4>. QED  BY <1>1, <1>3, <1>6, <2>5, <4>1 DEF Spent
    <3>2. ~ Ended /\ producer = "prepare" => Spent(making, sequence)'
      <4>1. ~ Ended /\ producer = "prepare" => Spent(making, sequence)
        BY <1>1 DEF Recycled
      <4>. QED  BY <1>1, <2>5, <4>1 DEF Spent
    <3>. QED  BY <1>1, <1>3, <1>6, <2>6, <3>1, <3>2 DEF Recycled
  <2>. QED  BY <2>3, <2>4, <2>7
<1>7. CASE /\ worker \in {"send", "send_timeout"} /\ worker' = "fill"
           /\ current' = NoBatch /\ UNCHANGED << ready, expected, log >>
           /\ recycle' = recycle /\ stop
  <2>1. Batches' = Batches
    BY <1>3, <1>7 DEF Batches
  <2>2. Numbers'
    BY <1>1, <1>3, <1>7 DEF Numbers
  <2>3. Circulation'
    BY <1>1, <1>3, <1>7, <2>1 DEF Circulation
  <2>4. Recycled'
    BY <1>1, <1>3, <1>7 DEF Recycled, Spent
  <2>. QED  BY <2>2, <2>3, <2>4
<1>8. CASE /\ worker \in {"send", "send_timeout"} /\ worker' = "fill"
           /\ current' = NoBatch /\ UNCHANGED << ready, expected, log >>
           /\ ~ ProducerGone /\ Len(recycle) < 2
           /\ recycle' = Append(recycle, current)
  <2>1. current \in PreparedBatch
    BY <1>8, LoopTypes DEF IInv, Control
  <2>2. /\ Len(recycle') = Len(recycle) + 1 /\ recycle'[Len(recycle) + 1] = current
        /\ \A k \in 1 .. Len(recycle) : recycle'[k] = recycle[k]
    BY <1>2, <1>8, <2>1, BatchTypes
  <2>3. /\ current.sequence + 1 = expected /\ Len(log) = expected
        /\ current.keys = log[expected].keys
    BY <1>1, <1>8 DEF Numbers, Recycled
  <2>4. Numbers'
    BY <1>1, <1>3, <1>8 DEF Numbers
  <2>5. ~ Ended => Len(recycle) + Preparing + Made + Len(ready) = 1
    BY <1>1, <1>8 DEF Circulation, Batches
  <2>6. Circulation'
    <3>1. ~ Ended => Batches' = 2
      BY <1>2, <1>3, <1>8, <2>2, <2>5 DEF Batches
    <3>. QED  BY <1>3, <1>8, <3>1 DEF Circulation
  <2>7. ASSUME ~ Ended, NEW k \in 1 .. Len(recycle')
        PROVE  Spent(recycle'[k], sequence + Preparing + k - 1)
    <3>1. CASE k \in 1 .. Len(recycle)
      BY <1>1, <2>2, <2>7, <3>1 DEF Recycled
    <3>2. CASE k = Len(recycle) + 1
      <4>1. sequence = expected + Len(ready) + Made
        BY <1>1, <2>7 DEF Numbers
      <4>2. sequence + Preparing + k - 1 = expected + 1
        BY <1>2, <1>3, <2>5, <2>7, <3>2, <4>1
      <4>3. expected >= 1
        <5>1. current.sequence \in Nat
          BY <2>1 DEF PreparedBatch
        <5>. QED  BY <1>2, <2>3, <5>1
      <4>4. expected + 1 \in 2 .. Len(log) + 1 /\ (expected + 1) - 1 = expected
        BY <1>2, <2>3, <4>3
      <4>. QED  BY <2>2, <2>3, <3>2, <4>2, <4>4 DEF Spent
    <3>. QED  BY <1>2, <2>2, <3>1, <3>2
  <2>8. Recycled'
    BY <1>1, <1>3, <1>8, <2>7 DEF Recycled, Spent
  <2>. QED  BY <2>4, <2>6, <2>8
<1>. QED  BY <1>4, <1>5, <1>6, <1>7, <1>8, WorkerDoes

-----------------------------------------------------------------------------
(* While the search loop runs: the keys of the batches.                    *)
LEMMA LogGrows ==
  ASSUME IInv, [Next]_vars, worker' \in Looping
  PROVE  /\ Len(log) \in Nat /\ Len(log') \in {Len(log), Len(log) + 1}
         /\ \A k \in 1 .. Len(log) : log'[k] = log[k]
<1>1. log \in Seq([keys : KeyBatch, late : BOOLEAN]) /\ Len(log) \in Nat
  BY LoopTypes
<1>2. CASE log' = log
  BY <1>1, <1>2
<1>3. CASE /\ worker = "begin"
           /\ log' = Append(log, [keys |-> current.keys, late |-> stop])
  <2>1. [keys |-> current.keys, late |-> stop] \in [keys : KeyBatch, late : BOOLEAN]
    BY <1>3, BatchToBegin, LoopTypes
  <2>. QED  BY <1>1, <1>3, <2>1, BatchTypes
<1>. QED  BY <1>2, <1>3, ProducerLeaves, WorkerDoes

LEMMA PreparedStays ==
  ASSUME IInv, [Next]_vars, worker' \in Looping, NEW b \in PreparedBatch, Prepared(b)
  PROVE  Prepared(b)'
<1>1. b.sequence \in Nat
  BY DEF PreparedBatch
<1>2. b.keys \in KeyBatch
  BY DEF Prepared
<1>3. ASSUME b.resume
      PROVE  /\ b.sequence \in 2 .. Len(log') + 1
             /\ b.keys = Advance(log'[b.sequence - 1].keys)
  <2>1. /\ b.sequence \in 2 .. Len(log) + 1
        /\ b.keys = Advance(log[b.sequence - 1].keys)
    BY <1>3 DEF Prepared
  <2>2. /\ b.sequence - 1 \in 1 .. Len(log) /\ b.sequence \in 2 .. Len(log') + 1
    BY <1>1, <2>1, LogGrows
  <2>. QED  BY <2>1, <2>2, LogGrows
<1>. QED  BY <1>2, <1>3 DEF Prepared

(* Unless a batch is prepared, no batch comes into a hand from nowhere.    *)
LEMMA NothingNew ==
  ASSUME IInv, [Next]_vars, worker' \in Looping, sequence' = sequence
  PROVE  /\ \A b : InHand(b)' => InHand(b)
         /\ \A j \in Nat, k \in KeyBatch : Stamped(j, k)' => Stamped(j, k)
<1>1. worker \in Looping
  BY StepsOfLoop
<1>2. /\ ready \in Seq(PreparedBatch) /\ Len(ready) \in {0, 1}
      /\ log \in Seq([keys : KeyBatch, late : BOOLEAN]) /\ Len(log) \in Nat
      /\ sequence \in Nat
  BY LoopTypes
<1>3. ASSUME NEW b, InHand(b)'
      PROVE  InHand(b)
  <2>1. CASE ProducerStep
    <3>1. UNCHANGED << worker, current >>
      BY <2>1, ProducerLeaves
    <3>2. CASE Ended' /\ ready' = ready
      BY <1>3, <3>1, <3>2 DEF InHand, Ended
    <3>3. CASE UNCHANGED << ready, making >> /\ Made' = Made
      BY <1>3, <3>1, <3>3 DEF InHand, Made
    <3>4. CASE ready' = ready /\ producer' = "prepare"
      BY <1>3, <3>1, <3>4 DEF InHand
    <3>5. CASE /\ producer = "send_timeout" /\ producer' = "receive"
               /\ ready' = << making >>
      BY <1>3, <3>1, <3>5 DEF InHand
    <3>. QED  BY <1>1, <1>2, <2>1, <3>2, <3>3, <3>4, <3>5, ProducerDoes
  <2>2. CASE ~ ProducerStep
    <3>1. UNCHANGED << producer, making >>
      BY <2>2, WorkerDoes
    <3>2. CASE /\ ready' = ready
               /\ worker' # "begin" \/ (worker' = worker /\ current' = current)
      BY <1>3, <3>1, <3>2 DEF InHand
    <3>3. CASE /\ worker = "recv_timeout" /\ worker' = "begin"
               /\ ready # << >> /\ current' = ready[1] /\ ready' = Tail(ready)
      <4>1. Len(ready) = 1 /\ Tail(ready) \in Seq(PreparedBatch) /\ Len(Tail(ready)) = 0
        BY <1>2, <3>3, BatchTypes
      <4>2. ready' = << >>
        BY <3>3, <4>1, BatchTypes
      <4>. QED  BY <1>3, <3>1, <3>3, <4>2 DEF InHand
    <3>. QED  BY <2>2, <3>2, <3>3, WorkerDoes
  <2>. QED  BY <2>1, <2>2
<1>4. ASSUME NEW j \in Nat, NEW k \in KeyBatch, Stamped(j, k)'
      PROVE  Stamped(j, k)
  <2>1. CASE j \in 1 .. Len(log') /\ k = log'[j].keys
    <3>1. CASE j \in 1 .. Len(log)
      BY <2>1, <3>1, LogGrows DEF Stamped
    <3>2. CASE j = Len(log) + 1 /\ log' # log
      <4>1. /\ worker = "begin"
            /\ log' = Append(log, [keys |-> current.keys, late |-> stop])
        BY <3>2, ProducerLeaves, WorkerDoes
      <4>2. /\ current \in PreparedBatch /\ current.sequence + 1 = Len(log) + 1
        BY <1>2, <4>1, LoopTypes, BatchToBegin
      <4>3. k = current.keys
        <5>1. [keys |-> current.keys, late |-> stop] \in [keys : KeyBatch, late : BOOLEAN]
          BY <4>1, BatchToBegin, LoopTypes
        <5>2. log'[Len(log) + 1] = [keys |-> current.keys, late |-> stop]
          BY <1>2, <4>1, <5>1, BatchTypes
        <5>. QED  BY <2>1, <3>2, <5>2
      <4>. QED  BY <3>2, <4>1, <4>2, <4>3 DEF Stamped, InHand
    <3>. QED  BY <1>2, <2>1, <3>1, <3>2, LogGrows
  <2>2. CASE \E b \in PreparedBatch : InHand(b)' /\ j = b.sequence + 1 /\ k = b.keys
    BY <1>3, <2>2 DEF Stamped
  <2>. QED  BY <1>4, <2>1, <2>2 DEF Stamped
<1>. QED  BY <1>3, <1>4

(* The batch the producer stamps next: its keys are those of the batch     *)
(* before the last, moved on, or fresh.                                    *)
LEMMA NewBatch ==
  ASSUME IInv, [Next]_vars, worker' \in Looping, sequence' # sequence
  PROVE  /\ sequence' = sequence + 1 /\ producer' = "send"
         /\ making' \in PreparedBatch /\ making'.sequence = sequence
         /\ making'.keys \in KeyBatch
         /\ UNCHANGED << ready, worker, current, log >>
         /\ \/ /\ fills' = fills + 1 /\ making'.keys = Fresh(fills)
               /\ ~ making'.resume
            \/ /\ fills' = fills /\ sequence \in 2 .. Len(log) + 1
               /\ making'.keys = Advance(log[sequence - 1].keys)
<1>1. ProducerStep /\ worker \in Looping
  BY WorkerDoes, StepsOfLoop
<1>2. /\ producer = "prepare" /\ producer' = "send" /\ ready' = ready
      /\ sequence' = sequence + 1 /\ ~ Ended
      /\ \/ ~ MustRefill /\ making' = Advanced /\ fills' = fills
         \/ making' = Refilled /\ fills' = fills + 1
  BY <1>1, ProducerDoes
<1>3. making \in PreparedBatch /\ TypeOK
  BY <1>2, LoopTypes DEF IInv, Control
<1>4. /\ Refilled \in PreparedBatch /\ Refilled.keys = Fresh(fills)
      /\ Refilled.keys \in KeyBatch /\ ~ Refilled.resume
      /\ Refilled.sequence = sequence
      /\ ~ MustRefill => /\ Advanced \in PreparedBatch
                         /\ Advanced.keys = Advance(making.keys)
                         /\ making.keys \in KeyBatch
                         /\ Advanced.keys \in KeyBatch
                         /\ Advanced.sequence = sequence
  BY <1>3, PreparedTypes
<1>5. UNCHANGED << worker, current, log >>
  BY <1>1, ProducerLeaves
<1>6. CASE making' = Refilled /\ fills' = fills + 1
  BY <1>2, <1>4, <1>5, <1>6
<1>7. CASE ~ MustRefill /\ making' = Advanced /\ fills' = fills
  <2>1. Spent(making, sequence)
    BY <1>1, <1>2 DEF IInv, InTurn, Recycled
  <2>2. making.keys # NoBatch
    BY <1>4, <1>7, Constants
  <2>3. sequence \in 2 .. Len(log) + 1 /\ making.keys = log[sequence - 1].keys
    BY <2>1, <2>2 DEF Spent
  <2>. QED  BY <1>2, <1>4, <1>5, <1>7, <2>3
<1>. QED  BY <1>2, <1>6, <1>7

LEMMA PreparedNext ==
  ASSUME IInv, [Next]_vars, worker' \in Looping, NEW b \in PreparedBatch, InHand(b)'
  PROVE  Prepared(b)'
<1>1. InHand(b) => Prepared(b)'
  <2>1. InHand(b) => Prepared(b)
    BY StepsOfLoop DEF IInv, InTurn
  <2>. QED  BY <2>1, PreparedStays
<1>2. CASE sequence' = sequence
  BY <1>1, <1>2, NothingNew
<1>3. CASE sequence' # sequence
  <2>1. CASE b = making'
    <3>1. b.keys \in KeyBatch /\ b.sequence = sequence /\ log' = log
      BY <1>3, <2>1, NewBatch
    <3>2. CASE ~ b.resume
      BY <3>1, <3>2 DEF Prepared
    <3>3. CASE b.resume
      <4>1. /\ sequence \in 2 .. Len(log) + 1
            /\ b.keys = Advance(log[sequence - 1].keys)
        BY <1>3, <2>1, <3>3, NewBatch
      <4>. QED  BY <3>1, <4>1 DEF Prepared
    <3>. QED  BY <3>2, <3>3
  <2>2. CASE b # making'
    <3>1. UNCHANGED << ready, worker, current >>
      BY <1>3, NewBatch
    <3>2. InHand(b)
      BY <2>2, <3>1 DEF InHand
    <3>. QED  BY <1>1, <3>2
  <2>. QED  BY <2>1, <2>2
<1>. QED  BY <1>2, <1>3

LEMMA LineageNext ==
  ASSUME IInv, [Next]_vars, worker' \in Looping
  PROVE  Lineage'
<1>1. /\ worker \in Looping /\ Lineage
      /\ sequence \in Nat /\ fills \in Nat /\ Len(log) \in Nat
      /\ 3 <= fills /\ fills <= sequence + 3
      /\ log \in Seq([keys : KeyBatch, late : BOOLEAN])
  BY StepsOfLoop, LoopTypes DEF IInv, InTurn, Control
<1>2. CASE sequence' = sequence
  <2>1. fills' = fills
    BY <1>1, <1>2, ProducerDoes, WorkerDoes
  <2>2. \A j \in Nat, k \in KeyBatch : Stamped(j, k)' => Stamped(j, k)
    BY <1>2, NothingNew
  <2>. QED  BY <1>1, <1>2, <2>1, <2>2 DEF Lineage
<1>3. CASE sequence' # sequence
  <2>. DEFINE new == making'.keys
              s == sequence
  <2>1. /\ sequence' = s + 1 /\ new \in KeyBatch /\ making'.sequence = s
        /\ UNCHANGED << ready, worker, current, log >>
        /\ \/ fills' = fills + 1 /\ new = Fresh(fills)
           \/ /\ fills' = fills /\ s \in 2 .. Len(log) + 1
              /\ new = Advance(log[s - 1].keys)
    BY <1>3, NewBatch
  <2>2. ASSUME NEW j \in Nat, NEW k \in KeyBatch, Stamped(j, k)'
        PROVE  Stamped(j, k) \/ (j = s + 1 /\ k = new)
    <3>1. CASE j \in 1 .. Len(log') /\ k = log'[j].keys
      BY <2>1, <3>1 DEF Stamped
    <3>2. ASSUME NEW b \in PreparedBatch, InHand(b)', j = b.sequence + 1, k = b.keys
          PROVE  Stamped(j, k) \/ (j = s + 1 /\ k = new)
      <4>1. InHand(b) \/ b = making'
        BY <2>1, <3>2 DEF InHand
      <4>. QED  BY <2>1, <3>2, <4>1 DEF Stamped
    <3>. QED  BY <2>2, <3>1, <3>2 DEF Stamped
  <2>3. ASSUME NEW j \in Nat, NEW k \in KeyBatch, Stamped(j, k)
        PROVE  /\ j <= s /\ 3 <= k.fill /\ k.fill < fills
               /\ k.fill < j + 3 /\ k.step < j
    BY <1>1, <2>3 DEF Lineage
  <2>4. /\ 3 <= new.fill /\ new.fill < fills' /\ new.fill < s + 4 /\ new.step < s + 1
        /\ \A i \in Nat, k \in KeyBatch : Stamped(i, k) => Descends(i, k, s + 1, new)
    <3>1. CASE fills' = fills + 1 /\ new = Fresh(fills)
      <4>1. new.fill = fills /\ new.step = 0
        BY <3>1 DEF Fresh
      <4>2. ASSUME NEW i \in Nat, NEW k \in KeyBatch, Stamped(i, k)
            PROVE  Descends(i, k, s + 1, new)
        BY <1>1, <2>3, <4>1, <4>2 DEF Descends, KeyBatch
      <4>. QED  BY <1>1, <3>1, <4>1, <4>2
    <3>2. CASE /\ fills' = fills /\ s \in 2 .. Len(log) + 1
               /\ new = Advance(log[s - 1].keys)
      <4>. DEFINE old == log[s - 1].keys
      <4>1. s - 1 \in 1 .. Len(log) /\ s - 1 \in Nat
        BY <1>1, <3>2
      <4>2. old \in KeyBatch
        <5>1. log[s - 1] \in [keys : KeyBatch, late : BOOLEAN]
          BY <1>1, <4>1, Elements
        <5>. QED  BY <5>1
      <4>3. Stamped(s - 1, old)
        BY <4>1 DEF Stamped
      <4>4. new.fill = old.fill /\ new.step = old.step + 1
        BY <3>2 DEF Advance
      <4>5. old.fill \in Nat /\ old.step \in Nat
        BY <4>2 DEF KeyBatch
      <4>6. /\ 3 <= old.fill /\ old.fill < fills /\ old.fill < s - 1 + 3
            /\ old.step < s - 1
        BY <2>3, <4>1, <4>2, <4>3
      <4>7. ASSUME NEW i \in Nat, NEW k \in KeyBatch, Stamped(i, k)
            PROVE  Descends(i, k, s + 1, new)
        <5>1. i <= s /\ k.step \in Nat /\ k.fill \in Nat
          BY <2>3, <4>7 DEF KeyBatch
        <5>2. Descends(i, k, s - 1, old) /\ Descends(s - 1, old, i, k)
          BY <1>1, <4>1, <4>2, <4>3, <4>7 DEF Lineage
        <5>3. CASE i = s - 1
          <6>1. k = old
            BY <5>2, <5>3 DEF Descends
          <6>. QED  BY <1>1, <4>4, <4>5, <5>3, <6>1 DEF Descends
        <5>4. CASE i < s - 1
          BY <1>1, <4>4, <4>5, <5>1, <5>2, <5>4 DEF Descends
        <5>5. CASE i = s
          BY <1>1, <4>4, <4>5, <5>1, <5>2, <5>5 DEF Descends
        <5>. QED  BY <1>1, <5>1, <5>3, <5>4, <5>5
      <4>8. new.fill < s + 4 /\ new.step < s + 1
        BY <1>1, <4>4, <4>5, <4>6
      <4>. QED  BY <3>2, <4>4, <4>6, <4>7, <4>8
    <3>. QED  BY <2>1, <3>1, <3>2
  <2>5. ASSUME NEW i \in Nat, NEW j \in Nat, NEW k \in KeyBatch, NEW l \in KeyBatch,
               Stamped(i, k)', Stamped(j, l)'
        PROVE  /\ i <= sequence' /\ 3 <= k.fill /\ k.fill < fills'
               /\ k.fill < i + 3 /\ k.step < i
               /\ Descends(i, k, j, l)
    <3>1. fills' \in Nat /\ fills <= fills' /\ k.fill \in Nat /\ l.fill \in Nat
      BY <1>1, <2>1 DEF KeyBatch
    <3>2. CASE Stamped(i, k) /\ Stamped(j, l)
      <4>1. Descends(i, k, j, l)
        BY <1>1, <3>2 DEF Lineage
      <4>2. /\ i <= s /\ 3 <= k.fill /\ k.fill < fills
            /\ k.fill < i + 3 /\ k.step < i
        BY <2>3, <3>2
      <4>. QED  BY <1>1, <2>1, <3>1, <4>1, <4>2
    <3>3. CASE Stamped(i, k) /\ j = s + 1 /\ l = new
      <4>1. Descends(i, k, j, l)
        BY <2>4, <3>3
      <4>2. /\ i <= s /\ 3 <= k.fill /\ k.fill < fills
            /\ k.fill < i + 3 /\ k.step < i
        BY <2>3, <3>3
      <4>. QED  BY <1>1, <2>1, <3>1, <4>1, <4>2
    <3>4. CASE i = s + 1 /\ k = new
      <4>1. Descends(i, k, j, l)
        <5>1. j < i \/ (j = i /\ l = k)
          <6>1. Stamped(j, l) => j <= s
            BY <2>3
          <6>2. Stamped(j, l) \/ (j = s + 1 /\ l = new)
            BY <2>2, <2>5
          <6>. QED  BY <1>1, <3>4, <6>1, <6>2
        <5>. QED  BY <5>1 DEF Descends
      <4>. QED  BY <1>1, <2>1, <2>4, <3>4, <4>1
    <3>. QED  BY <2>2, <2>5, <3>2, <3>3, <3>4
  <2>. QED  BY <2>5 DEF Lineage
<1>. QED  BY <1>2, <1>3

-----------------------------------------------------------------------------
(* The invariant is inductive.                                             *)
LEMMA KeysNext ==
  ASSUME IInv, [Next]_vars
  PROVE  NoKeyTwice'
<1>1. /\ NoKeyTwice /\ Len(log) \in Nat
      /\ log \in Seq([keys : KeyBatch, late : BOOLEAN])
  BY LoopTypes DEF IInv
<1>2. CASE log' = log
  BY <1>1, <1>2 DEF NoKeyTwice
<1>3. CASE Begin /\ log' # log
  <2>1. /\ worker = "begin"
        /\ log' = Append(log, [keys |-> current.keys, late |-> stop])
    BY <1>3, BeginDoes DEF Begin
  <2>2. /\ current \in PreparedBatch /\ current.keys \in KeyBatch
        /\ current.sequence + 1 = expected /\ Len(log) = expected - 1
        /\ expected \in Nat /\ Lineage
    BY <2>1, BatchToBegin, LoopTypes DEF IInv, InTurn, Looping
  <2>3. [keys |-> current.keys, late |-> stop] \in [keys : KeyBatch, late : BOOLEAN]
    BY <2>2, LoopTypes
  <2>4. /\ Len(log') = Len(log) + 1
        /\ log'[Len(log) + 1] = [keys |-> current.keys, late |-> stop]
        /\ \A k \in 1 .. Len(log) : log'[k] = log[k]
    BY <1>1, <2>1, <2>3, BatchTypes
  <2>5. Stamped(Len(log) + 1, current.keys)
    <3>1. InHand(current) /\ Len(log) + 1 = current.sequence + 1
      BY <2>1, <2>2 DEF InHand
    <3>. QED  BY <2>2, <3>1 DEF Stamped
  <2>6. ASSUME NEW j \in 1 .. Len(log)
        PROVE  log[j].keys # current.keys
    <3>1. log[j] \in [keys : KeyBatch, late : BOOLEAN]
      BY <1>1, Elements
    <3>2. Stamped(j, log[j].keys) /\ log[j].keys \in KeyBatch
      BY <3>1 DEF Stamped
    <3>3. Descends(j, log[j].keys, Len(log) + 1, current.keys)
      BY <1>1, <2>2, <2>5, <3>2 DEF Lineage
    <3>4. /\ j < Len(log) + 1 /\ current.keys.step \in Nat
          /\ log[j].keys.fill = current.keys.fill =>
               log[j].keys.step < current.keys.step
      <4>1. j < Len(log) + 1
        BY <1>1
      <4>2. current.keys.step \in Nat
        BY <2>2 DEF KeyBatch
      <4>. QED  BY <3>3, <4>1, <4>2 DEF Descends
    <3>5. current.keys.step < current.keys.step => FALSE
      BY <3>4
    <3>. QED  BY <3>4, <3>5
  <2>7. \A j \in 1 .. Len(log') : j \in 1 .. Len(log) \/ j = Len(log) + 1
    BY <1>1, <2>4
  <2>. QED  BY <1>1, <2>4, <2>6, <2>7 DEF NoKeyTwice
<1>4. Begin \/ log' = log
  <2>1. CASE WorkerStep /\ ~ Begin
    BY <2>1 DEF WorkerStep, Fill, Receive, RecvTimeout, Send, SendTimeout, Collect,
       Match, Drain, Exit, Drop, Join, Release
  <2>2. CASE ProducerStep
    BY <2>2, ProducerLeaves
  <2>3. CASE Device \/ Cancel \/ UNCHANGED vars
    BY <2>3 DEF Device, Cancel, vars, workerVars
  <2>. QED  BY <2>1, <2>2, <2>3 DEF Next, Terminated
<1>. QED  BY <1>2, <1>3, <1>4

LEMMA InitIInv == Init => IInv
<1>. SUFFICES ASSUME Init PROVE IInv
  OBVIOUS
<1>1. /\ RP!Init /\ slots = slots /\ collect_at = 3 % 2 /\ pending = 0 /\ held = << >>
      /\ got = NoBatch /\ error = "none" /\ dropped = FALSE
  BY SameRing, Constants DEF Init, RP!Init
<1>2. RP!IInv /\ Ring!TypeOK
  <2>1. RP!IInv
    BY <1>1, RingConstants, RP!InitIInv
  <2>. QED  BY <2>1, SameRing DEF RP!IInv
<1>3. /\ EmptyBatch \in PreparedBatch /\ EmptyBatch.keys = NoBatch
      /\ recycle \in Seq(PreparedBatch) /\ Len(recycle) = 2
      /\ \A k \in 1 .. 2 : recycle[k] = EmptyBatch
  <2>1. EmptyBatch \in PreparedBatch
    BY SameKeys DEF EmptyBatch, PreparedBatch
  <2>. QED  BY <2>1 DEF Init, EmptyBatch
<1>4. /\ ready = << >> /\ ready \in Seq(PreparedBatch) /\ Len(ready) = 0
      /\ log = << >> /\ log \in Seq([keys : KeyBatch, late : BOOLEAN]) /\ Len(log) = 0
  BY DEF Init
<1>5. TypeOK
  <2>1. /\ stop \in BOOLEAN /\ hit = FALSE /\ producer = "seed" /\ worker = "fill"
        /\ making = NoBatch /\ current = NoBatch /\ fills = 3 /\ sequence = 0
        /\ expected = 0 /\ completed = 0 /\ produced = "none"
        /\ failure = "none" /\ result = "none"
    BY DEF Init
  <2>2. Len(ready) <= 1 /\ Len(recycle) <= 2
    BY <1>3, <1>4
  <2>3. {fills, sequence, expected, completed} \subseteq Nat
    BY <2>1
  <2>. QED  BY <1>2, <1>3, <1>4, <2>1, <2>2, <2>3 DEF TypeOK
<1>6. Control
  BY DEF Init, Control, Ended, Looping, WorkerGone
<1>7. Backend
  BY <1>1, <1>2, Constants DEF Init, Backend, Looping, Taking
<1>8. Late /\ NoKeyTwice
  BY <1>4 DEF Late, OneBeginAfterStop, NoKeyTwice
<1>9. InTurn
  <2>1. Account
    BY <1>1, <1>4, Constants DEF Account, ResultsInOrder, Init
  <2>2. Outputs
    BY <1>1, <1>4 DEF Outputs, Init
  <2>3. Numbers
    BY <1>4 DEF Numbers, Made, Init
  <2>4. Circulation
    BY <1>3, <1>4 DEF Circulation, Batches, Preparing, Made, Init
  <2>5. Recycled
    BY <1>3 DEF Recycled, Spent, Init
  <2>6. \A b : ~ InHand(b)
    BY <1>4 DEF InHand, Init
  <2>7. Lineage
    BY <1>4, <2>6 DEF Lineage, Stamped
  <2>. QED  BY <2>1, <2>2, <2>3, <2>4, <2>5, <2>6, <2>7 DEF InTurn
<1>. QED  BY <1>5, <1>6, <1>7, <1>8, <1>9 DEF IInv

LEMMA NextIInv == IInv /\ [Next]_vars => IInv'
<1>. SUFFICES ASSUME IInv, [Next]_vars PROVE IInv'
  OBVIOUS
<1>1. ASSUME Device \/ Cancel \/ UNCHANGED vars
      PROVE  TypeOK' /\ Control'
  <2>1. /\ UNCHANGED << ready, recycle >> /\ UNCHANGED producerVars
        /\ UNCHANGED workerVars /\ (stop' = stop \/ stop' = TRUE)
    BY <1>1 DEF Device, Cancel, vars
  <2>2. TypeOK /\ Control /\ Ring!TypeOK'
    BY StepsOfRing, RingTypesNext DEF IInv
  <2>3. UNCHANGED << producer, making, fills, sequence, produced, worker, current,
                     expected, completed, hit, failure, result, log >>
    BY <2>1 DEF producerVars, workerVars
  <2>4. TypeOK'
    <3>1. {stop', hit'} \subseteq BOOLEAN
      BY <2>1, <2>2, <2>3 DEF TypeOK
    <3>2. UNCHANGED << ready, recycle >>
      BY <2>1
    <3>3. /\ ready' \in Seq(PreparedBatch) /\ Len(ready') <= 1
          /\ recycle' \in Seq(PreparedBatch) /\ Len(recycle') <= 2
          /\ log' \in Seq([keys : KeyBatch, late : BOOLEAN])
      BY <2>2, <2>3, <3>2 DEF TypeOK
    <3>4. /\ {making', current'} \subseteq PreparedBatch \union {NoBatch}
          /\ {fills', sequence', expected', completed'} \subseteq Nat
      BY <2>2, <2>3 DEF TypeOK
    <3>5. /\ producer' \in {"seed", "receive", "recv_timeout", "prepare", "send",
                           "send_timeout", "exit", "drop", "done"}
          /\ produced' \in {"none", "ok", "error", "panic"}
          /\ worker' \in {"fill", "receive", "recv_timeout", "begin", "send",
                         "send_timeout", "collect", "match", "drain", "exit",
                         "drop", "join", "done", "released"}
          /\ failure' \in {"none", "batch not recycled", "order mismatch",
                          "source disconnected", "consumer disconnected",
                          "backend", "verify", "panic"}
          /\ result' \in {"none", "hit", "error", "panic"}
      <4>1. /\ producer' = producer /\ produced' = produced /\ worker' = worker
            /\ failure' = failure /\ result' = result
        BY <2>3
      <4>2. producer' \in {"seed", "receive", "recv_timeout", "prepare", "send",
                          "send_timeout", "exit", "drop", "done"}
        BY <2>2, <4>1 DEF TypeOK
      <4>3. worker' \in {"fill", "receive", "recv_timeout", "begin", "send",
                         "send_timeout", "collect", "match", "drain", "exit",
                         "drop", "join", "done", "released"}
        BY <2>2, <4>1 DEF TypeOK
      <4>4. failure' \in {"none", "batch not recycled", "order mismatch",
                          "source disconnected", "consumer disconnected",
                          "backend", "verify", "panic"}
        BY <2>2, <4>1 DEF TypeOK
      <4>5. /\ produced' \in {"none", "ok", "error", "panic"}
            /\ result' \in {"none", "hit", "error", "panic"}
        BY <2>2, <4>1 DEF TypeOK
      <4>. QED  BY <4>2, <4>3, <4>4, <4>5
    <3>6. Ring!TypeOK'
      BY <2>2
    <3>. QED  BY <3>1, <3>3, <3>4, <3>5, <3>6 DEF TypeOK
  <2>5. Control'
    BY <2>1, <2>2, <2>3 DEF Control, Ended, WorkerGone, Return
  <2>. QED  BY <2>4, <2>5
<1>2. TypeOK /\ Control
  BY DEF IInv
<1>3. TypeOK'
  BY <1>1, <1>2, ProducerTypes, WorkerTypes DEF Next, Terminated
<1>4. Control'
  BY <1>1, ProducerControl, WorkerControl DEF Next, Terminated
<1>5. Backend'
  BY WorkerBackend, OthersBackend DEF Next, Terminated
<1>6. Late' /\ NoKeyTwice'
  BY LateNext, KeysNext
<1>7. ASSUME worker' \in Looping
      PROVE  InTurn'
  <2>1. Account' /\ Outputs'
    BY <1>7, AccountNext
  <2>2. Numbers' /\ Circulation' /\ Recycled'
    BY <1>7, StepsOfLoop, ProducerTurns, WorkerTurns
  <2>3. \A b \in PreparedBatch : InHand(b)' => Prepared(b)'
    BY <1>7, PreparedNext
  <2>4. Lineage'
    BY <1>7, LineageNext
  <2>. QED  BY <2>1, <2>2, <2>3, <2>4 DEF InTurn
<1>. QED  BY <1>3, <1>4, <1>5, <1>6, <1>7 DEF IInv

-----------------------------------------------------------------------------
(* IInv is inductive: it holds of the pipeline however long it runs.       *)
THEOREM Invariance == Spec => []IInv
<1>. QED  BY InitIInv, NextIInv, PTL DEF Spec

(* Every variable has its type, and the channels of pipeline.rs keep to    *)
(* their capacities.                                                       *)
THEOREM TypeCorrect == Spec => []TypeOK
<1>1. IInv => TypeOK
  BY DEF IInv
<1>. QED  BY <1>1, Invariance, PTL

(* None of the ensure!s of pipeline.rs fires, in whatever order the two    *)
(* threads end: a side that finds the channel disconnected finds stop set, *)
(* and a batch is never out of order nor left unrecycled.                  *)
THEOREM PipelineNeverFails == Spec => []OnlyForeignFailures
<1>1. IInv => OnlyForeignFailures
  BY DEF IInv, Control, Backend, OnlyForeignFailures
<1>. QED  BY <1>1, Invariance, PTL

(* No private key is searched twice, whatever mixture of refilling and     *)
(* advancing the producer chooses for the two host batches.                *)
THEOREM KeysAreNew == Spec => []NoKeyTwice
<1>1. IInv => NoKeyTwice
  BY DEF IInv
<1>. QED  BY <1>1, Invariance, PTL

(* After stop is set the worker submits at most one more batch.            *)
THEOREM StopIsSeen == Spec => []OneBeginAfterStop
<1>1. IInv => OneBeginAfterStop
  BY DEF IInv, Late
<1>. QED  BY <1>1, Invariance, PTL

(* The n-th batch matched is the n-th begun, with its own addresses.       *)
THEOREM InOrder == Spec => []ResultsInOrder
<1>1. IInv => ResultsInOrder
  BY DEF IInv, InTurn, Account, ResultsInOrder, Looping
<1>. QED  BY <1>1, Invariance, PTL

(* run() reports a hit iff there is one, nothing failed after it, and the  *)
(* producer has neither failed nor panicked.                               *)
THEOREM ResultIsHonest == Spec => []HonestResult
<1>1. IInv => HonestResult
  BY DEF IInv, Control, HonestResult, Return
<1>. QED  BY <1>1, Invariance, PTL

(* A run that ends well leaves nothing on the device, and after any run    *)
(* the released backend, the channels and the threads hold no key.         *)
THEOREM LeavesNothing == Spec => []NothingLeftBehind
<1>1. IInv => NothingLeftBehind
  <2>. SUFFICES ASSUME IInv PROVE NothingLeftBehind
    OBVIOUS
  <2>1. Control /\ Backend /\ Ring!Slot = RP!Slot
    BY SameRing DEF IInv
  <2>2. ASSUME worker = "done", result \in {"hit", "none"}
        PROVE  pending = 0 /\ \A i \in Ring!Slot : slots[i].input = NoBatch
    <3>1. failure = "none"
      BY <2>1, <2>2 DEF Control, Return
    <3>. QED  BY <2>1, <2>2, <3>1 DEF Backend
  <2>3. ASSUME worker = "released"
        PROVE  /\ ready = << >> /\ recycle = << >> /\ held = << >>
               /\ making = NoBatch /\ current = NoBatch
               /\ \A i \in Ring!Slot : slots[i].input = NoBatch
    <3>1. /\ ready = << >> /\ recycle = << >> /\ making = NoBatch /\ current = NoBatch
      BY <2>1, <2>3 DEF Control, WorkerGone
    <3>2. dropped /\ held = << >> /\ RP!SecretsOnlyInFlight
      BY <2>1, <2>3 DEF Backend, RP!IInv
    <3>. QED  BY <2>1, <3>1, <3>2 DEF RP!SecretsOnlyInFlight
  <2>. QED  BY <2>2, <2>3 DEF NothingLeftBehind
<1>. QED  BY <1>1, Invariance, PTL

(* The worker is a caller that the ring is specified for: with what        *)
(* GpuRingProofs proves, each batch comes back with its own addresses, and *)
(* what it says of a batch that resumes (begin_resumed) is true.           *)
THEOREM RingRefinement == Spec => ImplementsRing
<1>1. Init => Ring!Init
  BY DEF Init
<1>2. IInv /\ [Next]_vars => [Ring!Next]_ringVars
  <2>. SUFFICES ASSUME IInv, [Next]_vars PROVE [Ring!Next]_ringVars
    OBVIOUS
  <2>1. CASE UNCHANGED RP!vars
    BY <2>1 DEF RP!vars, ringVars
  <2>2. CASE RP!CallBegin
    <3>1. RP!Usable <=> Ring!Usable
      BY DEF RP!Usable, Ring!Usable
    <3>2. \A keys : RP!MayResume(keys) <=> Ring!MayResume(keys)
      BY DEF RP!MayResume, Ring!MayResume, RP!SubmitAt, Ring!SubmitAt, RP!At, Ring!At,
             RP!Advance, Ring!Advance
    <3>3. RP!CallerBatch = Ring!CallerBatch
      BY DEF RP!CallerBatch, Ring!CallerBatch
    <3>. QED  BY <2>2, <3>1, <3>2, <3>3, SameRing
              DEF RP!CallBegin, Ring!CallBegin, Ring!Next
  <2>3. CASE RP!CallEnd
    BY <2>3, SameRing DEF RP!CallEnd, Ring!CallEnd, RP!Usable, Ring!Usable, Ring!Next
  <2>4. CASE RP!Abandon \/ RP!DropBackend
    BY <2>4, SameRing DEF Ring!Next
  <2>5. CASE \E i \in RP!Slot : RP!Execute(i) \/ RP!DeviceFails(i)
    BY <2>5, SameRing DEF Ring!Next
  <2>. QED  BY <2>1, <2>2, <2>3, <2>4, <2>5, StepsOfRing DEF RP!Next
<1>. QED  BY <1>1, <1>2, Invariance, PTL DEF Spec, ImplementsRing
=============================================================================
