---------------------------- MODULE HostPipeline ----------------------------
(***************************************************************************)
(* The GPU search of one worker: a producer thread prepares batches of     *)
(* private keys (produce of src/search/pipeline.rs), the worker thread     *)
(* consumes them (run_with_source, run_inflight_source of src/search.rs    *)
(* over PipelineSource), and the device executes them in the slots of      *)
(* GpuRing.  Two host batches circulate: `recycle' brings empty or used    *)
(* ones to the producer, `ready' brings prepared ones to the worker.       *)
(*                                                                         *)
(* A thread blocks in recv_timeout or send_timeout only; each time it runs *)
(* into the timeout it looks at `stop' again.  Relaxed accesses to stop    *)
(* are modelled as sequentially consistent ones.                           *)
(***************************************************************************)
EXTENDS ChainKeys, Sequences, Integers

CONSTANTS
  NumSlots, Stride, Persist, MaxFill, MaxStep, NoBatch,  (* See GpuRing.   *)
  BatchSize,  (* Addresses per batch.                                      *)
  Headroom,   (* PERSIST_HEADROOM_BATCHES: steps a fill leaves room for.   *)
  MaxBatches  (* Bound: a hit is found in this batch at the latest.        *)

VARIABLES
  stop,       (* The flag all workers and the main thread share.           *)
  ready,      (* channel::bounded(1), producer to worker.                  *)
  recycle,    (* channel::bounded(2), worker to producer.                  *)
  producer,   (* Where the producer thread is in produce().                *)
  making,     (* The batch the producer has in its hands.                  *)
  fills,      (* CSPRNG fills made so far.                                 *)
  sequence,   (* The next sequence number to stamp.                        *)
  produced,   (* How the producer ended: "ok", "error", "panic".           *)
  worker,     (* Where the worker is in run_inflight_source() and run().   *)
  current,    (* PipelineSource.current.                                   *)
  expected,   (* PipelineSource.expected.                                  *)
  completed,  (* Batches added to the attempt counter.                     *)
  hit,        (* A hit has been found.                                     *)
  failure,    (* Why the worker's search failed, or "none".                *)
  result,     (* What run() returns: "hit", "none", "error", "panic".      *)
  log         (* History: the batches begun, and if stop was set by then.  *)

VARIABLES slots, collect_at, pending, held, got, error, dropped

Ring == INSTANCE GpuRing WITH Sizes <- {BatchSize}

ringVars == << slots, collect_at, pending, held, got, error, dropped >>

producerVars == << producer, making, fills, sequence, produced >>

workerVars == << worker, current, expected, completed, hit, failure, result,
                 log >>

vars == << stop, ready, recycle, producerVars, workerVars, ringVars >>

(* PreparedBatch; a fresh one has an empty key vector.                     *)
PreparedBatch == [keys : Ring!Contents, sequence : Nat, resume : BOOLEAN]

EmptyBatch == [keys |-> NoBatch, sequence |-> 0, resume |-> FALSE]

(* A backend has one slot or two, and with one run_with_source takes       *)
(* another path.  The bounds of GpuRing's caller are wide enough for the   *)
(* batches that can be begun.                                              *)
ASSUME PipelineAssumption ==
  /\ NumSlots = 2
  /\ BatchSize \in Nat \ {0}
  /\ Headroom \in Nat /\ MaxBatches \in Nat \ {0}
  /\ MaxFill >= MaxBatches + 3 /\ MaxStep >= MaxBatches
  /\ NoBatch \notin PreparedBatch
  /\ Ring!RingAssumption

Init ==
  /\ Ring!Init
  /\ stop \in BOOLEAN      (* Another worker may already have a hit.       *)
  /\ ready = << >>
  /\ recycle = << EmptyBatch, EmptyBatch >>
  /\ producer = "seed"
  /\ making = NoBatch
  /\ fills = 3
  /\ sequence = 0
  /\ produced = "none"
  /\ worker = "fill"
  /\ current = NoBatch
  /\ expected = 0
  /\ completed = 0
  /\ hit = FALSE
  /\ failure = "none"
  /\ result = "none"
  /\ log = << >>

(* The ends of the channels live until their thread is past the drop.      *)
ProducerGone == producer = "done"

WorkerGone == worker \in {"join", "done", "released"}

-----------------------------------------------------------------------------
(***************************************************************************)
(* produce().  receive and send load stop, wait for the channel, and start *)
(* over when the wait times out.                                           *)
(***************************************************************************)
ProducerEnds(how) == producer' = "exit" /\ produced' = how /\ making' = NoBatch

Seed ==
  /\ producer = "seed"
  /\ \/ producer' = "receive" /\ UNCHANGED << making, produced >>
     \/ ProducerEnds("error")
     \/ ProducerEnds("panic")
  /\ UNCHANGED << stop, ready, recycle, fills, sequence, workerVars, ringVars >>

ProducerReceive ==
  /\ producer = "receive"
  /\ IF stop THEN ProducerEnds("ok")
             ELSE producer' = "recv_timeout" /\ UNCHANGED << making, produced >>
  /\ UNCHANGED << stop, ready, recycle, fills, sequence, workerVars, ringVars >>

ProducerRecvTimeout ==
  /\ producer = "recv_timeout"
  /\ IF recycle # << >>
       THEN /\ making' = Head(recycle)
            /\ recycle' = Tail(recycle)
            /\ producer' = "prepare"
            /\ UNCHANGED produced
       ELSE /\ UNCHANGED recycle
            /\ IF WorkerGone
                 THEN ProducerEnds(IF stop THEN "ok" ELSE "error")
                 ELSE producer' = "receive" /\ UNCHANGED << making, produced >>
  /\ UNCHANGED << stop, ready, fills, sequence, workerVars, ringVars >>

(* The keys of the next batch: the old ones moved on by the stride while   *)
(* the points stay on the GPU, or new ones.  A fill leaves room for        *)
(* Headroom steps, so moving on cannot fail before that.                   *)
RefilledResuming ==
  [keys |-> Fresh(fills), sequence |-> sequence, resume |-> making.resume]

Refilled == [keys |-> Fresh(fills), sequence |-> sequence, resume |-> FALSE]

NotAdvanced == [keys |-> making.keys, sequence |-> sequence, resume |-> TRUE]

Advanced == [keys |-> Advance(making.keys), sequence |-> sequence,
             resume |-> TRUE]

MustRefill == ~ Persist \/ making.keys = NoBatch

MayRefill ==
  IF MustRefill THEN TRUE ELSE making.keys.step + 2 > Headroom

Prepare ==
  /\ producer = "prepare"
  /\ \/ /\ ~ MustRefill
        /\ making' = Advanced
        /\ producer' = "send"
        /\ sequence' = sequence + 1
        /\ UNCHANGED << fills, produced >>
     \/ /\ MayRefill
        /\ making' = Refilled
        /\ fills' = fills + 1
        /\ producer' = "send"
        /\ sequence' = sequence + 1
        /\ UNCHANGED produced
     \/ /\ MayRefill /\ stop              (* fill_secret_keys gave up.     *)
        /\ ProducerEnds("ok")
        /\ UNCHANGED << fills, sequence >>
     \/ /\ MayRefill                      (* The generator panicked.       *)
        /\ ProducerEnds("panic")
        /\ UNCHANGED << fills, sequence >>
  /\ UNCHANGED << stop, ready, recycle, workerVars, ringVars >>

ProducerSend ==
  /\ producer = "send"
  /\ IF stop THEN ProducerEnds("ok")
             ELSE producer' = "send_timeout" /\ UNCHANGED << making, produced >>
  /\ UNCHANGED << stop, ready, recycle, fills, sequence, workerVars, ringVars >>

ProducerSendTimeout ==
  /\ producer = "send_timeout"
  /\ IF WorkerGone
       THEN /\ ProducerEnds(IF stop THEN "ok" ELSE "error")
            /\ UNCHANGED ready
       ELSE /\ UNCHANGED produced
            /\ IF ready = << >>
                 THEN /\ ready' = << making >>
                      /\ making' = NoBatch
                      /\ producer' = "receive"
                 ELSE producer' = "send" /\ UNCHANGED << ready, making >>
  /\ UNCHANGED << stop, recycle, fills, sequence, workerVars, ringVars >>

(* The locals go first (StopOnExit), then the ends of the channels; what   *)
(* the recycle channel holds is dropped with its receiver.                 *)
ProducerExitUnannounced ==
  /\ producer = "exit"
  /\ producer' = "drop"
  /\ UNCHANGED << stop, ready, recycle, making, fills, sequence, produced,
                  workerVars, ringVars >>

ProducerExit ==
  /\ producer = "exit"
  /\ stop' = TRUE
  /\ producer' = "drop"
  /\ UNCHANGED << ready, recycle, making, fills, sequence, produced, workerVars,
                  ringVars >>

ProducerDrop ==
  /\ producer = "drop"
  /\ recycle' = << >>
  /\ producer' = "done"
  /\ UNCHANGED << stop, ready, making, fills, sequence, produced, workerVars,
                  ringVars >>

ProducerStep ==
  \/ Seed
  \/ ProducerReceive
  \/ ProducerRecvTimeout
  \/ Prepare
  \/ ProducerSend
  \/ ProducerSendTimeout
  \/ ProducerExit
  \/ ProducerDrop

-----------------------------------------------------------------------------
(***************************************************************************)
(* run_inflight_source() over PipelineSource.                              *)
(***************************************************************************)
WorkerFails(why) == worker' = "exit" /\ failure' = why

(* while held.len() < cap && !stop                                         *)
FillIgnoringStop ==
  /\ worker = "fill"
  /\ worker' = IF Len(held) < NumSlots THEN "recv_timeout" ELSE "collect"
  /\ UNCHANGED << stop, ready, recycle, producerVars, current, expected,
                  completed, hit, failure, result, log, ringVars >>

Fill ==
  /\ worker = "fill"
  /\ worker' = IF Len(held) < NumSlots /\ ~ stop THEN "receive" ELSE "collect"
  /\ UNCHANGED << stop, ready, recycle, producerVars, current, expected,
                  completed, hit, failure, result, log, ringVars >>

(* next(): no batch means that the loop goes on to collect.                *)
Receive ==
  /\ worker = "receive"
  /\ IF current # NoBatch
       THEN WorkerFails("batch not recycled")
       ELSE /\ worker' = IF stop THEN "collect" ELSE "recv_timeout"
            /\ UNCHANGED failure
  /\ UNCHANGED << stop, ready, recycle, producerVars, current, expected,
                  completed, hit, result, log, ringVars >>

RecvTimeout ==
  /\ worker = "recv_timeout"
  /\ IF ready # << >>
       THEN /\ current' = Head(ready)
            /\ ready' = Tail(ready)
            /\ IF Head(ready).sequence = expected
                 THEN /\ expected' = expected + 1
                      /\ worker' = "begin"
                      /\ UNCHANGED failure
                 ELSE /\ WorkerFails("order mismatch")
                      /\ UNCHANGED expected
       ELSE /\ UNCHANGED << ready, current, expected >>
            /\ IF ~ ProducerGone
                 THEN worker' = "receive" /\ UNCHANGED failure
                 ELSE IF stop
                        THEN worker' = "collect" /\ UNCHANGED failure
                        ELSE WorkerFails("source disconnected")
  /\ UNCHANGED << stop, recycle, producerVars, completed, hit, result, log,
                  ringVars >>

(* The clone of the keys goes to the backend and, if accepted, to held.    *)
Begin ==
  /\ worker = "begin"
  /\ \/ /\ Ring!BeginBatch(current.keys, BatchSize, current.resume)
        /\ log' = Append(log, [keys |-> current.keys, late |-> stop])
        /\ worker' = "send"
        /\ UNCHANGED failure
     \/ /\ \/ Ring!BeginFails(current.keys, BatchSize, current.resume)
           \/ Ring!BeginRefused
        /\ WorkerFails("backend")
        /\ UNCHANGED log
  /\ UNCHANGED << stop, ready, recycle, producerVars, current, expected,
                  completed, hit, result >>

(* recycle(): current has been taken, so a batch that is not sent is lost. *)
Send ==
  /\ worker = "send"
  /\ IF stop THEN worker' = "fill" /\ current' = NoBatch
             ELSE worker' = "send_timeout" /\ UNCHANGED current
  /\ UNCHANGED << stop, ready, recycle, producerVars, expected, completed, hit,
                  failure, result, log, ringVars >>

SendTimeoutLosing ==
  /\ worker = "send_timeout"
  /\ current' = NoBatch
  /\ worker' = "fill"
  /\ UNCHANGED << stop, ready, recycle, producerVars, expected, completed, hit,
                  failure, result, log, ringVars >>

SendTimeout ==
  /\ worker = "send_timeout"
  /\ IF ProducerGone
       THEN /\ current' = NoBatch
            /\ UNCHANGED recycle
            /\ IF stop THEN worker' = "fill" /\ UNCHANGED failure
                       ELSE WorkerFails("consumer disconnected")
       ELSE /\ UNCHANGED failure
            /\ IF Len(recycle) < 2
                 THEN /\ recycle' = Append(recycle, current)
                      /\ current' = NoBatch
                      /\ worker' = "fill"
                 ELSE worker' = "send" /\ UNCHANGED << recycle, current >>
  /\ UNCHANGED << stop, ready, producerVars, expected, completed, hit, result,
                  log, ringVars >>

(* held.pop_front(), end_batch, and the attempt counter.                   *)
Collect ==
  /\ worker = "collect"
  /\ IF held = << >>
       THEN worker' = "drain" /\ UNCHANGED << completed, failure, ringVars >>
       ELSE /\ Ring!EndBatch
            /\ IF error' = "none"
                 THEN /\ completed' = completed + 1
                      /\ worker' = "match"
                      /\ UNCHANGED failure
                 ELSE WorkerFails("backend") /\ UNCHANGED completed
  /\ UNCHANGED << stop, ready, recycle, producerVars, current, expected, hit,
                  result, log >>

(* evaluate_batch, the CPU check of a hit or a candidate, and progress(),  *)
(* a closure of the caller that may panic.                                 *)
Match ==
  /\ worker = "match"
  /\ \/ stop' = TRUE /\ hit' = TRUE /\ worker' = "drain" /\ UNCHANGED failure
     \/ /\ completed < MaxBatches
        /\ worker' = "fill"
        /\ UNCHANGED << stop, hit, failure >>
     \/ /\ \E why \in {"verify", "panic"} : WorkerFails(why)
        /\ UNCHANGED << stop, hit >>
  /\ UNCHANGED << ready, recycle, producerVars, current, expected, completed,
                  result, log, ringVars >>

DrainNothing ==
  /\ worker = "drain"
  /\ worker' = "exit"
  /\ UNCHANGED << stop, ready, recycle, producerVars, current, expected,
                  completed, hit, failure, result, log, ringVars >>

(* What is still in flight is waited for, but neither counted nor matched. *)
Drain ==
  /\ worker = "drain"
  /\ IF held = << >>
       THEN worker' = "exit" /\ UNCHANGED << failure, ringVars >>
       ELSE /\ Ring!EndBatch
            /\ IF error' = "none" THEN UNCHANGED << worker, failure >>
                                  ELSE WorkerFails("backend")
  /\ UNCHANGED << stop, ready, recycle, producerVars, current, expected,
                  completed, hit, result, log >>

(* The locals of run_inflight_source, then StopOnExit of run_with_source,  *)
(* also when a panic unwinds.                                              *)
Exit ==
  /\ worker = "exit"
  /\ Ring!Abandon
  /\ stop' = TRUE
  /\ worker' = "drop"
  /\ UNCHANGED << ready, recycle, producerVars, current, expected, completed,
                  hit, failure, result, log >>

(* drop(source): the worker's ends of the channels.                        *)
Drop ==
  /\ worker = "drop"
  /\ ready' = << >>
  /\ current' = NoBatch
  /\ worker' = "join"
  /\ UNCHANGED << stop, recycle, producerVars, expected, completed, hit,
                  failure, result, log, ringVars >>

(* The producer is joined first: its error or panic replaces the result.   *)
ReturnHitFirst ==
  CASE failure = "panic"  -> "panic"
    [] failure # "panic" /\ hit -> "hit"
    [] OTHER -> IF produced # "ok" \/ failure # "none" THEN "error" ELSE "none"

Return ==
  CASE failure = "panic"                                         -> "panic"
    [] failure # "panic" /\ (produced # "ok" \/ failure # "none") -> "error"
    [] OTHER -> IF hit THEN "hit" ELSE "none"

Join ==
  /\ worker = "join"
  /\ producer = "done"
  /\ result' = Return
  /\ worker' = "done"
  /\ UNCHANGED << stop, ready, recycle, producerVars, current, expected,
                  completed, hit, failure, log, ringVars >>

(* The caller of run() drops the backend.                                  *)
Release ==
  /\ worker = "done"
  /\ Ring!DropBackend
  /\ worker' = "released"
  /\ UNCHANGED << stop, ready, recycle, producerVars, current, expected,
                  completed, hit, failure, result, log >>

WorkerStep ==
  \/ Fill
  \/ Receive
  \/ RecvTimeout
  \/ Begin
  \/ Send
  \/ SendTimeout
  \/ Collect
  \/ Match
  \/ Drain
  \/ Exit
  \/ Drop
  \/ Join
  \/ Release

-----------------------------------------------------------------------------
Device ==
  /\ \E i \in Ring!Slot : Ring!Execute(i) \/ Ring!DeviceFails(i)
  /\ UNCHANGED << stop, ready, recycle, producerVars, workerVars >>

(* Another worker, or the main thread, ends the search.                    *)
Cancel ==
  /\ ~ stop
  /\ stop' = TRUE
  /\ UNCHANGED << ready, recycle, producerVars, workerVars, ringVars >>

(* Nothing happens any more once the backend is released.                  *)
Terminated == worker = "released" /\ UNCHANGED vars

Next ==
  \/ ProducerStep
  \/ WorkerStep
  \/ Device
  \/ Cancel
  \/ Terminated

(* The operating system runs both threads, and the device ends every       *)
(* command it has, with success or with an error.                          *)
Fairness == WF_vars(ProducerStep) /\ WF_vars(WorkerStep) /\ WF_vars(Device)

Spec == Init /\ [][Next]_vars /\ Fairness
-----------------------------------------------------------------------------
(* Every variable has its type (PreparedBatch, PipelineSource and the      *)
(* channels of pipeline.rs); the channels keep to their capacities.        *)
TypeOK ==
  /\ Ring!TypeOK
  /\ {stop, hit} \subseteq BOOLEAN
  /\ ready \in Seq(PreparedBatch) /\ Len(ready) <= 1
  /\ recycle \in Seq(PreparedBatch) /\ Len(recycle) <= 2
  /\ producer \in {"seed", "receive", "recv_timeout", "prepare", "send",
                   "send_timeout", "exit", "drop", "done"}
  /\ {making, current} \subseteq PreparedBatch \union {NoBatch}
  /\ {fills, sequence, expected, completed} \subseteq Nat
  /\ produced \in {"none", "ok", "error", "panic"}
  /\ worker \in {"fill", "receive", "recv_timeout", "begin", "send",
                 "send_timeout", "collect", "match", "drain", "exit", "drop",
                 "join", "done", "released"}
  /\ failure \in {"none", "batch not recycled", "order mismatch",
                  "source disconnected", "consumer disconnected", "backend",
                  "verify", "panic"}
  /\ result \in {"none", "hit", "error", "panic"}
  /\ log \in Seq([keys : KeyBatch, late : BOOLEAN])

(***************************************************************************)
(* The ensure!s of the pipeline itself never fire, on either side and in   *)
(* whatever order the two threads end: only the entropy source, the        *)
(* device, a wrong result of it or the caller's closure makes run() fail.  *)
(* In particular a side that finds the channel disconnected finds stop set.*)
(***************************************************************************)
OnlyForeignFailures ==
  /\ failure \in {"none", "backend", "verify", "panic"}
  /\ failure = "backend" => error = "device"
  /\ produced = "error" => sequence = 0

(* No private key is searched twice: no two batches begun hold the same    *)
(* scalars, however the two buffers alternate between refill and advance.  *)
NoKeyTwice ==
  \A i, j \in 1 .. Len(log) : log[i].keys = log[j].keys => i = j

(* Once stop is set, at most one more batch is submitted to the GPU: the   *)
(* worker looks at stop before every batch it takes.                       *)
OneBeginAfterStop ==
  \A i, j \in 1 .. Len(log) : log[i].late /\ log[j].late => i = j

(* The batch matched as the n-th is the n-th one begun, with its own       *)
(* addresses: the attempt numbers of hits and candidates rest on this.     *)
ResultsInOrder ==
  worker = "match" =>
    got = [keys |-> log[completed].keys, addresses |-> log[completed].keys]

(***************************************************************************)
(* run() returns a hit iff one was found, nothing failed afterwards, and   *)
(* the producer ended well ("entropy errors/panics must not be hidden by a *)
(* successful consumer result").                                           *)
(***************************************************************************)
HonestResult ==
  worker \in {"done", "released"} =>
    (result = "hit" <=> hit /\ failure = "none" /\ produced = "ok")

(***************************************************************************)
(* A search that returns without an error, a hit with a second batch in    *)
(* flight included, leaves no command and no key on the device; and once   *)
(* the backend is released no private key is left in any channel, hand or  *)
(* device buffer, whatever failed or panicked before.                      *)
(***************************************************************************)
NothingLeftBehind ==
  /\ worker = "done" /\ result \in {"hit", "none"} =>
       /\ pending = 0
       /\ \A i \in Ring!Slot : slots[i].input = NoBatch
  /\ worker = "released" =>
       /\ ready = << >> /\ recycle = << >> /\ held = << >>
       /\ making = NoBatch /\ current = NoBatch
       /\ \A i \in Ring!Slot : slots[i].input = NoBatch

(***************************************************************************)
(* The worker is a caller GpuRing is specified for.  In particular what it *)
(* says of a batch it resumes is true: the slot it goes to has last run    *)
(* the batch these very keys were moved on from (the contract of           *)
(* begin_resumed), although neither thread names a slot to the other.      *)
(***************************************************************************)
ImplementsRing == Ring!Init /\ [][Ring!Next]_ringVars

(* Neither thread ever waits for the other for good: the search, given a   *)
(* hit, a failure or a cancellation, ends and releases the backend.        *)
Terminates == <>(worker = "released")
=============================================================================
