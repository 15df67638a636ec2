----------------------------- MODULE SearchRun ------------------------------
(***************************************************************************)
(* A whole search: the main thread (main of src/main.rs: the crossbeam     *)
(* scope, receive_hit, the closest-candidate file, the exit status) and    *)
(* its workers, each in the one-slot loop of run_with_source               *)
(* (src/search.rs).                                                        *)
(*                                                                         *)
(* An address is abstracted to its rank, 0 for no match and MaxRank for a  *)
(* hit (with no target at all MaxRank is 0).  BestState is one step here:  *)
(* module BestState shows it implements a register of the maximum.  A      *)
(* batch counts as one attempt.                                            *)
(***************************************************************************)
EXTENDS Naturals, Sequences, FiniteSets, Functions

CONSTANTS
  Worker,      (* The worker threads.                                      *)
  MaxRank,     (* The rank of a hit.                                       *)
  FlushEvery,  (* GLOBAL_TRY_FLUSH, in batches.                            *)
  ReportEvery, (* --report-every, in batches; 0 disables progress.         *)
  MaxBatches,  (* Bound: the batches counted of one worker; it may go on   *)
               (* deriving others, which change no counter.                *)
  Stale        (* What an earlier run left in the closest-candidate file.  *)

ASSUME SearchRunAssumption ==
  /\ IsFiniteSet(Worker) /\ Worker # {}
  /\ {MaxRank, ReportEvery} \subseteq Nat
  /\ {FlushEvery, MaxBatches} \subseteq Nat \ {0}
  /\ Stale \notin Nat

VARIABLES
  stop,       (* The flag all threads share.                               *)
  total,      (* global_tries.                                             *)
  best,       (* The rank in BestState, 0 for None.                        *)
  updates,    (* closest_tx, bounded(1): a save is requested.              *)
  hits,       (* tx, unbounded: "hit" or "error" of a worker.              *)
  pc,         (* Where each worker is.                                     *)
  completed,  (* completed of run_with_source.                             *)
  pending,    (* TryCounter.pending.                                       *)
  found,      (* The batch just matched contains a hit.                    *)
  outcome,    (* What the worker's search returns.                         *)
  main,       (* Where the main thread is.                                 *)
  snapshot,   (* The rank save_closest writes.                             *)
  file,       (* The rank in the closest-candidate file, 0 for no file.    *)
  received,   (* What receive_hit returned.                                *)
  saved,      (* The last save_closest succeeded.                          *)
  result      (* How main ends; a panic that unwinds it is an "error".     *)

shared == << stop, total, best, updates, hits >>

workers == << pc, completed, pending, found, outcome >>

mains == << main, snapshot, file, received, saved, result >>

vars == << shared, workers, mains >>

Rank == 0 .. MaxRank

Init ==
  /\ stop = FALSE
  /\ total = 0
  /\ best = 0
  /\ updates = 0
  /\ hits = << >>
  /\ pc = [w \in Worker |-> "unborn"]
  /\ completed = [w \in Worker |-> 0]
  /\ pending = [w \in Worker |-> 0]
  /\ found = [w \in Worker |-> FALSE]
  /\ outcome = [w \in Worker |-> "none"]
  /\ main = "spawn"
  /\ snapshot = 0
  /\ file \in {0, Stale}
  /\ received = "none"
  /\ saved = TRUE
  /\ result = "none"

Goto(w, step) == pc' = [pc EXCEPT ![w] = step]

(* Dropping a StopOnExit, on a return as well as on an unwinding panic.    *)
StopOnExitInert == UNCHANGED stop

StopOnExit == stop' = TRUE

Leaves(w, how) == Goto(w, "leave") /\ outcome' = [outcome EXCEPT ![w] = how]

-----------------------------------------------------------------------------
(***************************************************************************)
(* run_with_source.                                                        *)
(***************************************************************************)
(* while !stop, next(), and the second look at stop.                       *)
Continue(w) ==
  /\ pc[w] = "loop"
  /\ IF stop THEN Leaves(w, "none") ELSE Goto(w, "derive") /\ UNCHANGED outcome
  /\ UNCHANGED << shared, completed, pending, found, mains >>

(* derive_batch and the attempt counter: a full pending count is added to  *)
(* the total of all workers.                                               *)
FlushKeepingPending(w, count) ==
  total' = total + count /\ pending' = [pending EXCEPT ![w] = count]

Flush(w, count) ==
  total' = total + count /\ pending' = [pending EXCEPT ![w] = 0]

FlushDue(w) == pending[w] + 1 >= FlushEvery

Derive(w) ==
  /\ pc[w] = "derive"
  /\ \/ /\ completed[w] < MaxBatches
        /\ completed' = [completed EXCEPT ![w] = @ + 1]
        /\ IF FlushDue(w)
             THEN Flush(w, pending[w] + 1)
             ELSE pending' = [pending EXCEPT ![w] = @ + 1] /\ UNCHANGED total
        /\ Goto(w, "check")
        /\ UNCHANGED outcome
     \/ /\ completed[w] = MaxBatches
        /\ Goto(w, "check")
        /\ UNCHANGED << total, completed, pending, outcome >>
     \/ /\ Leaves(w, "error")
        /\ UNCHANGED << total, completed, pending >>
  /\ UNCHANGED << stop, best, updates, hits, found, mains >>

(* A batch that ends after the stop is counted, but not matched.           *)
Check(w) ==
  /\ pc[w] = "check"
  /\ IF stop THEN Leaves(w, "none") ELSE Goto(w, "match") /\ UNCHANGED outcome
  /\ UNCHANGED << shared, completed, pending, found, mains >>

(* evaluate_batch and consider_checked; the CPU check of a hit or of a new *)
(* best may fail.  A hit has the highest rank there is.                    *)
Improves(rank) == rank > best

Match(w) ==
  /\ pc[w] = "match"
  /\ \/ \E rank \in Rank :
          /\ found' = [found EXCEPT ![w] = rank = MaxRank]
          /\ IF Improves(rank)
               THEN best' = rank /\ Goto(w, "notify")
               ELSE UNCHANGED best /\ Goto(w, "report")
          /\ UNCHANGED outcome
     \/ Leaves(w, "error") /\ UNCHANGED << found, best >>
  /\ UNCHANGED << stop, total, updates, hits, completed, pending, mains >>

(* updates.try_send(()): when a request is there already this one is lost. *)
NotifyFails(w) ==
  /\ pc[w] = "notify"
  /\ Goto(w, "report")
  /\ UNCHANGED << shared, completed, pending, found, outcome, mains >>

Notify(w) ==
  /\ pc[w] = "notify"
  /\ updates' = 1
  /\ Goto(w, "report")
  /\ UNCHANGED << stop, total, best, hits, completed, pending, found, outcome,
                  mains >>

(* progress(), a closure that may panic, after a flush of the counter.     *)
Report(w) ==
  /\ pc[w] = "report"
  /\ IF ReportEvery > 0 /\ completed[w] % ReportEvery = 0
       THEN /\ Flush(w, pending[w])
            /\ \/ Goto(w, "swap") /\ UNCHANGED outcome
               \/ Leaves(w, "panic")
       ELSE Goto(w, "swap") /\ UNCHANGED << total, pending, outcome >>
  /\ UNCHANGED << stop, best, updates, hits, completed, found, mains >>

(* stop.swap(true): only the first hit of all workers is returned.         *)
StoreForSwap(w) ==
  /\ pc[w] = "swap"
  /\ IF found[w] THEN Leaves(w, "hit") /\ stop' = TRUE
                 ELSE Goto(w, "loop") /\ UNCHANGED << outcome, stop >>
  /\ UNCHANGED << total, best, updates, hits, completed, pending, found, mains >>

Swap(w) ==
  /\ pc[w] = "swap"
  /\ IF found[w]
       THEN Leaves(w, IF stop THEN "none" ELSE "hit") /\ stop' = TRUE
       ELSE Goto(w, "loop") /\ UNCHANGED << outcome, stop >>
  /\ UNCHANGED << total, best, updates, hits, completed, pending, found, mains >>

(* The locals of run_with_source, also on an error and when a panic        *)
(* unwinds: TryCounter adds what is pending, StopOnExit stops the others.  *)
Leave(w) ==
  /\ pc[w] = "leave"
  /\ Flush(w, pending[w])
  /\ StopOnExit
  /\ Goto(w, "send")
  /\ UNCHANGED << best, updates, hits, completed, found, outcome, mains >>

(* The rest of the spawned closure: a hit or an error is sent, the         *)
(* thread's sender is dropped, and the closure's own StopOnExit.           *)
Send(w) ==
  /\ pc[w] = "send"
  /\ hits' = IF outcome[w] \in {"hit", "error"} THEN Append(hits, outcome[w])
                                                ELSE hits
  /\ StopOnExit
  /\ Goto(w, "gone")
  /\ UNCHANGED << total, best, updates, completed, pending, found, outcome,
                  mains >>

WorkerStep(w) ==
  \/ Continue(w)
  \/ Derive(w)
  \/ Check(w)
  \/ Match(w)
  \/ Notify(w)
  \/ Report(w)
  \/ Swap(w)
  \/ Leave(w)
  \/ Send(w)

-----------------------------------------------------------------------------
(***************************************************************************)
(* main: crossbeam::scope.                                                 *)
(***************************************************************************)
Spawned == {w \in Worker : pc[w] # "unborn"}

Gone == \A w \in Spawned : pc[w] = "gone"

(* Spawning the workers one by one; a failing spawn panics, which unwinds  *)
(* the scope's closure: no receive_hit and no save then.                   *)
Spawn ==
  /\ main = "spawn"
  /\ \/ /\ Spawned # Worker
        /\ \E w \in Worker \ Spawned : Goto(w, "loop")
        /\ UNCHANGED << main, received >>
     \/ /\ Spawned # Worker
        /\ main' = "stop"
        /\ received' = "panic"
        /\ UNCHANGED pc
     \/ /\ Spawned = Worker
        /\ main' = "receive"
        /\ UNCHANGED << pc, received >>
  /\ UNCHANGED << shared, completed, pending, found, outcome, snapshot, file,
                  saved, result >>

(* receive_hit: select! takes one of the two channels that has something,  *)
(* in no particular order.  Updates never disconnect, main has a sender.   *)
ReceiveHit ==
  /\ main = "receive"
  /\ \/ /\ hits # << >>
        /\ received' = Head(hits)
        /\ hits' = Tail(hits)
        /\ main' = "stop"
        /\ UNCHANGED updates
     \/ /\ hits = << >> /\ Gone
        /\ main' = "stop"
        /\ UNCHANGED << received, hits, updates >>
     \/ /\ updates = 1
        /\ updates' = 0
        /\ main' = "snapshot"
        /\ UNCHANGED << received, hits >>
  /\ UNCHANGED << stop, total, best, workers, snapshot, file, saved, result >>

(* save_closest: BestState.snapshot(), then write_closest_candidate, which *)
(* replaces the file or, without a candidate, removes it.                  *)
Snapshot ==
  /\ main \in {"snapshot", "last snapshot"}
  /\ snapshot' = best
  /\ main' = IF main = "snapshot" THEN "write" ELSE "last write"
  /\ UNCHANGED << shared, workers, file, received, saved, result >>

Write ==
  /\ main = "write"
  /\ \/ /\ file' = snapshot
        /\ main' = "receive"
        /\ UNCHANGED received
     \/ /\ received' = "error"
        /\ main' = "stop"
        /\ UNCHANGED file
  /\ UNCHANGED << shared, workers, snapshot, saved, result >>

(* stop.store(true) after receive_hit; in an unwinding closure its         *)
(* StopOnExit, which cancels the workers already started.                  *)
Stop ==
  /\ main = "stop"
  /\ IF received = "panic" THEN StopOnExit ELSE stop' = TRUE
  /\ main' = "join"
  /\ UNCHANGED << total, best, updates, hits, workers, snapshot, file, received,
                  saved, result >>

(* The scope joins the workers and returns, with an error if one of them   *)
(* panicked; the summary thread is joined after it.                        *)
JoinWithoutSave ==
  /\ main = "join" /\ Gone /\ received # "panic"
  /\ main' = "decide"
  /\ UNCHANGED << shared, workers, snapshot, file, received, saved, result >>

Join ==
  /\ main = "join" /\ Gone /\ received # "panic"
  /\ main' = "last snapshot"
  /\ UNCHANGED << shared, workers, snapshot, file, received, saved, result >>

(* After a panic of its own closure the scope joins the workers too, but   *)
(* then resumes the panic: main ends there, without the last save and      *)
(* without a look at what the workers have sent.                           *)
Unwind ==
  /\ main = "join" /\ Gone /\ received = "panic"
  /\ result' = "error"
  /\ main' = "done"
  /\ UNCHANGED << shared, workers, snapshot, file, received, saved >>

LastWrite ==
  /\ main = "last write"
  /\ \/ file' = snapshot /\ saved' = TRUE
     \/ UNCHANGED file /\ saved' = FALSE
  /\ main' = "decide"
  /\ UNCHANGED << shared, workers, snapshot, received, result >>

(* The exit status: a panic of a worker, an error received first, an error *)
(* still in the channel, a failed save, and only then the hit.             *)
Panicked == \E w \in Worker : outcome[w] = "panic"

StatusOfFirst ==
  IF Panicked \/ received = "error" \/ ~ saved THEN "error" ELSE received

Status ==
  IF \/ Panicked
     \/ received = "error"
     \/ \E k \in 1 .. Len(hits) : hits[k] = "error"
     \/ ~ saved
    THEN "error" ELSE received

(* A hit is written to the output file, which may fail.                    *)
Decide ==
  /\ main = "decide"
  /\ \/ result' = Status
     \/ Status = "hit" /\ result' = "error"
  /\ hits' = << >>
  /\ main' = "done"
  /\ UNCHANGED << stop, total, best, updates, workers, snapshot, file, received,
                  saved >>

MainStep ==
  \/ Spawn
  \/ ReceiveHit
  \/ Snapshot
  \/ Write
  \/ Stop
  \/ Join
  \/ Unwind
  \/ LastWrite
  \/ Decide

Terminated == main = "done" /\ UNCHANGED vars

Next ==
  \/ \E w \in Worker : WorkerStep(w)
  \/ MainStep
  \/ Terminated

(* The operating system runs every thread.                                 *)
Fairness == WF_vars(MainStep) /\ \A w \in Worker : WF_vars(WorkerStep(w))

Spec == Init /\ [][Next]_vars /\ Fairness

-----------------------------------------------------------------------------
(* Every variable has its type (WorkerContext, TryCounter, main).          *)
TypeOK ==
  /\ stop \in BOOLEAN
  /\ total \in Nat
  /\ {best, snapshot} \subseteq Rank
  /\ updates \in 0 .. 1
  /\ hits \in Seq({"hit", "error"})
  /\ pc \in [Worker -> {"unborn", "loop", "derive", "check", "match", "notify",
                        "report", "swap", "leave", "send", "gone"}]
  /\ completed \in [Worker -> Nat]
  /\ pending \in [Worker -> 0 .. FlushEvery - 1]
  /\ found \in [Worker -> BOOLEAN]
  /\ outcome \in [Worker -> {"none", "hit", "error", "panic"}]
  /\ main \in {"spawn", "receive", "snapshot", "write", "stop", "join",
               "last snapshot", "last write", "decide", "done"}
  /\ file \in Rank \union {Stale}
  /\ received \in {"none", "hit", "error", "panic"}
  /\ saved \in BOOLEAN
  /\ result \in {"none", "hit", "error"}

(* At most one worker returns a hit, so the file gets at most one, however *)
(* many workers find one at the same time.                                 *)
AtMostOneHit == Cardinality({w \in Worker : outcome[w] = "hit"}) <= 1

(***************************************************************************)
(* Attempts are neither lost nor counted twice: while the search runs the  *)
(* total and the pending counts add up to the batches derived, and main    *)
(* reads the exact total, also after errors and panics.                    *)
(***************************************************************************)
AttemptsAddUp ==
  /\ total + SumFunction(pending) = SumFunction(completed)
  /\ main = "done" => total = SumFunction(completed)

(***************************************************************************)
(* An improvement is never forgotten: whenever main waits without a save   *)
(* requested, and no worker is about to request one, the file holds the    *)
(* best candidate, although requests are dropped while one is queued.      *)
(***************************************************************************)
ImprovementSaved ==
  main = "receive" /\ updates = 0 /\ (\A w \in Worker : pc[w] # "notify") =>
    best = 0 \/ file = best

(***************************************************************************)
(* When main returns, the file holds the best candidate of the whole run,  *)
(* and never an earlier run's, unless the last save failed; after a hit it *)
(* is a hit.  Only a main that unwinds, since a worker could not be        *)
(* spawned, leaves the file as it was before the run, whatever the workers *)
(* spawned until then have found.                                          *)
(***************************************************************************)
FileIsFinal ==
  main = "done" =>
    /\ received # "panic" /\ saved => file = best
    /\ received = "panic" => file \in {0, Stale}
    /\ result = "hit" => file = MaxRank

(***************************************************************************)
(* main returns success only with a hit, and only if no worker failed or   *)
(* panicked, whenever that happened ("Do not hide a worker error that      *)
(* arrived after the first terminal event").                               *)
(***************************************************************************)
HonestStatus ==
  main = "done" =>
    /\ result \in {"hit", "error"}
    /\ result = "hit" => \A w \in Worker : outcome[w] \in {"hit", "none"}

(* Once one worker has ended, by a hit, an error or a panic, or the scope  *)
(* has, by a failed save or spawn, all threads end and so does main.       *)
OneEndEndsAll ==
  (main = "stop" \/ \E w \in Worker : pc[w] = "gone") ~> main = "done"
=============================================================================
