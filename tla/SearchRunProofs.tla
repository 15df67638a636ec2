--------------------------- MODULE SearchRunProofs ---------------------------
(***************************************************************************)
(* Proofs about SearchRun, for any number of workers, any MaxRank, any     *)
(* flush and report intervals and any number of batches.                   *)
(*                                                                         *)
(* The inductive invariant IInv follows one event through the program: why *)
(* the search stopped (StopHasCause), where a worker's hit or error is     *)
(* until main has decided (OutcomesReported), what a hit says of the       *)
(* register (HitsAreBest), and which candidate the next save will write    *)
(* (SavePending).                                                          *)
(***************************************************************************)
EXTENDS SearchRun, FiniteSetTheorems, WellFoundedInduction, TLAPS

Waiting == main \in {"spawn", "receive", "snapshot", "write"}

Joined == main \in {"last snapshot", "last write", "decide", "done"}

Flow ==
  /\ Waiting => received = "none"
  /\ main \in {"receive", "snapshot", "write"} =>
       \A w \in Worker : pc[w] # "unborn"
  /\ Joined => \A w \in Worker : pc[w] \in {"unborn", "gone"}
  /\ \A w \in Worker : outcome[w] # "none" => pc[w] \in {"leave", "send", "gone"}

StopHasCause ==
  /\ \A w \in Worker :
       /\ outcome[w] = "hit" => stop
       /\ pc[w] \in {"leave", "send", "gone"} => stop \/ outcome[w] # "none"
  /\ stop /\ Waiting => \E w \in Worker : outcome[w] # "none"

OneHit ==
  \A v, w \in Worker : outcome[v] = "hit" /\ outcome[w] = "hit" => v = w

OutcomesReported ==
  /\ main # "done" =>
       \A w \in Worker :
         pc[w] = "gone" /\ outcome[w] \in {"hit", "error"} =>
           \/ ~ Waiting /\ received = outcome[w]
           \/ \E k \in 1 .. Len(hits) : hits[k] = outcome[w]
  /\ ~ Waiting /\ received = "none" =>
       \E w \in Worker : outcome[w] = "panic"

HitsAreBest ==
  /\ \A w \in Worker : found[w] \/ outcome[w] = "hit" => best = MaxRank
  /\ \A k \in 1 .. Len(hits) :
       hits[k] = "hit" => \E w \in Worker : outcome[w] = "hit"
  /\ received = "hit" => \E w \in Worker : outcome[w] = "hit"

NoneToNotify == updates = 0 /\ \A w \in Worker : pc[w] # "notify"

SavePending ==
  /\ main \in {"spawn", "receive"} /\ NoneToNotify => best = 0 \/ file = best
  /\ main = "write" /\ NoneToNotify => snapshot = best
  /\ main = "last write" => snapshot = best
  /\ main \in {"decide", "done"} /\ received # "panic" /\ saved => file = best
  /\ main = "spawn" \/ received = "panic" => file \in {0, Stale}
  /\ received = "panic" => main \in {"stop", "join", "done"}

Decided ==
  main = "done" =>
    /\ result \in {"hit", "error"}
    /\ result = "hit" => /\ saved /\ received # "panic"
                         /\ best = MaxRank
                         /\ \A w \in Worker : outcome[w] \in {"hit", "none"}

IInv ==
  /\ TypeOK
  /\ Flow
  /\ StopHasCause
  /\ OneHit
  /\ OutcomesReported
  /\ HitsAreBest
  /\ SavePending
  /\ Decided

-----------------------------------------------------------------------------
LEMMA ConstantTypes ==
  /\ MaxRank \in Nat /\ ReportEvery \in Nat
  /\ FlushEvery \in Nat \ {0} /\ MaxBatches \in Nat
  /\ 0 \in Rank /\ MaxRank \in Rank
  BY SearchRunAssumption DEF Rank

LEMMA InitIInv == Init => IInv
<1>. SUFFICES ASSUME Init PROVE IInv
  OBVIOUS
<1>1. 0 \in 0 .. FlushEvery - 1 /\ 0 \in 0 .. 1
  BY ConstantTypes
<1>2. /\ {best, snapshot} \subseteq Rank /\ file \in Rank \union {Stale}
      /\ updates \in 0 .. 1 /\ total \in Nat /\ hits \in Seq({"hit", "error"})
      /\ completed \in [Worker -> Nat]
      /\ pending \in [Worker -> 0 .. FlushEvery - 1]
  BY <1>1, ConstantTypes DEF Init
<1>3. TypeOK
  <2>1. /\ pc = [w \in Worker |-> "unborn"]
        /\ found = [w \in Worker |-> FALSE]
        /\ outcome = [w \in Worker |-> "none"]
        /\ stop = FALSE /\ main = "spawn" /\ received = "none"
        /\ saved = TRUE /\ result = "none"
    BY DEF Init
  <2>. QED  BY <1>2, <2>1 DEF TypeOK
<1>4. Flow /\ StopHasCause /\ OneHit /\ OutcomesReported
  BY DEF Init, Flow, StopHasCause, OneHit, OutcomesReported, Waiting, Joined
<1>5. HitsAreBest /\ SavePending /\ Decided
  BY DEF Init, HitsAreBest, SavePending, Decided
<1>. QED  BY <1>3, <1>4, <1>5 DEF IInv

-----------------------------------------------------------------------------
(* Flush leaves nothing pending, and a batch is pending only below         *)
(* FlushEvery.                                                             *)
LEMMA FlushTypes ==
  ASSUME TypeOK, NEW w \in Worker
  PROVE  /\ \A count \in Nat :
              Flush(w, count) => /\ total' \in Nat
                                 /\ pending' \in [Worker -> 0 .. FlushEvery - 1]
         /\ pending[w] \in Nat /\ pending[w] + 1 \in Nat
         /\ ~ FlushDue(w) => pending[w] + 1 \in 0 .. FlushEvery - 1
         /\ completed[w] + 1 \in Nat
<1>0. 0 \in 0 .. FlushEvery - 1
  BY ConstantTypes
<1>1. /\ total \in Nat /\ pending \in [Worker -> 0 .. FlushEvery - 1]
      /\ completed[w] \in Nat
  BY DEF TypeOK
<1>2. pending[w] \in 0 .. FlushEvery - 1
  BY <1>1
<1>3. pending[w] \in Nat /\ pending[w] + 1 \in Nat /\ completed[w] + 1 \in Nat
  BY <1>1, <1>2, ConstantTypes
<1>4. ~ FlushDue(w) => pending[w] + 1 \in 0 .. FlushEvery - 1
  BY <1>3, ConstantTypes DEF FlushDue
<1>5. ASSUME NEW count \in Nat, Flush(w, count)
      PROVE  /\ total' \in Nat
             /\ pending' \in [Worker -> 0 .. FlushEvery - 1]
  BY <1>0, <1>1, <1>5 DEF Flush
<1>. QED  BY <1>3, <1>4, <1>5

(* Every step of a worker keeps the types; the pending count stays below   *)
(* FlushEvery because a full one is added to the total.                    *)
LEMMA WorkerTypeOK ==
  ASSUME TypeOK, NEW w \in Worker, WorkerStep(w)
  PROVE  TypeOK'
<1>. USE DEF TypeOK, Goto, Leaves, StopOnExit, shared, workers, mains
<1>1. CASE Continue(w)
  BY <1>1 DEF Continue
<1>2. CASE Derive(w)
  <2>1. /\ total' \in Nat /\ completed' \in [Worker -> Nat]
        /\ pending' \in [Worker -> 0 .. FlushEvery - 1]
    BY <1>2, FlushTypes DEF Derive
  <2>2. outcome' \in [Worker -> {"none", "hit", "error", "panic"}]
    BY <1>2 DEF Derive
  <2>3. pc' \in [Worker -> {"unborn", "loop", "derive", "check", "match",
                            "notify", "report", "swap", "leave", "send", "gone"}]
    BY <1>2 DEF Derive
  <2>. QED  BY <1>2, <2>1, <2>2, <2>3 DEF Derive
<1>3. CASE Check(w)
  BY <1>3 DEF Check
<1>4. CASE Match(w)
  <2>1. best' \in Rank /\ found' \in [Worker -> BOOLEAN]
    BY <1>4 DEF Match
  <2>2. outcome' \in [Worker -> {"none", "hit", "error", "panic"}]
    BY <1>4 DEF Match
  <2>3. pc' \in [Worker -> {"unborn", "loop", "derive", "check", "match",
                            "notify", "report", "swap", "leave", "send", "gone"}]
    BY <1>4 DEF Match
  <2>. QED  BY <1>4, <2>1, <2>2, <2>3 DEF Match
<1>5. CASE Notify(w)
  <2>1. updates' \in 0 .. 1
    <3>1. updates' = 1
      BY <1>5 DEF Notify
    <3>. HIDE DEF TypeOK
    <3>. QED  BY <3>1
  <2>. QED  BY <1>5, <2>1 DEF Notify
<1>6. CASE Report(w)
  <2>1. total' \in Nat /\ pending' \in [Worker -> 0 .. FlushEvery - 1]
    BY <1>6, FlushTypes DEF Report
  <2>. QED  BY <1>6, <2>1 DEF Report
<1>7. CASE Swap(w)
  BY <1>7 DEF Swap
<1>8. CASE Leave(w)
  <2>1. total' \in Nat /\ pending' \in [Worker -> 0 .. FlushEvery - 1]
    BY <1>8, FlushTypes DEF Leave
  <2>. QED  BY <1>8, <2>1 DEF Leave
<1>9. CASE Send(w)
  <2>1. hits' \in Seq({"hit", "error"})
    <3>1. hits \in Seq({"hit", "error"})
      BY DEF TypeOK
    <3>. HIDE DEF TypeOK
    <3>2. hits' = IF outcome[w] \in {"hit", "error"} THEN Append(hits, outcome[w])
                                                     ELSE hits
      BY <1>9 DEF Send
    <3>. QED  BY <3>1, <3>2
  <2>. QED  BY <1>9, <2>1 DEF Send
<1>. QED
  BY <1>1, <1>2, <1>3, <1>4, <1>5, <1>6, <1>7, <1>8, <1>9 DEF WorkerStep

-----------------------------------------------------------------------------
(* Before it leaves, a worker goes on searching, or leaves with nothing    *)
(* when it sees the stop, with an error or a panic at any time, and with a *)
(* hit only if it is the one that sets the stop.                           *)
Searching == {"loop", "derive", "check", "match", "notify", "report", "swap"}

Searches(w, step, how) ==
  /\ pc[w] \in Searching
  /\ \/ step \in Searching /\ how = "none"
     \/ /\ step = "leave" /\ how \in {"none", "hit", "error", "panic"}
        /\ how = "none" => stop
        /\ how = "hit" => ~ stop /\ found[w]
  /\ Goto(w, step)
  /\ outcome' = [outcome EXCEPT ![w] = how]
  /\ stop' = (stop \/ how = "hit")
  /\ UNCHANGED << hits, mains >>

LEMMA SearchingStep ==
  ASSUME IInv, NEW w \in Worker,
         \/ Continue(w) \/ Derive(w) \/ Check(w) \/ Match(w)
         \/ Notify(w) \/ Report(w) \/ Swap(w)
  PROVE  \E step, how \in {"none", "hit", "error", "panic"} \union Searching
                            \union {"leave"} :
           Searches(w, step, how)
<1>1. /\ stop \in BOOLEAN
      /\ outcome \in [Worker -> {"none", "hit", "error", "panic"}]
      /\ pc[w] \in Searching => outcome[w] = "none"
  BY DEF IInv, TypeOK, Flow, Searching
<1>2. pc[w] \in Searching => outcome = [outcome EXCEPT ![w] = "none"]
  BY <1>1
<1>. USE DEF Searches, Searching, Goto, Leaves, shared, mains
<1>3. CASE Continue(w)
  BY <1>1, <1>2, <1>3 DEF Continue
<1>4. CASE Derive(w)
  BY <1>1, <1>2, <1>4 DEF Derive
<1>5. CASE Check(w)
  BY <1>1, <1>2, <1>5 DEF Check
<1>6. CASE Match(w)
  BY <1>1, <1>2, <1>6 DEF Match
<1>7. CASE Notify(w)
  BY <1>1, <1>2, <1>7 DEF Notify
<1>8. CASE Report(w)
  BY <1>1, <1>2, <1>8 DEF Report
<1>9. CASE Swap(w)
  BY <1>1, <1>2, <1>9 DEF Swap
<1>. QED  BY <1>3, <1>4, <1>5, <1>6, <1>7, <1>8, <1>9

LEMMA SearchesKeeps ==
  ASSUME IInv, NEW w \in Worker, NEW step, NEW how, Searches(w, step, how)
  PROVE  Flow' /\ StopHasCause' /\ OneHit' /\ OutcomesReported'
<1>1. /\ Flow /\ StopHasCause /\ OneHit /\ OutcomesReported
      /\ pc[w] \in Searching /\ outcome[w] = "none"
      /\ main \notin {"last snapshot", "last write", "decide", "done"}
  BY DEF IInv, Flow, Searches, Searching, Joined
<1>2. /\ pc'[w] = step /\ outcome'[w] = how
      /\ \A v \in Worker \ {w} : pc'[v] = pc[v] /\ outcome'[v] = outcome[v]
      /\ step # "gone" /\ step # "unborn"
      /\ how # "none" => step = "leave"
      /\ step = "leave" => how # "none" \/ stop
      /\ how = "hit" => ~ stop
      /\ stop' = (stop \/ how = "hit")
      /\ UNCHANGED << hits, main, received >>
  BY DEF IInv, TypeOK, Searches, Searching, Goto, mains
<1>3. Flow'
  BY <1>1, <1>2 DEF Flow, Waiting, Joined
<1>4. StopHasCause'
  <2>1. \A v \in Worker : outcome[v] # "none" => outcome'[v] # "none"
    BY <1>1, <1>2
  <2>2. \A v \in Worker :
          /\ outcome'[v] = "hit" => stop'
          /\ pc'[v] \in {"leave", "send", "gone"} => stop' \/ outcome'[v] # "none"
    BY <1>1, <1>2 DEF StopHasCause, Flow, Searches, Searching
  <2>3. stop' /\ Waiting' => \E v \in Worker : outcome'[v] # "none"
    BY <1>1, <1>2, <2>1 DEF StopHasCause, Waiting
  <2>. QED  BY <2>2, <2>3 DEF StopHasCause
<1>5. OneHit'
  BY <1>1, <1>2 DEF OneHit, StopHasCause
<1>6. OutcomesReported'
  BY <1>1, <1>2 DEF OutcomesReported, Waiting
<1>. QED  BY <1>3, <1>4, <1>5, <1>6

(* The last two steps of a worker set the stop and hand over what it found.*)
LEMMA LeaveKeeps ==
  ASSUME IInv, NEW w \in Worker, Leave(w)
  PROVE  Flow' /\ StopHasCause' /\ OneHit' /\ OutcomesReported'
<1>1. /\ Flow /\ StopHasCause /\ OneHit /\ OutcomesReported
      /\ pc[w] = "leave" /\ pc'[w] = "send" /\ stop'
      /\ \A v \in Worker \ {w} : pc'[v] = pc[v]
      /\ UNCHANGED << hits, outcome, main, received >>
  BY DEF IInv, TypeOK, Leave, StopOnExit, Goto, mains
<1>2. ~ Joined
  BY <1>1 DEF Flow
<1>3. Flow'
  BY <1>1, <1>2 DEF Flow, Waiting, Joined
<1>4. StopHasCause'
  BY <1>1 DEF StopHasCause, Waiting
<1>5. OneHit' /\ OutcomesReported'
  BY <1>1 DEF OneHit, OutcomesReported, Waiting
<1>. QED  BY <1>3, <1>4, <1>5

LEMMA SendKeeps ==
  ASSUME IInv, NEW w \in Worker, Send(w)
  PROVE  Flow' /\ StopHasCause' /\ OneHit' /\ OutcomesReported'
<1>1. /\ Flow /\ StopHasCause /\ OneHit /\ OutcomesReported
      /\ pc[w] = "send" /\ pc'[w] = "gone" /\ stop'
      /\ \A v \in Worker \ {w} : pc'[v] = pc[v]
      /\ UNCHANGED << outcome, main, received >>
      /\ hits \in Seq({"hit", "error"})
  BY DEF IInv, TypeOK, Send, StopOnExit, Goto, mains
<1>2. ~ Joined
  BY <1>1 DEF Flow
<1>3. hits' = IF outcome[w] \in {"hit", "error"} THEN Append(hits, outcome[w])
                                                 ELSE hits
  BY DEF Send
<1>4. /\ Len(hits) \in Nat /\ Len(hits) <= Len(hits') /\ Len(hits') \in Nat
      /\ \A k \in 1 .. Len(hits) : hits'[k] = hits[k]
      /\ outcome[w] \in {"hit", "error"} =>
           Len(hits') = Len(hits) + 1 /\ hits'[Len(hits) + 1] = outcome[w]
  BY <1>1, <1>3
<1>5. Flow'
  BY <1>1, <1>2 DEF Flow, Waiting, Joined
<1>6. StopHasCause' /\ OneHit'
  BY <1>1 DEF StopHasCause, OneHit, Waiting
<1>7. OutcomesReported'
  <2>1. ASSUME NEW v \in Worker, main # "done",
               pc'[v] = "gone", outcome[v] \in {"hit", "error"}
        PROVE  \/ ~ Waiting /\ received = outcome[v]
               \/ \E k \in 1 .. Len(hits') : hits'[k] = outcome[v]
    <3>1. CASE v = w
      <4>1. Len(hits') \in 1 .. Len(hits') /\ hits'[Len(hits')] = outcome[v]
        BY <1>4, <2>1, <3>1
      <4>. QED  BY <4>1
    <3>2. CASE v # w
      <4>1. \A k \in 1 .. Len(hits) : k \in 1 .. Len(hits')
        BY <1>4
      <4>. QED  BY <1>1, <1>4, <2>1, <3>2, <4>1 DEF OutcomesReported
    <3>. QED  BY <3>1, <3>2
  <2>. QED  BY <1>1, <2>1 DEF OutcomesReported, Waiting
<1>. QED  BY <1>5, <1>6, <1>7

-----------------------------------------------------------------------------
(* A hit is the best there is, so that no later candidate replaces it.     *)
LEMMA WorkerHitsAreBest ==
  ASSUME IInv, NEW w \in Worker, WorkerStep(w)
  PROVE  HitsAreBest'
<1>1. /\ HitsAreBest /\ Flow /\ best \in Rank /\ MaxRank \in Nat
      /\ found \in [Worker -> BOOLEAN] /\ hits \in Seq({"hit", "error"})
      /\ outcome \in [Worker -> {"none", "hit", "error", "panic"}]
  BY ConstantTypes DEF IInv, TypeOK
<1>2. /\ best = MaxRank => best' = MaxRank
      /\ \A v \in Worker : found'[v] => found[v] \/ best' = MaxRank
  <2>1. CASE Match(w)
    <3>1. PICK rank \in Rank :
            \/ /\ found' = [found EXCEPT ![w] = rank = MaxRank]
               /\ best' = IF rank > best THEN rank ELSE best
            \/ UNCHANGED << found, best >>
      BY <2>1, ConstantTypes DEF Match, Improves
    <3>2. /\ rank \in Nat /\ best \in Nat
          /\ rank <= MaxRank /\ best <= MaxRank
      BY <1>1 DEF Rank
    <3>. QED  BY <1>1, <3>1, <3>2
  <2>2. CASE ~ Match(w)
    BY <2>2 DEF WorkerStep, Continue, Derive, Check, Notify, Report, Swap, Leave,
                Send, shared
  <2>. QED  BY <2>1, <2>2
<1>3. /\ \A v \in Worker : outcome'[v] = "hit" => outcome[v] = "hit" \/ found[v]
      /\ \A v \in Worker : outcome[v] = "hit" => outcome'[v] = "hit"
      /\ \/ hits' = hits
         \/ \E v \in Worker : hits' = Append(hits, outcome[v])
      /\ received' = received
  <2>1. CASE Leave(w) \/ Send(w)
    BY <1>1, <2>1 DEF Leave, Send, mains
  <2>2. CASE ~ (Leave(w) \/ Send(w))
    <3>1. PICK step, how : Searches(w, step, how)
      BY <2>2, SearchingStep DEF WorkerStep
    <3>. QED  BY <1>1, <3>1 DEF Searches, Flow, mains, Searching
  <2>. QED  BY <2>1, <2>2
<1>4. \A k \in 1 .. Len(hits') :
        hits'[k] = "hit" => \E v \in Worker : outcome[v] = "hit"
  <2>1. CASE hits' = hits
    BY <1>1, <2>1 DEF HitsAreBest
  <2>2. ASSUME NEW v \in Worker, hits' = Append(hits, outcome[v])
        PROVE  \A k \in 1 .. Len(hits') :
                 hits'[k] = "hit" => \E u \in Worker : outcome[u] = "hit"
    <3>1. /\ Len(hits') = Len(hits) + 1 /\ Len(hits) \in Nat
          /\ \A k \in 1 .. Len(hits') :
               IF k = Len(hits') THEN hits'[k] = outcome[v]
                                 ELSE k \in 1 .. Len(hits) /\ hits'[k] = hits[k]
      BY <1>1, <2>2
    <3>. QED  BY <1>1, <3>1 DEF HitsAreBest
  <2>. QED  BY <1>3, <2>1, <2>2
<1>. QED  BY <1>1, <1>2, <1>3, <1>4 DEF HitsAreBest

(* A new best is followed by a request to save it, even where another one  *)
(* is waiting already; main saves after it has taken the request.          *)
LEMMA WorkerSavePending ==
  ASSUME IInv, NEW w \in Worker, WorkerStep(w)
  PROVE  SavePending'
<1>1. /\ SavePending /\ ~ Joined /\ updates \in 0 .. 1
      /\ UNCHANGED << main, snapshot, file, received >>
      /\ pc[w] # "unborn" /\ pc[w] # "gone"
  BY DEF IInv, TypeOK, Flow, WorkerStep, Continue, Derive, Check, Match, Notify,
         Report, Swap, Leave, Send, mains
<1>2. NoneToNotify' => NoneToNotify /\ best' = best
  <2>1. CASE Match(w)
    <3>1. /\ pc[w] = "match" /\ UNCHANGED updates
          /\ \A v \in Worker \ {w} : pc'[v] = pc[v]
          /\ pc'[w] = "notify" \/ best' = best
      BY <2>1 DEF Match, Goto, Leaves, IInv, TypeOK
    <3>. QED  BY <3>1 DEF NoneToNotify
  <2>2. CASE Notify(w)
    BY <2>2 DEF Notify, NoneToNotify
  <2>3. CASE ~ Match(w) /\ ~ Notify(w)
    <3>1. /\ UNCHANGED << updates, best >> /\ pc[w] # "notify"
          /\ \A v \in Worker \ {w} : pc'[v] = pc[v]
      BY <2>3 DEF WorkerStep, Continue, Derive, Check, Report, Swap, Leave, Send,
                  Goto, Leaves, shared, IInv, TypeOK
    <3>. QED  BY <3>1 DEF NoneToNotify
  <2>. QED  BY <2>1, <2>2, <2>3
<1>. QED  BY <1>1, <1>2 DEF SavePending, Joined

LEMMA WorkerIInv ==
  ASSUME IInv, NEW w \in Worker, WorkerStep(w)
  PROVE  IInv'
<1>1. TypeOK' /\ HitsAreBest' /\ SavePending'
  BY WorkerTypeOK, WorkerHitsAreBest, WorkerSavePending DEF IInv
<1>2. Flow' /\ StopHasCause' /\ OneHit' /\ OutcomesReported'
  BY SearchingStep, SearchesKeeps, LeaveKeeps, SendKeeps DEF WorkerStep
<1>3. main # "done" /\ main' = main
  BY DEF IInv, Flow, Joined, WorkerStep, Continue, Derive, Check, Match, Notify,
         Report, Swap, Leave, Send, mains
<1>. QED  BY <1>1, <1>2, <1>3 DEF IInv, Decided

-----------------------------------------------------------------------------
(* The main thread.                                                        *)
LEMMA SpawnIInv ==
  ASSUME IInv, Spawn
  PROVE  IInv'
<1>1. /\ TypeOK /\ Flow /\ StopHasCause /\ OneHit /\ OutcomesReported
      /\ HitsAreBest /\ SavePending
      /\ main = "spawn" /\ received = "none"
      /\ UNCHANGED << shared, completed, pending, found, outcome, snapshot,
                      file, saved, result >>
  BY DEF IInv, Spawn, Flow, Waiting
<1>. USE DEF shared
<1>2. CASE main' = "spawn"
  <2>1. PICK w \in Worker : /\ pc[w] = "unborn" /\ Goto(w, "loop")
                            /\ UNCHANGED << main, received >>
    BY <1>1, <1>2 DEF Spawn, Spawned
  <2>2. /\ pc' = [pc EXCEPT ![w] = "loop"] /\ pc'[w] = "loop"
        /\ \A v \in Worker \ {w} : pc'[v] = pc[v]
        /\ outcome[w] = "none"
    BY <1>1, <2>1 DEF Goto, TypeOK, Flow
  <2>3. TypeOK'
    BY <1>1, <2>1, <2>2 DEF TypeOK
  <2>4. Flow' /\ StopHasCause' /\ OneHit' /\ OutcomesReported'
    BY <1>1, <2>1, <2>2
       DEF Flow, StopHasCause, OneHit, OutcomesReported, Waiting, Joined
  <2>5. HitsAreBest' /\ SavePending' /\ Decided'
    BY <1>1, <2>1, <2>2 DEF HitsAreBest, SavePending, NoneToNotify, Decided
  <2>. QED  BY <2>3, <2>4, <2>5 DEF IInv
<1>3. CASE main' = "stop"
  <2>1. received' = "panic" /\ UNCHANGED pc
    BY <1>1, <1>3 DEF Spawn
  <2>2. TypeOK'
    BY <1>1, <1>3, <2>1 DEF TypeOK
  <2>3. Flow' /\ StopHasCause' /\ OneHit' /\ OutcomesReported'
    BY <1>1, <1>3, <2>1
       DEF Flow, StopHasCause, OneHit, OutcomesReported, Waiting, Joined
  <2>4. HitsAreBest' /\ SavePending' /\ Decided'
    BY <1>1, <1>3, <2>1 DEF HitsAreBest, SavePending, Decided
  <2>. QED  BY <2>2, <2>3, <2>4 DEF IInv
<1>4. CASE main' = "receive"
  <2>1. Spawned = Worker /\ UNCHANGED << pc, received >>
    BY <1>1, <1>4 DEF Spawn
  <2>2. TypeOK'
    BY <1>1, <1>4, <2>1 DEF TypeOK
  <2>3. Flow' /\ StopHasCause' /\ OneHit' /\ OutcomesReported'
    BY <1>1, <1>4, <2>1
       DEF Flow, StopHasCause, OneHit, OutcomesReported, Waiting, Joined, Spawned
  <2>4. HitsAreBest' /\ SavePending' /\ Decided'
    BY <1>1, <1>4, <2>1 DEF HitsAreBest, SavePending, NoneToNotify, Decided
  <2>. QED  BY <2>2, <2>3, <2>4 DEF IInv
<1>. QED  BY <1>1, <1>2, <1>3, <1>4 DEF Spawn

(* When all workers are gone with nothing in the channel, one panicked:    *)
(* the first of them to leave had something to leave for.                  *)
LEMMA NoneMeansPanic ==
  ASSUME IInv, main = "receive", hits = << >>, Gone
  PROVE  \E w \in Worker : outcome[w] = "panic"
<1>1. /\ \A w \in Worker : pc[w] = "gone"
      /\ outcome \in [Worker -> {"none", "hit", "error", "panic"}]
  BY DEF IInv, TypeOK, Flow, Gone, Spawned
<1>2. \A w \in Worker : outcome[w] \notin {"hit", "error"}
  BY <1>1 DEF IInv, OutcomesReported, Waiting
<1>3. \E w \in Worker : outcome[w] # "none"
  BY <1>1, SearchRunAssumption DEF IInv, StopHasCause, Waiting
<1>. QED  BY <1>1, <1>2, <1>3

LEMMA ReceiveHitIInv ==
  ASSUME IInv, ReceiveHit
  PROVE  IInv'
<1>1. /\ TypeOK /\ Flow /\ StopHasCause /\ OneHit /\ OutcomesReported
      /\ HitsAreBest /\ SavePending
      /\ main = "receive" /\ received = "none"
      /\ UNCHANGED << stop, total, best, pc, completed, pending, found, outcome,
                      snapshot, file, saved, result >>
  BY DEF IInv, ReceiveHit, Flow, Waiting, workers
<1>2. CASE hits # << >> /\ main' = "stop"
  <2>1. /\ hits \in Seq({"hit", "error"}) /\ received' = Head(hits)
        /\ hits' = Tail(hits) /\ UNCHANGED updates
    BY <1>1, <1>2 DEF ReceiveHit, TypeOK
  <2>2. /\ received' = hits[1] /\ hits[1] \in {"hit", "error"}
        /\ hits' \in Seq({"hit", "error"})
        /\ Len(hits) \in Nat \ {0} /\ Len(hits') = Len(hits) - 1
        /\ \A k \in 1 .. Len(hits) - 1 : hits'[k] = hits[k + 1]
    BY <1>2, <2>1
  <2>3. TypeOK'
    BY <1>1, <1>2, <2>1, <2>2 DEF TypeOK
  <2>4. Flow' /\ StopHasCause' /\ OneHit'
    BY <1>1, <1>2, <2>2 DEF Flow, StopHasCause, OneHit, Waiting, Joined
  <2>5. OutcomesReported'
    <3>1. ASSUME NEW w \in Worker, NEW k \in 1 .. Len(hits), hits[k] = outcome[w]
          PROVE  \/ received' = outcome[w]
                 \/ \E j \in 1 .. Len(hits') : hits'[j] = outcome[w]
      <4>1. CASE k = 1
        BY <2>2, <3>1, <4>1
      <4>2. CASE k # 1
        <5>1. /\ k - 1 \in 1 .. Len(hits) - 1 /\ k - 1 \in 1 .. Len(hits')
              /\ hits'[k - 1] = outcome[w]
          BY <2>2, <3>1, <4>2
        <5>. QED  BY <5>1
      <4>. QED  BY <4>1, <4>2
    <3>2. \A w \in Worker :
            pc[w] = "gone" /\ outcome[w] \in {"hit", "error"} =>
              \E k \in 1 .. Len(hits) : hits[k] = outcome[w]
      BY <1>1 DEF OutcomesReported, Waiting
    <3>. QED  BY <1>1, <1>2, <2>2, <3>1, <3>2 DEF OutcomesReported, Waiting
  <2>6. HitsAreBest'
    <3>1. /\ 1 \in 1 .. Len(hits)
          /\ \A k \in 1 .. Len(hits') : k + 1 \in 1 .. Len(hits)
                                        /\ hits'[k] = hits[k + 1]
      BY <2>2
    <3>. QED  BY <1>1, <2>2, <3>1 DEF HitsAreBest
  <2>7. SavePending' /\ Decided'
    BY <1>1, <1>2, <2>2 DEF SavePending, Decided
  <2>. QED  BY <2>3, <2>4, <2>5, <2>6, <2>7 DEF IInv
<1>3. CASE hits = << >> /\ main' = "stop"
  <2>1. Gone /\ UNCHANGED << received, hits, updates >>
    BY <1>1, <1>3 DEF ReceiveHit
  <2>2. \E w \in Worker : outcome[w] = "panic"
    BY <1>1, <1>3, <2>1, NoneMeansPanic
  <2>3. TypeOK'
    BY <1>1, <1>3, <2>1 DEF TypeOK
  <2>4. Flow' /\ StopHasCause' /\ OneHit' /\ OutcomesReported'
    BY <1>1, <1>3, <2>1, <2>2
       DEF Flow, StopHasCause, OneHit, OutcomesReported, Waiting, Joined
  <2>5. HitsAreBest' /\ SavePending' /\ Decided'
    BY <1>1, <1>3, <2>1 DEF HitsAreBest, SavePending, Decided
  <2>. QED  BY <2>3, <2>4, <2>5 DEF IInv
<1>4. CASE main' = "snapshot"
  <2>1. updates' = 0 /\ UNCHANGED << received, hits >>
    BY <1>1, <1>4 DEF ReceiveHit
  <2>2. updates' \in 0 .. 1
    BY <2>1
  <2>3. TypeOK'
    BY <1>1, <1>4, <2>1, <2>2 DEF TypeOK
  <2>4. Flow' /\ StopHasCause' /\ OneHit' /\ OutcomesReported'
    BY <1>1, <1>4, <2>1
       DEF Flow, StopHasCause, OneHit, OutcomesReported, Waiting, Joined
  <2>5. HitsAreBest' /\ SavePending' /\ Decided'
    BY <1>1, <1>4, <2>1 DEF HitsAreBest, SavePending, Decided
  <2>. QED  BY <2>3, <2>4, <2>5 DEF IInv
<1>. QED  BY <1>1, <1>2, <1>3, <1>4 DEF ReceiveHit

(* The saves, the stop and the join change nothing a worker has written;   *)
(* after the join nobody else does.                                        *)
LEMMA SaveIInv ==
  ASSUME IInv, Snapshot \/ Write \/ Stop \/ Join \/ LastWrite
  PROVE  IInv'
<1>1. /\ TypeOK /\ Flow /\ StopHasCause /\ OneHit /\ OutcomesReported
      /\ HitsAreBest /\ SavePending /\ Decided
      /\ UNCHANGED << total, best, updates, hits, pc, completed, pending, found,
                      outcome, result >>
      /\ main \in {"snapshot", "last snapshot", "write", "stop", "join",
                   "last write"}
  BY DEF IInv, Snapshot, Write, Stop, Join, LastWrite, StopOnExit, shared, workers
<1>2. TypeOK'
  BY <1>1 DEF TypeOK, Snapshot, Write, Stop, Join, LastWrite, StopOnExit, shared,
              workers
<1>3. /\ stop => stop'
      /\ stop' => stop \/ main' = "join"
  <2>1. stop \in BOOLEAN
    BY <1>1 DEF TypeOK
  <2>2. CASE Stop
    BY <2>1, <2>2 DEF Stop, StopOnExit
  <2>3. CASE Snapshot \/ Write \/ Join \/ LastWrite
    <3>1. UNCHANGED shared
      BY <2>3 DEF Snapshot, Write, Join, LastWrite
    <3>. QED  BY <3>1 DEF shared
  <2>. QED  BY <2>2, <2>3
<1>4. /\ Waiting' => Waiting
      /\ received' = received \/ (Waiting /\ ~ Waiting' /\ received' = "error")
      /\ ~ Waiting' /\ Waiting => received' = "error"
  <2>1. CASE Write
    BY <2>1 DEF Waiting, Write
  <2>2. CASE Snapshot \/ Stop \/ Join \/ LastWrite
    BY <2>2 DEF Waiting, Snapshot, Stop, Join, LastWrite
  <2>. QED  BY <2>1, <2>2
<1>5. /\ Joined' => Joined \/ Gone
      /\ main' \in {"receive", "snapshot", "write"} =>
           main \in {"receive", "snapshot", "write"}
      /\ main' # "done"
  BY <1>1 DEF Joined, Snapshot, Write, Stop, Join, LastWrite
<1>6. Flow'
  BY <1>1, <1>4, <1>5 DEF Flow, Waiting, Gone, Spawned
<1>7. StopHasCause'
  BY <1>1, <1>3, <1>4 DEF StopHasCause, Waiting
<1>8. OneHit' /\ HitsAreBest'
  BY <1>1, <1>4 DEF OneHit, HitsAreBest
<1>9. OutcomesReported'
  BY <1>1, <1>4, <1>5 DEF OutcomesReported, Waiting, Flow
<1>10. NoneToNotify' = NoneToNotify
  BY <1>1 DEF NoneToNotify
<1>11. SavePending'
  <2>1. CASE Snapshot
    BY <1>1, <1>10, <2>1 DEF SavePending, Snapshot
  <2>2. CASE Write
    BY <1>1, <1>10, <2>2 DEF SavePending, Write
  <2>3. CASE Stop \/ Join
    BY <1>1, <1>10, <2>3 DEF SavePending, Stop, Join
  <2>4. CASE LastWrite
    BY <1>1, <1>10, <2>4 DEF SavePending, LastWrite
  <2>. QED  BY <2>1, <2>2, <2>3, <2>4
<1>12. Decided'
  BY <1>5 DEF Decided
<1>. QED
  BY <1>2, <1>6, <1>7, <1>8, <1>9, <1>11, <1>12 DEF IInv

(* A main that unwinds has saved nothing.                                  *)
LEMMA UnwindIInv ==
  ASSUME IInv, Unwind
  PROVE  IInv'
<1>1. /\ TypeOK /\ Flow /\ StopHasCause /\ OneHit /\ OutcomesReported
      /\ HitsAreBest /\ SavePending
      /\ main = "join" /\ main' = "done" /\ result' = "error"
      /\ received = "panic" /\ Gone
      /\ UNCHANGED << stop, total, best, updates, hits, pc, completed, pending,
                      found, outcome, snapshot, file, received, saved >>
  BY DEF IInv, Unwind, shared, workers
<1>2. TypeOK'
  BY <1>1 DEF TypeOK
<1>3. Flow' /\ StopHasCause' /\ OneHit' /\ OutcomesReported' /\ HitsAreBest'
  BY <1>1 DEF Flow, StopHasCause, OneHit, OutcomesReported, HitsAreBest, Waiting,
              Joined, Gone, Spawned
<1>4. SavePending' /\ Decided'
  BY <1>1 DEF SavePending, Decided
<1>. QED  BY <1>2, <1>3, <1>4 DEF IInv

(* The status: a worker that is gone with an error has it in the channel,  *)
(* unless it is what receive_hit returned.                                 *)
LEMMA DecideIInv ==
  ASSUME IInv, Decide
  PROVE  IInv'
<1>1. /\ TypeOK /\ Flow /\ StopHasCause /\ OneHit /\ OutcomesReported
      /\ HitsAreBest /\ SavePending
      /\ main = "decide" /\ main' = "done" /\ hits' = << >>
      /\ UNCHANGED << stop, total, best, updates, pc, completed, pending, found,
                      outcome, snapshot, file, received, saved >>
  BY DEF IInv, Decide, workers
<1>0. result' = Status \/ (Status = "hit" /\ result' = "error")
  BY DEF Decide
<1>2. /\ Status \in {"hit", "error"}
      /\ Status = "hit" => /\ received = "hit" /\ saved /\ ~ Panicked
                           /\ \A k \in 1 .. Len(hits) : hits[k] # "error"
  <2>1. received \in {"none", "hit", "error"}
    BY <1>1 DEF TypeOK, SavePending
  <2>2. received = "none" => Panicked
    BY <1>1 DEF OutcomesReported, Waiting, Panicked
  <2>. QED  BY <2>1, <2>2 DEF Status
<1>3. TypeOK'
  BY <1>0, <1>1, <1>2 DEF TypeOK
<1>4. Flow' /\ StopHasCause' /\ OneHit' /\ OutcomesReported' /\ HitsAreBest'
  BY <1>1 DEF Flow, StopHasCause, OneHit, OutcomesReported, HitsAreBest, Waiting,
              Joined
<1>5. SavePending'
  BY <1>1 DEF SavePending
<1>6. Decided'
  <2>1. SUFFICES ASSUME Status = "hit"
                 PROVE  /\ saved /\ received # "panic" /\ best = MaxRank
                        /\ \A w \in Worker : outcome[w] \in {"hit", "none"}
    BY <1>0, <1>1, <1>2 DEF Decided
  <2>2. best = MaxRank
    BY <1>1, <1>2, <2>1 DEF HitsAreBest
  <2>3. ASSUME NEW w \in Worker PROVE outcome[w] \in {"hit", "none"}
    <3>1. outcome[w] \in {"none", "hit", "error", "panic"}
      BY <1>1 DEF TypeOK
    <3>2. outcome[w] # "panic"
      BY <1>2, <2>1 DEF Panicked
    <3>3. outcome[w] # "error"
      <4>1. SUFFICES ASSUME outcome[w] = "error" PROVE FALSE
        OBVIOUS
      <4>2. pc[w] = "gone"
        BY <1>1, <4>1 DEF Flow, Joined
      <4>. QED  BY <1>1, <1>2, <2>1, <4>1, <4>2 DEF OutcomesReported
    <3>. QED  BY <3>1, <3>2, <3>3
  <2>. QED  BY <1>2, <2>1, <2>2, <2>3
<1>. QED  BY <1>3, <1>4, <1>5, <1>6 DEF IInv

LEMMA NextIInv == IInv /\ [Next]_vars => IInv'
<1>. SUFFICES ASSUME IInv, [Next]_vars PROVE IInv'
  OBVIOUS
<1>1. ASSUME NEW w \in Worker, WorkerStep(w) PROVE IInv'
  BY <1>1, WorkerIInv
<1>2. CASE MainStep
  BY <1>2, SpawnIInv, ReceiveHitIInv, SaveIInv, UnwindIInv, DecideIInv
     DEF MainStep
<1>3. CASE UNCHANGED vars
  <2>1. TypeOK'
    BY <1>3 DEF vars, shared, workers, mains, IInv, TypeOK
  <2>2. Flow' /\ StopHasCause' /\ OneHit' /\ OutcomesReported' /\ HitsAreBest'
    BY <1>3 DEF vars, shared, workers, mains, IInv, Flow, StopHasCause, OneHit,
                OutcomesReported, HitsAreBest, Waiting, Joined
  <2>3. SavePending' /\ Decided'
    BY <1>3 DEF vars, shared, workers, mains, IInv, SavePending, NoneToNotify,
                Decided
  <2>. QED  BY <2>1, <2>2, <2>3 DEF IInv
<1>. QED
  BY <1>1, <1>2, <1>3 DEF Next, Terminated

(* The program keeps the types, and what follows an outcome through it.    *)
THEOREM InductiveInvariant == Spec => []IInv
  BY InitIInv, NextIInv, PTL DEF Spec

-----------------------------------------------------------------------------
(* At most one worker returns a hit (the swap of stop in run_with_source), *)
(* for any number of workers.                                              *)
THEOREM OneHitReturned == Spec => []AtMostOneHit
<1>1. ASSUME OneHit PROVE AtMostOneHit
  <2>. DEFINE winners == {w \in Worker : outcome[w] = "hit"}
  <2>1. CASE winners = {}
    BY <2>1, FS_EmptySet DEF AtMostOneHit
  <2>2. ASSUME NEW w \in winners PROVE AtMostOneHit
    <3>1. winners = {w}
      BY <1>1, <2>2 DEF OneHit
    <3>2. Cardinality(winners) = 1
      BY <3>1, FS_Singleton
    <3>. QED  BY <3>2 DEF AtMostOneHit
  <2>. QED  BY <2>1, <2>2
<1>2. IInv => AtMostOneHit
  BY <1>1 DEF IInv
<1>. QED  BY <1>2, InductiveInvariant, PTL

(* No improvement is forgotten, however many requests to save it are       *)
(* dropped while one is queued (updates.try_send of run_with_source).      *)
THEOREM NoImprovementForgotten == Spec => []ImprovementSaved
<1>1. IInv => ImprovementSaved
  BY DEF IInv, SavePending, NoneToNotify, ImprovementSaved
<1>. QED  BY <1>1, InductiveInvariant, PTL

(* When main returns, the closest-candidate file holds the best candidate  *)
(* of all workers unless the last save_closest failed, and after a hit the *)
(* hit; when it unwinds from a failed spawn, what was there before the run.*)
THEOREM LastSaveIsBest == Spec => []FileIsFinal
<1>1. IInv => FileIsFinal
  BY DEF IInv, SavePending, Decided, FileIsFinal
<1>. QED  BY <1>1, InductiveInvariant, PTL

(* A success of main means a hit, and that no worker failed or panicked at *)
(* any time (the drained channel and the joins of main).                   *)
THEOREM SuccessIsHonest == Spec => []HonestStatus
<1>1. IInv => HonestStatus
  BY DEF IInv, Decided, HonestStatus
<1>. QED  BY <1>1, InductiveInvariant, PTL

-----------------------------------------------------------------------------
(***************************************************************************)
(* Sums.  SumFunction is defined by recursion over the subsets of a        *)
(* domain; these lemmas say what it computes for every finite one.         *)
(***************************************************************************)
(* A set of natural numbers that is not empty has a least element: every   *)
(* induction below takes the least counterexample.                         *)
LEMMA NatMinimum ==
  ASSUME NEW T \in SUBSET Nat, T # {}
  PROVE  \E n \in T : \A m \in T : n <= m
<1>1. PICK n \in T : \A m \in T : ~ (<<m, n>> \in OpToRel(<, Nat))
  BY NatLessThanWellFounded, WFMin, Zenon
<1>2. \A m \in T : m < n => <<m, n>> \in OpToRel(<, Nat)
  BY DEF OpToRel
<1>3. \A m \in T : ~ (m < n)
  BY <1>1, <1>2, Zenon
<1>. QED  BY <1>3

(* The element SumFunction takes next, and the equation that defines the   *)
(* sums over the subsets of the domain.                                    *)
Pick(s) == CHOOSE x \in s : TRUE

Sums(f, g) == [s \in SUBSET (DOMAIN f) |->
                 IF s = {} THEN 0 ELSE f[Pick(s)] + g[s \ {Pick(s)}]]

LEMMA SumUnfolds ==
  ASSUME NEW f
  PROVE  SumFunction(f) = (CHOOSE g : g = Sums(f, g))[DOMAIN f]
  BY DEF SumFunction, SumFunctionOnSet, FoldFunctionOnSet, MapThenFoldSet, Sums,
         Pick

LEMMA PickRemoved ==
  ASSUME NEW S, IsFiniteSet(S), NEW s \in SUBSET S, s # {}
  PROVE  /\ Pick(s) \in s /\ s \ {Pick(s)} \in SUBSET S
         /\ Cardinality(s) \in Nat
         /\ Cardinality(s \ {Pick(s)}) = Cardinality(s) - 1
<1>1. Pick(s) \in s
  BY DEF Pick
<1>2. IsFiniteSet(s) /\ Cardinality(s) \in Nat
  BY FS_Subset, FS_CardinalityType
<1>. QED  BY <1>1, <1>2, FS_RemoveElement

(* Induction over the subsets of a finite set, from s \ {Pick(s)} to s.    *)
LEMMA SubsetInduction ==
  ASSUME NEW S, IsFiniteSet(S), NEW Good, {} \in Good,
         \A s \in SUBSET S : s # {} /\ s \ {Pick(s)} \in Good => s \in Good
  PROVE  SUBSET S \subseteq Good
<1>. DEFINE Bad == {n \in Nat : \E s \in SUBSET S : s \notin Good /\ Cardinality(s) = n}
<1>1. CASE Bad = {}
  <2>1. \A s \in SUBSET S : Cardinality(s) \in Nat
    BY FS_Subset, FS_CardinalityType
  <2>. QED  BY <1>1, <2>1
<1>2. CASE Bad # {}
  <2>1. PICK n \in Bad : \A m \in Bad : n <= m
    BY <1>2, NatMinimum
  <2>2. PICK s \in SUBSET S : s \notin Good /\ Cardinality(s) = n
    BY <2>1
  <2>3. /\ s # {} /\ n \in Nat /\ n - 1 < n
        /\ s \ {Pick(s)} \in SUBSET S /\ s \ {Pick(s)} \notin Good
        /\ Cardinality(s \ {Pick(s)}) = n - 1 /\ n - 1 \in Nat
    <3>1. s # {} /\ s \ {Pick(s)} \notin Good
      BY <2>2
    <3>2. /\ s \ {Pick(s)} \in SUBSET S
          /\ Cardinality(s \ {Pick(s)}) = n - 1 /\ n \in Nat
      BY <2>1, <2>2, <3>1, PickRemoved
    <3>3. Cardinality(s \ {Pick(s)}) \in Nat
      BY <3>2, FS_Subset, FS_CardinalityType
    <3>. QED  BY <3>1, <3>2, <3>3
  <2>4. n - 1 \in Bad
    BY <2>3
  <2>. QED  BY <2>1, <2>3, <2>4
<1>. QED  BY <1>1, <1>2

LEMMA SumsExist ==
  ASSUME NEW S, IsFiniteSet(S), NEW f \in [S -> Nat]
  PROVE  \E g : g = Sums(f, g)
<1>. DEFINE Upto(n, g) == \A s \in SUBSET S :
                            Cardinality(s) <= n => g[s] = Sums(f, g)[s]
            Bad == {n \in Nat : ~ \E g \in [SUBSET S -> Nat] : Upto(n, g)}
<1>1. ASSUME NEW g \in [SUBSET S -> Nat]
      PROVE  /\ Sums(f, g) \in [SUBSET S -> Nat]
             /\ Sums(f, g)[{}] = 0
             /\ \A s \in SUBSET S : s # {} =>
                  Sums(f, g)[s] = f[Pick(s)] + g[s \ {Pick(s)}]
  <2>1. \A s \in SUBSET S : s # {} => Pick(s) \in S /\ s \ {Pick(s)} \in SUBSET S
    BY DEF Pick
  <2>. QED  BY <2>1 DEF Sums
<1>2. Bad = {}
  <2>1. SUFFICES ASSUME Bad # {} PROVE FALSE
    OBVIOUS
  <2>2. PICK n \in Bad : \A m \in Bad : n <= m
    BY <2>1, NatMinimum
  <2>3. n # 0
    <3>. DEFINE g == [s \in SUBSET S |-> 0]
    <3>1. g \in [SUBSET S -> Nat]
      OBVIOUS
    <3>2. ASSUME NEW s \in SUBSET S, Cardinality(s) <= 0
          PROVE  g[s] = Sums(f, g)[s]
      <4>1. s = {}
        BY <3>2, FS_Subset, FS_CardinalityType, FS_EmptySet
      <4>. QED  BY <1>1, <3>1, <4>1
    <3>. QED  BY <3>1, <3>2
  <2>4. n \in Nat /\ n - 1 \in Nat /\ n - 1 \notin Bad
    <3>1. n \in Nat
      BY <2>2
    <3>. HIDE DEF Bad
    <3>. QED  BY <2>2, <2>3, <3>1
  <2>5. PICK g \in [SUBSET S -> Nat] : Upto(n - 1, g)
    BY <2>4
  <2>. DEFINE h == Sums(f, g)
  <2>6. h \in [SUBSET S -> Nat]
    BY <1>1
  <2>7. ASSUME NEW s \in SUBSET S, Cardinality(s) <= n
        PROVE  h[s] = Sums(f, h)[s]
    <3>1. CASE s = {}
      BY <1>1, <2>6, <3>1
    <3>2. CASE s # {}
      <4>1. /\ s \ {Pick(s)} \in SUBSET S
            /\ Cardinality(s \ {Pick(s)}) <= n - 1
        BY <2>4, <2>7, <3>2, PickRemoved
      <4>2. g[s \ {Pick(s)}] = h[s \ {Pick(s)}]
        BY <2>5, <4>1
      <4>3. h[s] = f[Pick(s)] + g[s \ {Pick(s)}]
        BY <1>1, <3>2
      <4>4. Sums(f, h)[s] = f[Pick(s)] + h[s \ {Pick(s)}]
        BY <1>1, <2>6, <3>2
      <4>. QED  BY <4>2, <4>3, <4>4
    <3>. QED  BY <3>1, <3>2
  <2>8. \E k \in [SUBSET S -> Nat] : Upto(n, k)
    BY <2>6, <2>7
  <2>. QED  BY <2>2, <2>8
<1>3. Cardinality(S) \in Nat
  BY FS_CardinalityType
<1>4. PICK g \in [SUBSET S -> Nat] : Upto(Cardinality(S), g)
  BY <1>2, <1>3
<1>5. \A s \in SUBSET S : g[s] = Sums(f, g)[s]
  BY <1>4, FS_Subset
<1>6. g = Sums(f, g)
  <2>1. /\ g \in [SUBSET S -> Nat] /\ Sums(f, g) \in [SUBSET S -> Nat]
    BY <1>1
  <2>. QED  BY <1>5, <2>1
<1>. QED  BY <1>6

(* The sums of f over the subsets of its domain, by one element at a time. *)
SumsOf(f) == CHOOSE g : g = Sums(f, g)

LEMMA SumsOfStep ==
  ASSUME NEW S, IsFiniteSet(S), NEW f \in [S -> Nat]
  PROVE  /\ SumFunction(f) = SumsOf(f)[S]
         /\ SumsOf(f)[{}] = 0
         /\ \A s \in SUBSET S : s # {} =>
              SumsOf(f)[s] = f[Pick(s)] + SumsOf(f)[s \ {Pick(s)}]
         /\ \A s \in SUBSET S : SumsOf(f)[s] \in Nat
<1>1. DOMAIN f = S
  OBVIOUS
<1>2. SumFunction(f) = SumsOf(f)[S]
  BY <1>1, SumUnfolds DEF SumsOf
<1>3. SumsOf(f) = Sums(f, SumsOf(f))
  BY SumsExist DEF SumsOf
<1>4. /\ SumsOf(f)[{}] = 0
      /\ \A s \in SUBSET S : s # {} =>
           SumsOf(f)[s] = f[Pick(s)] + SumsOf(f)[s \ {Pick(s)}]
  <2>. DEFINE g == SumsOf(f)
  <2>. HIDE DEF g
  <2>1. g = [s \in SUBSET S |->
               IF s = {} THEN 0 ELSE f[Pick(s)] + g[s \ {Pick(s)}]]
    BY <1>1, <1>3 DEF Sums, g
  <2>2. /\ g[{}] = 0
        /\ \A s \in SUBSET S : s # {} => g[s] = f[Pick(s)] + g[s \ {Pick(s)}]
    BY <2>1
  <2>. QED  BY <2>2 DEF g
<1>5. \A s \in SUBSET S : SumsOf(f)[s] \in Nat
  <2>. DEFINE Good == {s \in SUBSET S : SumsOf(f)[s] \in Nat}
  <2>1. {} \in Good
    BY <1>4
  <2>2. ASSUME NEW s \in SUBSET S, s # {}, s \ {Pick(s)} \in Good
        PROVE  s \in Good
    <3>1. f[Pick(s)] \in Nat
      BY <2>2 DEF Pick
    <3>. QED  BY <1>4, <2>2, <3>1
  <2>. HIDE DEF Good
  <2>3. SUBSET S \subseteq Good
    BY <2>1, <2>2, SubsetInduction
  <2>. QED  BY <2>3 DEF Good
<1>. QED  BY <1>2, <1>4, <1>5

(* Adding up zeros, and changing one of the numbers added up.              *)
LEMMA SumOfZeros ==
  ASSUME NEW S, IsFiniteSet(S), NEW f \in [S -> Nat], \A x \in S : f[x] = 0
  PROVE  SumFunction(f) = 0
<1>. DEFINE Good == {s \in SUBSET S : SumsOf(f)[s] = 0}
<1>1. {} \in Good
  BY SumsOfStep
<1>2. ASSUME NEW s \in SUBSET S, s # {}, s \ {Pick(s)} \in Good
      PROVE  s \in Good
  <2>1. f[Pick(s)] = 0
    BY <1>2 DEF Pick
  <2>2. SumsOf(f)[s] = f[Pick(s)] + SumsOf(f)[s \ {Pick(s)}]
    BY <1>2, SumsOfStep
  <2>. QED  BY <1>2, <2>1, <2>2
<1>3. SUBSET S \subseteq Good
  <2>. HIDE DEF Good
  <2>. QED  BY <1>1, <1>2, SubsetInduction
<1>4. SumsOf(f)[S] = 0
  BY <1>3
<1>. QED  BY <1>4, SumsOfStep

LEMMA SumOfChanged ==
  ASSUME NEW S, IsFiniteSet(S), NEW w \in S,
         NEW f \in [S -> Nat], NEW h \in [S -> Nat],
         \A x \in S \ {w} : h[x] = f[x]
  PROVE  /\ SumFunction(f) \in Nat
         /\ SumFunction(h) \in Nat
         /\ SumFunction(h) + f[w] = SumFunction(f) + h[w]
<1>. DEFINE a(s) == SumsOf(f)[s]
            b(s) == SumsOf(h)[s]
            Good == {s \in SUBSET S : IF w \in s THEN b(s) + f[w] = a(s) + h[w]
                                                 ELSE b(s) = a(s)}
<1>2. /\ a({}) = 0 /\ b({}) = 0
      /\ \A s \in SUBSET S : a(s) \in Nat /\ b(s) \in Nat
      /\ \A s \in SUBSET S : s # {} => /\ a(s) = f[Pick(s)] + a(s \ {Pick(s)})
                                       /\ b(s) = h[Pick(s)] + b(s \ {Pick(s)})
  <2>1. ASSUME NEW g \in [S -> Nat]
        PROVE  /\ SumsOf(g)[{}] = 0
               /\ \A s \in SUBSET S : SumsOf(g)[s] \in Nat
               /\ \A s \in SUBSET S : s # {} =>
                    SumsOf(g)[s] = g[Pick(s)] + SumsOf(g)[s \ {Pick(s)}]
    BY SumsOfStep
  <2>. QED  BY <2>1, Zenon
<1>. HIDE DEF a, b
<1>3. {} \in Good
  BY <1>2
<1>4. ASSUME NEW s \in SUBSET S, s # {}, s \ {Pick(s)} \in Good
      PROVE  s \in Good
  <2>. DEFINE p == Pick(s)
              t == s \ {p}
  <2>1. p \in s /\ p \in S /\ t \in SUBSET S
    BY <1>4 DEF Pick
  <2>2. a(s) = f[p] + a(t) /\ b(s) = h[p] + b(t)
    BY <1>2, <1>4
  <2>3. IF w \in t THEN b(t) + f[w] = a(t) + h[w] ELSE b(t) = a(t)
    BY <1>4
  <2>4. /\ f[p] \in Nat /\ h[p] \in Nat /\ f[w] \in Nat
        /\ h[w] \in Nat
        /\ a(t) \in Nat /\ b(t) \in Nat
    BY <1>2, <2>1
  <2>5. w \notin t <=> w \notin s \/ w = p
    OBVIOUS
  <2>6. p # w => h[p] = f[p]
    BY <2>1
  <2>. HIDE DEF p, t
  <2>7. CASE p = w
    BY <2>1, <2>2, <2>3, <2>4, <2>5, <2>7
  <2>8. CASE p # w
    BY <2>2, <2>3, <2>4, <2>5, <2>6, <2>8
  <2>. QED  BY <2>7, <2>8
<1>5. SUBSET S \subseteq Good
  <2>. HIDE DEF Good
  <2>. QED  BY <1>3, <1>4, SubsetInduction
<1>6. b(S) + f[w] = a(S) + h[w]
  BY <1>5
<1>7. SumFunction(f) = a(S) /\ SumFunction(h) = b(S)
  BY SumsOfStep DEF a, b
<1>. QED  BY <1>2, <1>6, <1>7

-----------------------------------------------------------------------------
(* A worker has handed over its pending count before it is gone.           *)
NothingPending ==
  \A w \in Worker : pc[w] \in {"unborn", "send", "gone"} => pending[w] = 0

Counted == total + SumFunction(pending) = SumFunction(completed)

(* What a flush adds to the total it takes from the pending count.         *)
LEMMA FlushCounts ==
  ASSUME TypeOK, TypeOK', Counted, NEW w \in Worker
  PROVE  /\ Flush(w, pending[w]) /\ UNCHANGED completed => Counted'
         /\ /\ Flush(w, pending[w] + 1)
            /\ completed' = [completed EXCEPT ![w] = @ + 1]
            => Counted'
         /\ /\ pending' = [pending EXCEPT ![w] = @ + 1] /\ UNCHANGED total
            /\ completed' = [completed EXCEPT ![w] = @ + 1]
            => Counted'
<1>1. /\ IsFiniteSet(Worker)
      /\ pending \in [Worker -> Nat] /\ completed \in [Worker -> Nat]
      /\ pending' \in [Worker -> Nat] /\ completed' \in [Worker -> Nat]
  <2>1. 0 .. FlushEvery - 1 \subseteq Nat
    BY ConstantTypes
  <2>. QED  BY <2>1, SearchRunAssumption DEF TypeOK
<1>2. /\ total \in Nat /\ pending[w] \in Nat /\ completed[w] \in Nat
      /\ total' \in Nat /\ pending'[w] \in Nat /\ completed'[w] \in Nat
  BY <1>1 DEF TypeOK
<1>3. ASSUME \A v \in Worker \ {w} : pending'[v] = pending[v]
      PROVE  /\ SumFunction(pending) \in Nat /\ SumFunction(pending') \in Nat
             /\ SumFunction(pending') + pending[w] =
                  SumFunction(pending) + pending'[w]
  BY <1>1, <1>3, SumOfChanged
<1>4. ASSUME \A v \in Worker \ {w} : completed'[v] = completed[v]
      PROVE  /\ SumFunction(completed) \in Nat /\ SumFunction(completed') \in Nat
             /\ SumFunction(completed') + completed[w] =
                  SumFunction(completed) + completed'[w]
  BY <1>1, <1>4, SumOfChanged
<1>5. ASSUME Flush(w, pending[w]), UNCHANGED completed PROVE Counted'
  <2>1. /\ pending'[w] = 0 /\ total' = total + pending[w]
        /\ \A v \in Worker \ {w} : pending'[v] = pending[v]
    BY <1>1, <1>5 DEF Flush
  <2>2. SumFunction(completed) \in Nat
    BY <1>4, <1>5
  <2>. QED  BY <1>2, <1>3, <1>5, <2>1, <2>2 DEF Counted
<1>6. ASSUME completed' = [completed EXCEPT ![w] = completed[w] + 1]
      PROVE  /\ SumFunction(completed) \in Nat
             /\ SumFunction(completed') = SumFunction(completed) + 1
  <2>1. /\ completed'[w] = completed[w] + 1
        /\ \A v \in Worker \ {w} : completed'[v] = completed[v]
    BY <1>1, <1>6
  <2>. QED  BY <1>2, <1>4, <2>1
<1>7. ASSUME Flush(w, pending[w] + 1),
             completed' = [completed EXCEPT ![w] = completed[w] + 1]
      PROVE  Counted'
  <2>1. /\ pending'[w] = 0 /\ total' = total + (pending[w] + 1)
        /\ \A v \in Worker \ {w} : pending'[v] = pending[v]
    BY <1>1, <1>7 DEF Flush
  <2>. QED  BY <1>2, <1>3, <1>6, <1>7, <2>1 DEF Counted
<1>8. ASSUME pending' = [pending EXCEPT ![w] = pending[w] + 1], UNCHANGED total,
             completed' = [completed EXCEPT ![w] = completed[w] + 1]
      PROVE  Counted'
  <2>1. /\ pending'[w] = pending[w] + 1
        /\ \A v \in Worker \ {w} : pending'[v] = pending[v]
    BY <1>1, <1>8
  <2>. QED  BY <1>2, <1>3, <1>6, <1>8, <2>1 DEF Counted
<1>. QED  BY <1>5, <1>7, <1>8

LEMMA WorkerCounts ==
  ASSUME TypeOK, TypeOK', Counted, NothingPending, NEW w \in Worker, WorkerStep(w)
  PROVE  Counted' /\ NothingPending'
<1>1. /\ pc \in [Worker -> {"unborn", "loop", "derive", "check", "match",
                            "notify", "report", "swap", "leave", "send", "gone"}]
      /\ pending \in [Worker -> 0 .. FlushEvery - 1]
  BY DEF TypeOK
<1>2. CASE Derive(w)
  <2>1. Counted'
    <3>1. \/ /\ completed' = [completed EXCEPT ![w] = @ + 1]
             /\ \/ Flush(w, pending[w] + 1)
                \/ pending' = [pending EXCEPT ![w] = @ + 1] /\ UNCHANGED total
          \/ UNCHANGED << total, completed, pending >>
      BY <1>2 DEF Derive
    <3>2. CASE UNCHANGED << total, completed, pending >>
      BY <3>2 DEF Counted
    <3>. QED  BY <3>1, <3>2, FlushCounts
  <2>2. /\ pc[w] = "derive" /\ pc'[w] \in {"check", "leave"}
        /\ \A v \in Worker \ {w} : pc'[v] = pc[v] /\ pending'[v] = pending[v]
    BY <1>1, <1>2 DEF Derive, Flush, Goto, Leaves
  <2>. QED  BY <2>1, <2>2 DEF NothingPending
<1>3. CASE Report(w)
  <2>1. Counted'
    <3>1. CASE Flush(w, pending[w])
      BY <1>3, <3>1, FlushCounts DEF Report
    <3>2. CASE UNCHANGED << total, pending >>
      BY <1>3, <3>2 DEF Report, Counted
    <3>. QED  BY <1>3, <3>1, <3>2 DEF Report
  <2>2. /\ pc[w] = "report" /\ pc'[w] \in {"swap", "leave"}
        /\ \A v \in Worker \ {w} : pc'[v] = pc[v] /\ pending'[v] = pending[v]
    BY <1>1, <1>3 DEF Report, Flush, Goto, Leaves
  <2>. QED  BY <2>1, <2>2 DEF NothingPending
<1>4. CASE Leave(w)
  <2>1. Counted'
    BY <1>4, FlushCounts DEF Leave
  <2>2. /\ pending'[w] = 0
        /\ \A v \in Worker \ {w} : pc'[v] = pc[v] /\ pending'[v] = pending[v]
    BY <1>1, <1>4 DEF Leave, Flush, Goto
  <2>. QED  BY <2>1, <2>2 DEF NothingPending
<1>5. CASE Send(w)
  <2>1. /\ UNCHANGED << total, completed, pending >> /\ pc[w] = "send"
        /\ \A v \in Worker \ {w} : pc'[v] = pc[v]
    BY <1>1, <1>5 DEF Send, Goto
  <2>. QED  BY <2>1 DEF Counted, NothingPending
<1>6. CASE Continue(w) \/ Check(w) \/ Match(w) \/ Notify(w) \/ Swap(w)
  <2>1. /\ UNCHANGED << total, completed, pending >>
        /\ \A v \in Worker \ {w} : pc'[v] = pc[v]
        /\ pc'[w] \notin {"unborn", "send", "gone"}
    BY <1>1, <1>6 DEF Continue, Check, Match, Notify, Swap, Goto, Leaves, shared
  <2>. QED  BY <2>1 DEF Counted, NothingPending
<1>. QED
  BY <1>2, <1>3, <1>4, <1>5, <1>6 DEF WorkerStep

LEMMA MainCounts ==
  ASSUME TypeOK, Counted, NothingPending, MainStep \/ UNCHANGED vars
  PROVE  Counted' /\ NothingPending'
<1>1. UNCHANGED << total, completed, pending >>
  BY DEF MainStep, Spawn, ReceiveHit, Snapshot, Write, Stop, Join, Unwind,
         LastWrite, Decide, vars, shared, workers
<1>2. \A v \in Worker : pc'[v] \in {"unborn", "send", "gone"} => pc'[v] = pc[v]
  <2>1. CASE Spawn
    <3>1. pc \in [Worker -> {"unborn", "loop", "derive", "check", "match",
                             "notify", "report", "swap", "leave", "send", "gone"}]
      BY DEF TypeOK
    <3>. QED  BY <2>1, <3>1 DEF Spawn, Goto
  <2>2. CASE ~ Spawn
    BY <2>2 DEF MainStep, ReceiveHit, Snapshot, Write, Stop, Join, Unwind,
                LastWrite, Decide, vars, workers
  <2>. QED  BY <2>1, <2>2
<1>. QED  BY <1>1, <1>2 DEF Counted, NothingPending

(* Every batch derived is in the total or in one pending count, through    *)
(* every flush, error and panic; when main returns it is in the total      *)
(* (TryCounter and its Drop).                                              *)
THEOREM NoAttemptLost == Spec => []AttemptsAddUp
<1>. DEFINE Counts == Counted /\ NothingPending
<1>1. Init => Counts
  <2>. SUFFICES ASSUME Init PROVE Counts
    OBVIOUS
  <2>1. /\ pending \in [Worker -> Nat] /\ completed \in [Worker -> Nat]
        /\ \A w \in Worker : pending[w] = 0 /\ completed[w] = 0
        /\ total = 0 /\ IsFiniteSet(Worker)
    BY SearchRunAssumption DEF Init
  <2>2. SumFunction(pending) = 0 /\ SumFunction(completed) = 0
    BY <2>1, SumOfZeros
  <2>. QED  BY <2>1, <2>2 DEF Counted, NothingPending
<1>2. Counts /\ IInv /\ IInv' /\ [Next]_vars => Counts'
  <2>1. TypeOK /\ TypeOK' /\ Counted /\ NothingPending /\ [Next]_vars => Counts'
    BY WorkerCounts, MainCounts DEF Next, Terminated
  <2>. QED  BY <2>1 DEF IInv
<1>3. Counts /\ IInv => AttemptsAddUp
  <2>. SUFFICES ASSUME Counted, NothingPending, IInv, main = "done"
                PROVE  total = SumFunction(completed)
    BY DEF AttemptsAddUp, Counted
  <2>1. /\ IsFiniteSet(Worker) /\ pending \in [Worker -> Nat]
        /\ total \in Nat
    <3>1. 0 .. FlushEvery - 1 \subseteq Nat
      BY ConstantTypes
    <3>. QED  BY <3>1, SearchRunAssumption DEF IInv, TypeOK
  <2>2. \A w \in Worker : pending[w] = 0
    BY DEF IInv, Flow, Joined, NothingPending
  <2>3. SumFunction(pending) = 0
    BY <2>1, <2>2, SumOfZeros
  <2>. QED  BY <2>1, <2>3 DEF Counted
<1>. QED  BY <1>1, <1>2, <1>3, InductiveInvariant, PTL DEF Spec
=============================================================================
