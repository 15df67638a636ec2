----------------------------- MODULE BestState ------------------------------
(***************************************************************************)
(* BestState of src/search.rs: the closest candidate of all the workers    *)
(* behind a mutex, and an atomic score in front of it that lets a worker   *)
(* reject a candidate without taking the mutex.                            *)
(*                                                                         *)
(* consider_checked is split at every access to shared memory: the relaxed *)
(* load of the score, the lock, the comparison, verify() and the           *)
(* assignment, the store of the score and the unlock.  The load is         *)
(* Ordering::Relaxed, so it may return any score stored so far that is not *)
(* older than what the thread has already seen (`view').                   *)
(***************************************************************************)
EXTENDS Candidates

CONSTANTS
  Nobody      (* The mutex is free.                                        *)

ASSUME BestStateAssumption == Nobody \notin Worker

VARIABLES
  score,      (* BestState.score, the latest value of the atomic.          *)
  stored,     (* History: every value the atomic ever held.                *)
  view,       (* view[w]: the newest of them thread w has seen.            *)
  candidate,  (* BestState.candidate, the content of the mutex.            *)
  owner,      (* The thread that holds the mutex, or Nobody.               *)
  pc,         (* pc[w]: where thread w is in consider_checked.             *)
  offer,      (* offer[w]: the candidate thread w passed to it.            *)
  last,       (* last[w]: the attempt number of w's latest offer.          *)
  decided,    (* History: the candidates whose comparison is over.         *)
  shown       (* The last snapshot() the main thread took.                 *)

vars == << score, stored, view, candidate, owner, pc, offer, last, decided,
           shown >>

Steps == {"idle", "lock", "compare", "verify", "store", "unlock", "failed"}

(* Threads inside the critical section.                                    *)
Holding == {"compare", "verify", "store", "unlock"}

MaxScore == MaxPrefix + MaxSuffix

Init ==
  /\ score = 0
  /\ stored = {0}
  /\ view = [w \in Worker |-> 0]
  /\ candidate = None
  /\ owner = Nobody
  /\ pc = [w \in Worker |-> "idle"]
  /\ offer = [w \in Worker |-> None]
  /\ last = [w \in Worker |-> 0]
  /\ decided = {}
  /\ shown = None

Goto(w, step) == pc' = [pc EXCEPT ![w] = step]

-----------------------------------------------------------------------------
(***************************************************************************)
(* The early return of consider_checked: no match at all, or a score below *)
(* the value h the relaxed load returned.                                  *)
(***************************************************************************)
RejectedTiesByHint(c, h) == Score(c) = 0 \/ Score(c) <= h

RejectedByHint(c, h) == Score(c) = 0 \/ Score(c) < h

(* The call and its load of the score.  Attempt numbers of one worker grow *)
(* from batch to batch (base + index + 1).                                 *)
LoadHint(w) ==
  /\ pc[w] = "idle"
  /\ \E c \in Candidate, h \in stored :
       /\ c.worker = w
       /\ c.tries > last[w]
       /\ h >= view[w]
       /\ view' = [view EXCEPT ![w] = h]
       /\ last' = [last EXCEPT ![w] = c.tries]
       /\ offer' = [offer EXCEPT ![w] = c]
       /\ IF RejectedByHint(c, h)
            THEN decided' = decided \union {c} /\ UNCHANGED pc
            ELSE Goto(w, "lock") /\ UNCHANGED decided
  /\ UNCHANGED << score, stored, candidate, owner, shown >>

(* Taking the mutex orders the thread after the store of the last holder.  *)
Lock(w) ==
  /\ pc[w] = "lock"
  /\ owner = Nobody
  /\ owner' = w
  /\ view' = [view EXCEPT ![w] = score]
  /\ Goto(w, "compare")
  /\ UNCHANGED << score, stored, candidate, offer, last, decided, shown >>

CompareNothing(w) ==
  /\ pc[w] = "compare"
  /\ Goto(w, "verify")
  /\ UNCHANGED << score, stored, view, candidate, owner, offer, last, decided,
                  shown >>

(* The rank is compared again under the mutex: the hint may be stale.      *)
Compare(w) ==
  /\ pc[w] = "compare"
  /\ IF candidate = None \/ Outranks(offer[w], candidate)
       THEN Goto(w, "verify") /\ UNCHANGED decided
       ELSE Goto(w, "unlock") /\ decided' = decided \union {offer[w]}
  /\ UNCHANGED << score, stored, view, candidate, owner, offer, last, shown >>

VerifyThenUnlock(w) ==
  /\ pc[w] = "verify"
  /\ offer[w].sound
  /\ candidate' = offer[w]
  /\ decided' = decided \union {offer[w]}
  /\ owner' = Nobody
  /\ Goto(w, "store")
  /\ UNCHANGED << score, stored, view, offer, last, shown >>

(* verify()? and, when it succeeds, the assignment to the mutex's content. *)
(* When it fails the guard is dropped and the worker's search ends.        *)
Verify(w) ==
  /\ pc[w] = "verify"
  /\ IF offer[w].sound
       THEN /\ candidate' = offer[w]
            /\ decided' = decided \union {offer[w]}
            /\ Goto(w, "store")
            /\ UNCHANGED owner
       ELSE /\ owner' = Nobody
            /\ Goto(w, "failed")
            /\ UNCHANGED << candidate, decided >>
  /\ UNCHANGED << score, stored, view, offer, last, shown >>

(* The score is stored while the mutex is held.                            *)
StoreHint(w) ==
  /\ pc[w] = "store"
  /\ score' = Score(offer[w])
  /\ stored' = stored \union {score'}
  /\ view' = [view EXCEPT ![w] = score']
  /\ Goto(w, "unlock")
  /\ UNCHANGED << candidate, owner, offer, last, decided, shown >>

(* The guard is dropped at the return.                                     *)
Unlock(w) ==
  /\ pc[w] = "unlock"
  /\ owner' = Nobody
  /\ Goto(w, "idle")
  /\ UNCHANGED << score, stored, view, candidate, offer, last, decided, shown >>

(* snapshot(), called by the main thread: lock, clone, unlock.             *)
Snapshot ==
  /\ owner = Nobody
  /\ shown' = candidate
  /\ UNCHANGED << score, stored, view, candidate, owner, pc, offer, last,
                  decided >>

Consider(w) ==
  \/ LoadHint(w)
  \/ Lock(w)
  \/ Compare(w)
  \/ Verify(w)
  \/ StoreHint(w)
  \/ Unlock(w)

Next ==
  \/ \E w \in Worker : Consider(w)
  \/ Snapshot

Spec == Init /\ [][Next]_vars
-----------------------------------------------------------------------------
(* Every variable has its type (consider_checked, BestState).              *)
TypeOK ==
  /\ score \in 0 .. MaxScore
  /\ stored \in SUBSET (0 .. MaxScore)
  /\ view \in [Worker -> 0 .. MaxScore]
  /\ candidate \in Candidate \union {None}
  /\ owner \in Worker \union {Nobody}
  /\ pc \in [Worker -> Steps]
  /\ offer \in [Worker -> Candidate \union {None}]
  /\ last \in [Worker -> 0 .. MaxTries]
  /\ decided \in SUBSET Candidate
  /\ shown \in Candidate \union {None}

(***************************************************************************)
(* No candidate is lost: whatever the order of hint loads, lock            *)
(* acquisitions and stores, a candidate whose comparison is over does not  *)
(* outrank the one BestState holds (search.rs, consider_checked).          *)
(***************************************************************************)
NoOfferLost ==
  \A c \in decided :
    Score(c) > 0 => candidate # None /\ ~ Outranks(c, candidate)

(***************************************************************************)
(* "This atomic is only a rejection hint": no value it ever held, hence no *)
(* stale one a relaxed load returns, exceeds the score of the candidate.   *)
(***************************************************************************)
HintNeverAhead ==
  \A h \in stored : h = 0 \/ (candidate # None /\ h <= Score(candidate))

(***************************************************************************)
(* "Publish before unlocking so an older update cannot lower the cached    *)
(* score": the stored score never decreases, and nobody finds the mutex    *)
(* free while the score still lags behind the candidate.                   *)
(***************************************************************************)
HintFollowsCandidate ==
  /\ candidate # None => score <= Score(candidate)
  /\ owner = Nobody => score = (IF candidate = None THEN 0 ELSE Score(candidate))

HintNeverLowered == [][score' >= score]_vars

(***************************************************************************)
(* A candidate the verifier rejects is never published, neither to the     *)
(* register nor to a snapshot (search.rs, the test of a failing verifier). *)
(***************************************************************************)
PublishedIsVerified ==
  \A c \in {candidate, shown} : c # None => c.sound

(***************************************************************************)
(* consider_checked and snapshot implement an atomic maximum register.     *)
(***************************************************************************)
Register == INSTANCE MaxRegister WITH best <- candidate

ImplementsMaxRegister == Register!Spec
=============================================================================
