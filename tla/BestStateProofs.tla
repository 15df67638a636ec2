-------------------------- MODULE BestStateProofs ---------------------------
(***************************************************************************)
(* BestState for every number of workers, every target and every number of *)
(* attempts: the type invariant, mutual exclusion and the hint invariant,  *)
(* no lost candidate, and the refinement of the atomic maximum register.   *)
(***************************************************************************)
EXTENDS BestState, TLAPS

USE CandidatesAssumption, BestStateAssumption

(* The mutex: a thread is between lock and unlock iff it is the owner.     *)
MutexInv ==
  \A w \in Worker : pc[w] \in Holding <=> owner = w

(* What each program point knows about the candidate it carries.           *)
OfferInv ==
  \A w \in Worker :
    /\ pc[w] \in Holding \union {"lock"} =>
         offer[w] \in Candidate /\ Score(offer[w]) > 0
    /\ pc[w] = "verify" =>
         candidate = None \/ Outranks(offer[w], candidate)
    /\ pc[w] = "store" => candidate = offer[w] /\ score <= Score(offer[w])

(* The atomic: every value it held is at most the latest, and the latest   *)
(* is the candidate's score, except between the assignment and the store.  *)
ScoreInv ==
  /\ score \in stored
  /\ \A h \in stored : h <= score
  /\ candidate = None => score = 0
  /\ (candidate # None /\ \A w \in Worker : pc[w] # "store") =>
       score = Score(candidate)

IInv ==
  /\ TypeOK
  /\ MutexInv
  /\ OfferInv
  /\ ScoreInv
  /\ NoOfferLost
  /\ PublishedIsVerified

-----------------------------------------------------------------------------
(* A score is a number of at most MaxPrefix + MaxSuffix digits.            *)
LEMMA ScoreType ==
  ASSUME NEW c \in Candidate
  PROVE  Score(c) \in Nat /\ Score(c) \in 0 .. MaxScore
BY DEF Candidate, Score, MaxScore

(* What does not outrank a candidate does not outrank its replacement, and *)
(* nothing outranks itself.                                                *)
LEMMA OutranksOrder ==
  ASSUME NEW a \in Candidate, NEW b \in Candidate, NEW c \in Candidate
  PROVE  /\ ~ Outranks(a, a)
         /\ Outranks(a, b) /\ ~ Outranks(c, b) => ~ Outranks(c, a)
         /\ Outranks(a, b) => Score(a) >= Score(b)
BY DEF Candidate, Score, Outranks

(* The initial state satisfies the invariant.                              *)
LEMMA InitIInv == Init => IInv
BY DEF Init, IInv, TypeOK, MutexInv, OfferInv, ScoreInv, NoOfferLost,
       PublishedIsVerified, Steps, Holding, MaxScore

(* The score never exceeds the candidate's.                                *)
LEMMA ScoreBounded ==
  ASSUME IInv
  PROVE  candidate # None => score <= Score(candidate)
<1>1. CASE \E w \in Worker : pc[w] = "store"
  BY <1>1 DEF IInv, OfferInv
<1>2. CASE \A w \in Worker : pc[w] # "store"
  <2>1. candidate # None => Score(candidate) \in Nat
    BY ScoreType DEF IInv, TypeOK
  <2> QED
    BY <1>2, <2>1 DEF IInv, ScoreInv
<1> QED
  BY <1>1, <1>2

(* One call's rejection by the hint: the hint is at most the candidate's   *)
(* score, so the rejected candidate does not outrank it.                   *)
LEMMA HintSound ==
  ASSUME IInv, NEW c \in Candidate, NEW h \in stored, RejectedByHint(c, h)
  PROVE  Score(c) > 0 => candidate # None /\ ~ Outranks(c, candidate)
<1> SUFFICES ASSUME Score(c) > 0
             PROVE  candidate # None /\ ~ Outranks(c, candidate)
  OBVIOUS
<1>1. Score(c) \in Nat /\ h \in Nat /\ score \in Nat
  BY ScoreType DEF IInv, TypeOK
<1>2. Score(c) < h /\ h <= score
  BY <1>1 DEF RejectedByHint, IInv, ScoreInv
<1>3. candidate # None
  BY <1>1, <1>2 DEF IInv, ScoreInv
<1>4. candidate \in Candidate /\ Score(candidate) \in Nat
  BY <1>3, ScoreType DEF IInv, TypeOK
<1>5. Score(c) < Score(candidate)
  BY <1>1, <1>2, <1>3, <1>4, ScoreBounded
<1> QED
  BY <1>1, <1>3, <1>4, <1>5 DEF Outranks

(* The invariant is inductive: one step of the proof per action.           *)
LEMMA NextIInv == IInv /\ [Next]_vars => IInv'
<1> SUFFICES ASSUME IInv, [Next]_vars
             PROVE  IInv'
  OBVIOUS
<1> USE DEF IInv
<1>1. ASSUME NEW w \in Worker, LoadHint(w)
      PROVE  IInv'
  <2> PICK c \in Candidate, h \in stored :
           /\ c.worker = w
           /\ view' = [view EXCEPT ![w] = h]
           /\ last' = [last EXCEPT ![w] = c.tries]
           /\ offer' = [offer EXCEPT ![w] = c]
           /\ IF RejectedByHint(c, h)
                THEN decided' = decided \union {c} /\ UNCHANGED pc
                ELSE Goto(w, "lock") /\ UNCHANGED decided
    BY <1>1 DEF LoadHint
  <2> pc[w] = "idle"
    BY <1>1 DEF LoadHint
  <2> UNCHANGED << score, stored, candidate, owner, shown >>
    BY <1>1 DEF LoadHint
  <2>1. pc' \in [Worker -> Steps] /\ \A v \in Worker : v # w => pc'[v] = pc[v]
    BY DEF Goto, TypeOK, Steps
  <2>2. pc'[w] \in {"idle", "lock"} /\ (pc'[w] = "lock" => ~ RejectedByHint(c, h))
    BY DEF Goto, TypeOK
  <2>3. TypeOK'
    <3>1. h \in 0 .. MaxScore /\ c.tries \in 0 .. MaxTries
      BY DEF TypeOK, Candidate
    <3>2. decided' \in SUBSET Candidate
      BY DEF TypeOK
    <3> QED
      BY <2>1, <3>1, <3>2 DEF TypeOK
  <2>4. MutexInv'
    BY <2>1, <2>2 DEF MutexInv, Holding
  <2>5. OfferInv'
    BY <2>1, <2>2, ScoreType DEF OfferInv, Holding, RejectedByHint, TypeOK
  <2>6. ScoreInv'
    BY <2>1, <2>2 DEF ScoreInv
  <2>7. NoOfferLost'
    BY HintSound DEF NoOfferLost
  <2> QED
    BY <2>3, <2>4, <2>5, <2>6, <2>7 DEF PublishedIsVerified
<1>2. ASSUME NEW w \in Worker, Lock(w)
      PROVE  IInv'
  <2> USE <1>2 DEF Lock, Goto
  <2>1. TypeOK'
    BY DEF TypeOK, Steps
  <2>2. MutexInv'
    BY DEF MutexInv, Holding, TypeOK
  <2>3. OfferInv'
    BY DEF OfferInv, Holding, TypeOK
  <2>4. ScoreInv' /\ NoOfferLost' /\ PublishedIsVerified'
    BY DEF ScoreInv, NoOfferLost, PublishedIsVerified, TypeOK
  <2> QED
    BY <2>1, <2>2, <2>3, <2>4
<1>3. ASSUME NEW w \in Worker, Compare(w)
      PROVE  IInv'
  <2> USE <1>3 DEF Compare, Goto
  <2>0. offer[w] \in Candidate
    BY DEF OfferInv, Holding
  <2>1. TypeOK'
    BY <2>0 DEF TypeOK, Steps
  <2>2. MutexInv'
    BY DEF MutexInv, Holding, TypeOK
  <2>3. OfferInv'
    BY DEF OfferInv, Holding, TypeOK
  <2>4. ScoreInv' /\ PublishedIsVerified'
    BY DEF ScoreInv, PublishedIsVerified, TypeOK
  <2>5. NoOfferLost'
    BY DEF NoOfferLost, OfferInv
  <2> QED
    BY <2>1, <2>2, <2>3, <2>4, <2>5
<1>4. ASSUME NEW w \in Worker, Verify(w)
      PROVE  IInv'
  <2> USE <1>4 DEF Verify, Goto
  <2>0. owner = w /\ offer[w] \in Candidate /\ Score(offer[w]) > 0
    BY DEF MutexInv, OfferInv, Holding
  <2>1. TypeOK'
    BY <2>0 DEF TypeOK, Steps
  <2>2. MutexInv'
    BY <2>0 DEF MutexInv, Holding, TypeOK
  <2>3. CASE ~ offer[w].sound
    <3>1. UNCHANGED << candidate, decided, score, stored, offer, shown >>
      BY <2>3
    <3>2. OfferInv'
      BY <3>1, <2>3 DEF OfferInv, Holding, TypeOK
    <3>3. ScoreInv'
      BY <3>1, <2>3 DEF ScoreInv, TypeOK
    <3> QED
      BY <3>1, <3>2, <3>3, <2>1, <2>2 DEF NoOfferLost, PublishedIsVerified
  <2>4. CASE offer[w].sound
    <3> USE <2>4
    <3>1. candidate' = offer[w] /\ candidate' # None
      BY <2>0
    <3>2. \A v \in Worker : v # w => pc[v] \notin Holding
      BY <2>0 DEF MutexInv
    <3>3. score \in Nat /\ Score(offer[w]) \in Nat
      BY <2>0, ScoreType DEF TypeOK
    <3>4. score <= Score(offer[w])
      <4>1. CASE candidate = None
        BY <4>1, <3>3, <2>0 DEF ScoreInv
      <4>2. CASE candidate # None
        <5>1. candidate \in Candidate /\ Outranks(offer[w], candidate)
          BY <4>2 DEF TypeOK, OfferInv
        <5>2. Score(offer[w]) >= Score(candidate) /\ Score(candidate) \in Nat
          BY <5>1, <2>0, OutranksOrder, ScoreType
        <5> QED
          BY <5>2, <4>2, <3>3, ScoreBounded
      <4> QED
        BY <4>1, <4>2
    <3>5. OfferInv'
      BY <3>1, <3>2, <3>4, <2>0 DEF OfferInv, Holding, TypeOK
    <3>6. ScoreInv'
      BY <3>1 DEF ScoreInv, TypeOK
    <3>7. NoOfferLost'
      <4> SUFFICES ASSUME NEW c \in decided', Score(c) > 0
                   PROVE  ~ Outranks(c, offer[w])
        BY <3>1 DEF NoOfferLost
      <4>1. c \in Candidate
        BY <2>0 DEF TypeOK
      <4>2. CASE c = offer[w]
        BY <4>2, <2>0, OutranksOrder
      <4>3. CASE c \in decided
        <5>1. candidate \in Candidate /\ ~ Outranks(c, candidate)
          BY <4>3 DEF NoOfferLost, TypeOK
        <5>2. Outranks(offer[w], candidate)
          BY <5>1 DEF OfferInv
        <5> QED
          BY <5>1, <5>2, <4>1, <2>0, OutranksOrder
      <4> QED
        BY <4>2, <4>3
    <3>8. PublishedIsVerified'
      BY <3>1 DEF PublishedIsVerified
    <3> QED
      BY <3>5, <3>6, <3>7, <3>8, <2>1, <2>2
  <2> QED
    BY <2>3, <2>4
<1>5. ASSUME NEW w \in Worker, StoreHint(w)
      PROVE  IInv'
  <2> USE <1>5 DEF StoreHint, Goto
  <2>0. /\ owner = w
        /\ offer[w] \in Candidate
        /\ candidate = offer[w]
        /\ score <= Score(offer[w])
    BY DEF MutexInv, OfferInv, Holding
  <2>1. Score(offer[w]) \in Nat /\ Score(offer[w]) \in 0 .. MaxScore
    BY <2>0, ScoreType
  <2>2. TypeOK'
    BY <2>1 DEF TypeOK, Steps
  <2>3. MutexInv'
    BY <2>0 DEF MutexInv, Holding, TypeOK
  <2>4. \A v \in Worker : v # w => pc[v] # "store"
    BY <2>0 DEF MutexInv, Holding
  <2>5. OfferInv'
    BY <2>0, <2>1, <2>4 DEF OfferInv, Holding, TypeOK
  <2>6. ScoreInv'
    <3>1. \A h \in stored : h \in Nat /\ h <= score
      BY DEF ScoreInv, TypeOK
    <3>2. \A h \in stored' : h <= score'
      BY <3>1, <2>0, <2>1 DEF TypeOK
    <3> QED
      BY <3>2, <2>0 DEF ScoreInv
  <2>7. NoOfferLost' /\ PublishedIsVerified'
    BY DEF NoOfferLost, PublishedIsVerified
  <2> QED
    BY <2>2, <2>3, <2>5, <2>6, <2>7
<1>6. ASSUME NEW w \in Worker, Unlock(w)
      PROVE  IInv'
  <2> USE <1>6 DEF Unlock, Goto
  <2>1. TypeOK'
    BY DEF TypeOK, Steps
  <2>2. MutexInv' /\ OfferInv'
    BY DEF MutexInv, OfferInv, Holding, TypeOK
  <2>3. ScoreInv' /\ NoOfferLost' /\ PublishedIsVerified'
    BY DEF ScoreInv, NoOfferLost, PublishedIsVerified, TypeOK
  <2> QED
    BY <2>1, <2>2, <2>3
<1>7. ASSUME Snapshot
      PROVE  IInv'
  BY <1>7 DEF Snapshot, TypeOK, MutexInv, OfferInv, ScoreInv, NoOfferLost,
              PublishedIsVerified
<1>8. CASE UNCHANGED vars
  BY <1>8 DEF vars, TypeOK, MutexInv, OfferInv, ScoreInv, NoOfferLost,
              PublishedIsVerified
<1> QED
  BY <1>1, <1>2, <1>3, <1>4, <1>5, <1>6, <1>7, <1>8 DEF Next, Consider
-----------------------------------------------------------------------------
(* IInv holds in every reachable state of consider_checked and snapshot.   *)
THEOREM Invariance == Spec => []IInv
<1> QED
  BY InitIInv, NextIInv, PTL DEF Spec

(* Every variable of BestState keeps its type, for any number of threads.  *)
THEOREM TypeCorrect == Spec => []TypeOK
<1>1. IInv => TypeOK
  BY DEF IInv
<1> QED
  BY <1>1, Invariance, PTL

(* No candidate is lost, whatever stale score the relaxed loads return.    *)
THEOREM NoLoss == Spec => []NoOfferLost
<1>1. IInv => NoOfferLost
  BY DEF IInv
<1> QED
  BY <1>1, Invariance, PTL

(* The closest candidate and every snapshot of it passed the verifier.     *)
THEOREM OnlyVerified == Spec => []PublishedIsVerified
<1>1. IInv => PublishedIsVerified
  BY DEF IInv
<1> QED
  BY <1>1, Invariance, PTL

(* The atomic never held a score above the candidate's.                    *)
THEOREM HintSafe == Spec => []HintNeverAhead
<1>1. IInv => HintNeverAhead
  <2> SUFFICES ASSUME IInv, NEW h \in stored, h # 0
               PROVE  candidate # None /\ h <= Score(candidate)
    BY DEF HintNeverAhead
  <2>1. h \in Nat /\ score \in Nat /\ h <= score
    BY DEF IInv, TypeOK, ScoreInv
  <2>2. candidate # None
    BY <2>1 DEF IInv, ScoreInv
  <2>3. Score(candidate) \in Nat /\ score <= Score(candidate)
    BY <2>2, ScoreType, ScoreBounded DEF IInv, TypeOK
  <2> QED
    BY <2>1, <2>2, <2>3
<1> QED
  BY <1>1, Invariance, PTL

(* Whoever finds the mutex free finds the score up to date.                *)
THEOREM HintCurrent == Spec => []HintFollowsCandidate
<1>1. IInv => HintFollowsCandidate
  <2> SUFFICES ASSUME IInv
               PROVE  HintFollowsCandidate
    OBVIOUS
  <2>1. owner = Nobody => \A w \in Worker : pc[w] # "store"
    BY DEF IInv, MutexInv, Holding
  <2> QED
    BY <2>1, ScoreBounded DEF HintFollowsCandidate, IInv, ScoreInv
<1> QED
  BY <1>1, Invariance, PTL

(* The stored score never decreases: it is published under the mutex.      *)
THEOREM HintMonotone == Spec => HintNeverLowered
<1>1. IInv /\ [Next]_vars => [score' >= score]_vars
  <2> SUFFICES ASSUME IInv, [Next]_vars
               PROVE  score' >= score
    OBVIOUS
  <2>1. score \in Nat
    BY DEF IInv, TypeOK
  <2>2. ASSUME NEW w \in Worker, StoreHint(w)
        PROVE  score' >= score
    <3>1. score <= Score(offer[w]) /\ score' = Score(offer[w])
      BY <2>2 DEF StoreHint, IInv, OfferInv
    <3>2. Score(offer[w]) \in Nat
      BY <2>2, ScoreType DEF StoreHint, IInv, OfferInv, Holding
    <3> QED
      BY <2>1, <3>1, <3>2
  <2>3. CASE UNCHANGED score
    BY <2>1, <2>3
  <2> QED
    BY <2>2, <2>3 DEF Next, Consider, LoadHint, Lock, Compare, Verify, Unlock,
                      Snapshot, vars
<1> QED
  BY <1>1, Invariance, PTL DEF Spec, HintNeverLowered

(* consider_checked is linearizable: every step of BestState is a step of  *)
(* the atomic register or leaves it alone.                                 *)
THEOREM Refinement == Spec => ImplementsMaxRegister
<1> USE DEF Register!Candidate, Candidate, Register!Score, Register!Outranks,
            Register!Improves
<1>1. Init => Register!Init
  BY DEF Init, Register!Init
<1>2. IInv /\ [Next]_vars => [Register!Next]_(Register!vars)
  <2> SUFFICES ASSUME IInv, [Next]_vars
               PROVE  [Register!Next]_(Register!vars)
    OBVIOUS
  <2> USE DEF Register!Next, Register!vars
  <2>1. ASSUME NEW w \in Worker, LoadHint(w)
        PROVE  [Register!Next]_(Register!vars)
    <3>1. PICK c \in Candidate, h \in stored :
               IF RejectedByHint(c, h)
                 THEN decided' = decided \union {c} /\ UNCHANGED pc
                 ELSE Goto(w, "lock") /\ UNCHANGED decided
      BY <2>1 DEF LoadHint
    <3>2. UNCHANGED << candidate, shown >>
      BY <2>1 DEF LoadHint
    <3>3. CASE RejectedByHint(c, h)
      <4>1. ~ Improves(c, candidate)
        BY <3>3, HintSound DEF Improves
      <4>2. Register!Keep(c)
        BY <3>1, <3>2, <3>3, <4>1
           DEF Register!Keep, Improves, Outranks, Score
      <4> QED
        BY <4>2
    <3> QED
      BY <3>1, <3>2, <3>3
  <2>2. ASSUME NEW w \in Worker, Compare(w)
        PROVE  [Register!Next]_(Register!vars)
    <3>1. offer[w] \in Candidate
      BY <2>2 DEF Compare, IInv, OfferInv, Holding
    <3>2. CASE candidate = None \/ Outranks(offer[w], candidate)
      BY <2>2, <3>2 DEF Compare
    <3>3. CASE ~ (candidate = None \/ Outranks(offer[w], candidate))
      <4>1. Register!Keep(offer[w])
        BY <2>2, <3>3 DEF Compare, Register!Keep, Outranks, Score
      <4> QED
        BY <3>1, <4>1
    <3> QED
      BY <3>2, <3>3
  <2>3. ASSUME NEW w \in Worker, Verify(w)
        PROVE  [Register!Next]_(Register!vars)
    <3>1. /\ offer[w] \in Candidate
          /\ Score(offer[w]) > 0
          /\ candidate = None \/ Outranks(offer[w], candidate)
      BY <2>3 DEF Verify, IInv, OfferInv, Holding
    <3>2. CASE ~ offer[w].sound
      BY <2>3, <3>2 DEF Verify
    <3>3. CASE offer[w].sound
      <4>1. Register!Replace(offer[w])
        BY <2>3, <3>1, <3>3 DEF Verify, Register!Replace, Outranks, Score
      <4> QED
        BY <3>1, <4>1
    <3> QED
      BY <3>2, <3>3
  <2>4. CASE Snapshot
    BY <2>4 DEF Snapshot, Register!Read
  <2>5. CASE UNCHANGED << candidate, decided, shown >>
    BY <2>5
  <2> QED
    BY <2>1, <2>2, <2>3, <2>4, <2>5
       DEF Next, Consider, Lock, StoreHint, Unlock, vars
<1> QED
  BY <1>1, <1>2, Invariance, PTL DEF Spec, ImplementsMaxRegister, Register!Spec
=============================================================================
