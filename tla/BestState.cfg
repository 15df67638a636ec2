\* Two workers, up to two offers each, one digit of prefix and one of suffix:
\* ties in the score broken by the prefix, ties in the whole rank, stale hints,
\* failing verifiers.
CONSTANTS
  Worker = {w1, w2}
  MaxPrefix = 1
  MaxSuffix = 1
  MaxTries = 2
  None = None
  Nobody = Nobody
SPECIFICATION Spec
INVARIANTS
  NoOfferLost
  HintFollowsCandidate
PROPERTIES
  ImplementsMaxRegister
CHECK_DEADLOCK FALSE
