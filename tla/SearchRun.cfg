\* Two workers, two batches each; counts flushed every second batch and
\* progress reported every second batch; ranks none, close and hit.
CONSTANTS
  Worker = {w1, w2}
  MaxRank = 2
  FlushEvery = 2
  ReportEvery = 2
  MaxBatches = 2
  Stale = Stale
SPECIFICATION Spec
INVARIANTS
  AtMostOneHit
  AttemptsAddUp
  ImprovementSaved
  FileIsFinal
  HonestStatus
PROPERTIES
  OneEndEndsAll
