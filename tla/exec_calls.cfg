\* The three calls of a run, under fairness.
SPECIFICATION FairSpec
CONSTANT NCalls = 3
INVARIANTS
  ExecInv
  OkMeansExecuted
  OnlyTimeoutsLeak
PROPERTY CallReturns
\* When the calls are made and the goroutines have ended, nothing is left to do.
CHECK_DEADLOCK FALSE
