SPECIFICATION RunsSpec
CONSTANTS
  a = a  b = b  k1 = k1  k2 = k2
  w1 = w1  w2 = w2  r1 = r1  r2 = r2  unit = unit  e2e = e2e
  Task <- MCTask
  Deps <- MCDeps
  Steps <- MCIntegration
  Review = {}
  Commit <- MCCommit
  NoCommit = NoCommit
  Runs <- MCRunSet
  Worktrees = {w1, w2}
  Gates <- MCGates
  DependsOn <- MCDependsOn
  FullGates = {unit, e2e}
  Affected = {unit}
  Retries = {unit}
  Repeats = {e2e}
  Locked = {unit}
  KeepRuns = 1
  Reader = w1
  Restless = {w1}
  MaxChanges = 1
  MaxCrashes = 1
  Overlap = FALSE
  None = None
SYMMETRY MCSymmetry
CHECK_DEADLOCK FALSE
INVARIANTS
  RunningIsJustified
  FinishedWorkIsAccounted
  WavesHaveWork
  NextAgreesWithSet
  ProofIsGenuine
  RelaunchOnSameCode
  SuiteFailureNotHidden
  StoreKeepsWholeRuns
